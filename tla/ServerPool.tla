----------------------------- MODULE ServerPool -----------------------------
(***************************************************************************)
(* The TCP front of the server: the accept loop, the bounded connection    *)
(* queue, the worker threads with their keep-alive loops, the per-address  *)
(* connection counters and the shutdown sequence                           *)
(* (src/server/server.c, server_worker.c, server_serve.c, server_http.c).  *)
(*                                                                         *)
(* A step is a section of the code that no other thread can observe        *)
(* half-done: a section under g_queue.lock, one under g_limit_lock, or one *)
(* read or write of an atomic.  File descriptors are the kernel's and are  *)
(* reused: a closed descriptor may come back from the next accept, so a    *)
(* second close, or a shutdown of a closed one, would hit another client.  *)
(*                                                                         *)
(* The per-address counter is the contract of client_limit; the slot table *)
(* behind it, with its eviction and time windows, is module ClientLimits.  *)
(* A local variable of the code that is dead (fd and w->ip between two     *)
(* connections, served and keep between two requests) is set to a default. *)
(***************************************************************************)
EXTENDS Naturals, Sequences, FiniteSets

CONSTANTS Workers,       \* the worker threads (g_workers)
          FDs,           \* descriptors the kernel can hand out
          IPs,           \* peer addresses
          QueueCap,      \* SERVER_QUEUE
          KeepaliveMax,  \* SERVER_KEEPALIVE_MAX
          ConnLimit,     \* g_connections_per_ip
          DrainPolls,    \* g_drain_ms / 10, the rounds of the drain loop
          None           \* no descriptor, no address (-1 in the code)

Conn == [fd : FDs, ip : IPs]

ASSUME PoolAssumption ==
    /\ QueueCap \in Nat \ {0}
    /\ KeepaliveMax \in Nat \ {0}
    /\ ConnLimit \in Nat \ {0}
    /\ DrainPolls \in Nat
    /\ IsFiniteSet(Workers)
    /\ None \notin FDs
    /\ None \notin IPs /\ None \notin Conn

VARIABLES
    stop,       \* g_stop, set by the signal handler
    drainOver,  \* g_drain_over, set when the accept loop ends
    stopping,   \* g_queue.stopping
    queue,      \* the descriptors and addresses in g_queue, oldest first
    waiting,    \* the workers blocked in pthread_cond_wait on not_empty
    fdst,       \* the kernel's view of each descriptor
    conns,      \* connections counted against each address
    mpc,        \* where the main thread is in server_run
    client,     \* the connection the main thread is admitting
    polls,      \* rounds of the drain loop taken (waited_ms / 10)
    wpc,        \* where each worker is
    wfd,        \* fd of worker_main
    wip,        \* w->ip
    wsock,      \* w->socket, what stop_workers can see
    served,     \* served of handle_connection
    keep,       \* the keep_alive decided for the request being served
    status      \* what /health/ready answered (0: the request is another)

mainVars   == <<mpc, client, polls>>
workerVars == <<wpc, wfd, wip, wsock, served, keep, status>>
vars == <<stop, drainOver, stopping, queue, waiting, fdst, conns,
          mainVars, workerVars>>

MainStates   == {"start", "accept", "limit", "push", "unlimit", "reject",
                 "leave", "clear", "drain", "shut", "join", "done"}
WorkerStates == {"unborn", "pop", "popped", "top", "read", "serve", "sent",
                 "close", "release", "exited"}

(* The main thread holds a connection it has accepted and not yet queued.  *)
Admitting == mpc \in {"limit", "push", "unlimit", "reject"}

(* Worker w holds an open connection.                                      *)
Holding(w) == wpc[w] \in {"popped", "top", "read", "serve", "sent", "close"}

(* Worker w's connection is visible in w->socket.                          *)
Published(w) == wpc[w] \in {"top", "read", "serve", "sent", "close"}

(* The places of the queue that hold a connection of address a.            *)
CountedQueue(a) == {i \in DOMAIN queue : queue[i].ip = a}

(* client_limit(ip, -1), m times: never below zero.                        *)
Less(n, m) == IF n > m THEN n - m ELSE 0

(* client_limit(a, -1): the counter of that address, no other.             *)
Uncount(a) == [b \in IPs |-> IF b = a THEN Less(conns[b], 1) ELSE conns[b]]

TypeOK ==
    /\ stop \in BOOLEAN /\ drainOver \in BOOLEAN /\ stopping \in BOOLEAN
    /\ queue \in Seq(Conn)
    /\ waiting \subseteq Workers
    /\ fdst \in [FDs -> {"free", "open", "shut"}]
    /\ conns \in [IPs -> Nat]
    /\ mpc \in MainStates
    /\ client \in IF Admitting THEN Conn ELSE {None}
    /\ polls \in Nat
    /\ wpc \in [Workers -> WorkerStates]
    /\ wfd \in [Workers -> FDs \cup {None}]
    /\ wip \in [Workers -> IPs \cup {None}]
    /\ wsock \in [Workers -> FDs \cup {None}]
    /\ served \in [Workers -> Nat]
    /\ keep \in [Workers -> BOOLEAN]
    /\ status \in [Workers -> {0, 200, 503}]

(* server_run has cleared its globals; no worker thread exists yet.        *)
Init ==
    /\ stop = FALSE /\ drainOver = FALSE /\ stopping = FALSE
    /\ queue = <<>> /\ waiting = {}
    /\ fdst = [f \in FDs |-> "free"]
    /\ conns = [a \in IPs |-> 0]
    /\ mpc = "start" /\ client = None /\ polls = 0
    /\ wpc = [w \in Workers |-> "unborn"]
    /\ wfd = [w \in Workers |-> None]
    /\ wip = [w \in Workers |-> None]
    /\ wsock = [w \in Workers |-> None]
    /\ served = [w \in Workers |-> 0]
    /\ keep = [w \in Workers |-> FALSE]
    /\ status = [w \in Workers |-> 0]

-----------------------------------------------------------------------------
(* The main thread: starting, accepting.                                   *)

(* on_signal: SIGINT or SIGTERM at any time.                               *)
Signal ==
    /\ ~stop /\ mpc # "done"
    /\ stop' = TRUE
    /\ UNCHANGED <<drainOver, stopping, queue, waiting, fdst, conns,
                   mainVars, workerVars>>

(* start_workers: one pthread_create.                                      *)
StartWorker(w) ==
    /\ mpc = "start" /\ wpc[w] = "unborn"
    /\ wpc' = [wpc EXCEPT ![w] = "pop"]
    /\ UNCHANGED <<stop, drainOver, stopping, queue, waiting, fdst, conns,
                   mainVars, wfd, wip, wsock, served, keep, status>>

(* An arena, a thread or the listening socket could not be had: the        *)
(* workers that did start are stopped.  g_drain_over is not set on this    *)
(* path.                                                                   *)
StartFails ==
    /\ mpc = "start"
    /\ mpc' = "clear"
    /\ UNCHANGED <<stop, drainOver, stopping, queue, waiting, fdst, conns,
                   client, polls, workerVars>>

Listen ==
    /\ mpc = "start"
    /\ \A w \in Workers : wpc[w] # "unborn"
    /\ mpc' = "accept"
    /\ UNCHANGED <<stop, drainOver, stopping, queue, waiting, fdst, conns,
                   client, polls, workerVars>>

(* accept_one got a connection.  (When set_nonblocking fails it is closed  *)
(* at once, which leaves everything as it was.)                            *)
AcceptOne(f, a) ==
    /\ mpc = "accept" /\ ~stop
    /\ fdst[f] = "free"
    /\ fdst' = [fdst EXCEPT ![f] = "open"]
    /\ client' = [fd |-> f, ip |-> a]
    /\ mpc' = "limit"
    /\ UNCHANGED <<stop, drainOver, stopping, queue, waiting, conns, polls,
                   workerVars>>

(* client_limit(ip, 1).  An address at its limit is refused; so is a new   *)
(* address when no slot of the table is left.                              *)
AdmitClient ==
    /\ mpc = "limit"
    /\ \/ /\ conns[client.ip] < ConnLimit
          /\ conns' = [conns EXCEPT ![client.ip] = @ + 1]
          /\ mpc' = "push"
       \/ /\ conns[client.ip] = 0 \/ conns[client.ip] >= ConnLimit
          /\ mpc' = "reject"
          /\ UNCHANGED conns
    /\ UNCHANGED <<stop, drainOver, stopping, queue, waiting, fdst, client,
                   polls, workerVars>>

(* Variant: no waiting worker is signalled.                                *)
PushSilent ==
    /\ mpc = "push"
    /\ IF Len(queue) < QueueCap
       THEN queue' = Append(queue, client) /\ mpc' = "accept" /\ client' = None
       ELSE mpc' = "unlimit" /\ UNCHANGED <<queue, client>>
    /\ UNCHANGED <<stop, drainOver, stopping, waiting, fdst, conns, polls,
                   workerVars>>

(* queue_push under the queue lock; pthread_cond_signal wakes one waiter.  *)
PushClient ==
    /\ mpc = "push"
    /\ \/ /\ Len(queue) < QueueCap
          /\ queue' = Append(queue, client)
          /\ \/ waiting = {} /\ UNCHANGED waiting
             \/ \E w \in waiting : waiting' = waiting \ {w}
          /\ mpc' = "accept" /\ client' = None
       \/ /\ Len(queue) >= QueueCap
          /\ mpc' = "unlimit"
          /\ UNCHANGED <<queue, waiting, client>>
    /\ UNCHANGED <<stop, drainOver, stopping, fdst, conns, polls, workerVars>>

(* Variant: the refused connection stays counted.                          *)
UnlimitForgotten ==
    /\ mpc = "unlimit"
    /\ mpc' = "reject"
    /\ UNCHANGED <<stop, drainOver, stopping, queue, waiting, fdst, conns,
                   client, polls, workerVars>>

(* The queue was full: client_limit(ip, -1).                               *)
UnlimitClient ==
    /\ mpc = "unlimit"
    /\ conns' = Uncount(client.ip)
    /\ mpc' = "reject"
    /\ UNCHANGED <<stop, drainOver, stopping, queue, waiting, fdst, client,
                   polls, workerVars>>

(* reject_busy: a 503 and close.                                           *)
RejectBusy ==
    /\ mpc = "reject"
    /\ fdst' = [fdst EXCEPT ![client.fd] = "free"]
    /\ client' = None
    /\ mpc' = "accept"
    /\ UNCHANGED <<stop, drainOver, stopping, queue, waiting, conns, polls,
                   workerVars>>

(* accept_loop sees the signal, at the latest when poll times out.         *)
StopSeen ==
    /\ mpc = "accept" /\ stop
    /\ mpc' = "leave"
    /\ UNCHANGED <<stop, drainOver, stopping, queue, waiting, fdst, conns,
                   client, polls, workerVars>>

(* poll or accept failed with anything but EINTR or EAGAIN: the loop ends  *)
(* and the server shuts down with g_stop still 0.                          *)
AcceptFails ==
    /\ mpc = "accept" /\ ~stop
    /\ mpc' = "leave"
    /\ UNCHANGED <<stop, drainOver, stopping, queue, waiting, fdst, conns,
                   client, polls, workerVars>>

-----------------------------------------------------------------------------
(* The main thread: shutting down.                                         *)

(* Variant: g_drain_over is not set.                                       *)
DrainOverForgotten ==
    /\ mpc = "leave"
    /\ mpc' = "clear"
    /\ UNCHANGED <<stop, drainOver, stopping, queue, waiting, fdst, conns,
                   client, polls, workerVars>>

(* The last line of accept_loop; the listening socket is closed after it.  *)
SetDrainOver ==
    /\ mpc = "leave"
    /\ drainOver' = TRUE
    /\ mpc' = "clear"
    /\ UNCHANGED <<stop, stopping, queue, waiting, fdst, conns, client, polls,
                   workerVars>>

(* Variants: the closed connections stay queued; nobody is woken.          *)
ClearKeepsQueue ==
    /\ mpc = "clear"
    /\ stopping' = TRUE
    /\ fdst' = [f \in FDs |-> IF \E i \in DOMAIN queue : queue[i].fd = f
                              THEN "free" ELSE fdst[f]]
    /\ waiting' = {} /\ polls' = 0
    /\ mpc' = "drain"
    /\ UNCHANGED <<stop, drainOver, queue, conns, client, workerVars>>

ClearSilent ==
    /\ mpc = "clear"
    /\ stopping' = TRUE
    /\ conns' = [a \in IPs |-> Less(conns[a], Cardinality(CountedQueue(a)))]
    /\ fdst' = [f \in FDs |-> IF \E i \in DOMAIN queue : queue[i].fd = f
                              THEN "free" ELSE fdst[f]]
    /\ queue' = <<>> /\ polls' = 0
    /\ mpc' = "drain"
    /\ UNCHANGED <<stop, drainOver, waiting, client, workerVars>>

(* stop_workers, first section under the lock: every queued connection is  *)
(* uncounted and closed, every waiting worker is woken.                    *)
ClearQueue ==
    /\ mpc = "clear"
    /\ stopping' = TRUE
    /\ conns' = [a \in IPs |-> Less(conns[a], Cardinality(CountedQueue(a)))]
    /\ fdst' = [f \in FDs |-> IF \E i \in DOMAIN queue : queue[i].fd = f
                              THEN "free" ELSE fdst[f]]
    /\ queue' = <<>>
    /\ waiting' = {}
    /\ polls' = 0
    /\ mpc' = "drain"
    /\ UNCHANGED <<stop, drainOver, client, workerVars>>

(* One round of the drain loop: some connection is still open, sleep 10 ms.*)
DrainPoll ==
    /\ mpc = "drain" /\ polls < DrainPolls
    /\ \E w \in Workers : wsock[w] # None
    /\ polls' = polls + 1
    /\ UNCHANGED <<stop, drainOver, stopping, queue, waiting, fdst, conns,
                   mpc, client, workerVars>>

DrainEnds ==
    /\ mpc = "drain"
    /\ polls >= DrainPolls \/ \A w \in Workers : wsock[w] = None
    /\ mpc' = "shut"
    /\ UNCHANGED <<stop, drainOver, stopping, queue, waiting, fdst, conns,
                   client, polls, workerVars>>

(* shutdown(SHUT_RDWR) on every connection a worker still serves.          *)
ShutdownSockets ==
    /\ mpc = "shut"
    /\ fdst' = [f \in FDs |-> IF \E w \in Workers : wsock[w] = f
                              THEN "shut" ELSE fdst[f]]
    /\ mpc' = "join"
    /\ UNCHANGED <<stop, drainOver, stopping, queue, waiting, conns, client,
                   polls, workerVars>>

(* Variant: server_run returns without waiting for the threads.            *)
JoinNobody ==
    /\ mpc = "join"
    /\ mpc' = "done"
    /\ UNCHANGED <<stop, drainOver, stopping, queue, waiting, fdst, conns,
                   client, polls, workerVars>>

(* pthread_join of every worker that was started.                          *)
JoinWorkers ==
    /\ mpc = "join"
    /\ \A w \in Workers : wpc[w] \in {"unborn", "exited"}
    /\ mpc' = "done"
    /\ UNCHANGED <<stop, drainOver, stopping, queue, waiting, fdst, conns,
                   client, polls, workerVars>>

-----------------------------------------------------------------------------
(* A worker: taking a connection.                                          *)

(* queue_pop blocks on the condition variable.                             *)
QueueWait(w) ==
    /\ wpc[w] = "pop" /\ w \notin waiting
    /\ queue = <<>> /\ ~stopping
    /\ waiting' = waiting \cup {w}
    /\ UNCHANGED <<stop, drainOver, stopping, queue, fdst, conns, mainVars,
                   workerVars>>

(* pthread_cond_wait may return for no reason: the loop tests again.       *)
SpuriousWake(w) ==
    /\ w \in waiting
    /\ waiting' = waiting \ {w}
    /\ UNCHANGED <<stop, drainOver, stopping, queue, fdst, conns, mainVars,
                   workerVars>>

QueueTake(w) ==
    /\ wpc[w] = "pop" /\ w \notin waiting
    /\ queue # <<>>
    /\ wfd' = [wfd EXCEPT ![w] = Head(queue).fd]
    /\ wip' = [wip EXCEPT ![w] = Head(queue).ip]
    /\ queue' = Tail(queue)
    /\ wpc' = [wpc EXCEPT ![w] = "popped"]
    /\ UNCHANGED <<stop, drainOver, stopping, waiting, fdst, conns, mainVars,
                   wsock, served, keep, status>>

WorkerExit(w) ==
    /\ wpc[w] = "pop" /\ w \notin waiting
    /\ queue = <<>> /\ stopping
    /\ wpc' = [wpc EXCEPT ![w] = "exited"]
    /\ UNCHANGED <<stop, drainOver, stopping, queue, waiting, fdst, conns,
                   mainVars, wfd, wip, wsock, served, keep, status>>

(* worker_main publishes the connection in w->socket, under the lock, and  *)
(* enters handle_connection.                                               *)
PublishSocket(w) ==
    /\ wpc[w] = "popped"
    /\ wsock' = [wsock EXCEPT ![w] = wfd[w]]
    /\ served' = [served EXCEPT ![w] = 0]
    /\ wpc' = [wpc EXCEPT ![w] = "top"]
    /\ UNCHANGED <<stop, drainOver, stopping, queue, waiting, fdst, conns,
                   mainVars, wfd, wip, keep, status>>

-----------------------------------------------------------------------------
(* A worker: handle_connection.                                            *)

(* The head of the keep-alive loop.                                        *)
CheckDrain(w) ==
    /\ wpc[w] = "top"
    /\ wpc' = [wpc EXCEPT ![w] = IF drainOver \/ served[w] >= KeepaliveMax
                                 THEN "close" ELSE "read"]
    /\ UNCHANGED <<stop, drainOver, stopping, queue, waiting, fdst, conns,
                   mainVars, wfd, wip, wsock, served, keep, status>>

(* read_request gave no request (end of stream, error, the five second     *)
(* deadline, too large, unsupported expectation), or the request is        *)
(* refused before it is served (rate limit, bad url).                      *)
ReadFails(w) ==
    /\ wpc[w] = "read"
    /\ wpc' = [wpc EXCEPT ![w] = "close"]
    /\ UNCHANGED <<stop, drainOver, stopping, queue, waiting, fdst, conns,
                   mainVars, wfd, wip, wsock, served, keep, status>>

(* A request is in; keep_alive_wanted decides whether the connection stays.*)
(* Bytes received before a shutdown can still be read after it.            *)
ReadRequest(w) ==
    /\ wpc[w] = "read"
    /\ \E wanted \in BOOLEAN :
          keep' = [keep EXCEPT ![w] =
                      wanted /\ ~stop /\ served[w] + 1 # KeepaliveMax]
    /\ wpc' = [wpc EXCEPT ![w] = "serve"]
    /\ UNCHANGED <<stop, drainOver, stopping, queue, waiting, fdst, conns,
                   mainVars, wfd, wip, wsock, served, status>>

(* serve_health for /health/ready: up when g_stop is 0 and the database    *)
(* answers.                                                                *)
ServeReady(w) ==
    /\ wpc[w] = "serve"
    /\ \E dbReady \in BOOLEAN :
          status' = [status EXCEPT ![w] = IF ~stop /\ dbReady THEN 200 ELSE 503]
    /\ wpc' = [wpc EXCEPT ![w] = "sent"]
    /\ UNCHANGED <<stop, drainOver, stopping, queue, waiting, fdst, conns,
                   mainVars, wfd, wip, wsock, served, keep>>

(* serve_request for any other path.                                       *)
ServeRoute(w) ==
    /\ wpc[w] = "serve"
    /\ wpc' = [wpc EXCEPT ![w] = "sent"]
    /\ UNCHANGED <<stop, drainOver, stopping, queue, waiting, fdst, conns,
                   mainVars, wfd, wip, wsock, served, keep, status>>

(* The response is sent, or could not be; finish_request; the connection   *)
(* is kept when it was meant to be, the send succeeded and no shutdown has *)
(* begun.  Sending on a shut socket fails.                                 *)
FinishRequest(w) ==
    /\ wpc[w] = "sent"
    /\ \E sendOk \in BOOLEAN :
          /\ sendOk => fdst[wfd[w]] # "shut"
          /\ IF sendOk /\ keep[w] /\ ~drainOver
             THEN /\ wpc' = [wpc EXCEPT ![w] = "top"]
                  /\ served' = [served EXCEPT ![w] = @ + 1]
             ELSE /\ wpc' = [wpc EXCEPT ![w] = "close"]
                  /\ UNCHANGED served
    /\ keep' = [keep EXCEPT ![w] = FALSE]
    /\ status' = [status EXCEPT ![w] = 0]
    /\ UNCHANGED <<stop, drainOver, stopping, queue, waiting, fdst, conns,
                   mainVars, wfd, wip, wsock>>

(* Variant: the closed descriptor stays visible to stop_workers.           *)
CloseStillPublished(w) ==
    /\ wpc[w] = "close"
    /\ fdst' = [fdst EXCEPT ![wfd[w]] = "free"]
    /\ wfd' = [wfd EXCEPT ![w] = None]
    /\ served' = [served EXCEPT ![w] = 0]
    /\ wpc' = [wpc EXCEPT ![w] = "release"]
    /\ UNCHANGED <<stop, drainOver, stopping, queue, waiting, conns, mainVars,
                   wip, wsock, keep, status>>

(* worker_main closes the descriptor and unpublishes it in one section.    *)
CloseSocket(w) ==
    /\ wpc[w] = "close"
    /\ fdst' = [fdst EXCEPT ![wfd[w]] = "free"]
    /\ wsock' = [wsock EXCEPT ![w] = None]
    /\ wfd' = [wfd EXCEPT ![w] = None]
    /\ served' = [served EXCEPT ![w] = 0]
    /\ wpc' = [wpc EXCEPT ![w] = "release"]
    /\ UNCHANGED <<stop, drainOver, stopping, queue, waiting, conns, mainVars,
                   wip, keep, status>>

(* client_limit(w->ip, -1), then the arena and the buffer are recycled.    *)
ReleaseClient(w) ==
    /\ wpc[w] = "release"
    /\ conns' = Uncount(wip[w])
    /\ wip' = [wip EXCEPT ![w] = None]
    /\ wpc' = [wpc EXCEPT ![w] = "pop"]
    /\ UNCHANGED <<stop, drainOver, stopping, queue, waiting, fdst, mainVars,
                   wfd, wsock, served, keep, status>>

-----------------------------------------------------------------------------
AcceptStep ==
    \/ \E w \in Workers : StartWorker(w)
    \/ StartFails \/ Listen
    \/ \E f \in FDs, a \in IPs : AcceptOne(f, a)
    \/ AdmitClient \/ PushClient \/ UnlimitClient \/ RejectBusy
    \/ StopSeen \/ AcceptFails

StopStep ==
    \/ SetDrainOver \/ ClearQueue \/ DrainPoll \/ DrainEnds
    \/ ShutdownSockets \/ JoinWorkers

WorkerStep(w) ==
    \/ QueueWait(w) \/ QueueTake(w) \/ WorkerExit(w) \/ PublishSocket(w)
    \/ CheckDrain(w) \/ ReadFails(w) \/ ReadRequest(w)
    \/ ServeReady(w) \/ ServeRoute(w) \/ FinishRequest(w)
    \/ CloseSocket(w) \/ ReleaseClient(w)

(* server_run has returned.                                                *)
Finished == mpc = "done" /\ UNCHANGED vars

Next ==
    \/ Signal
    \/ AcceptStep
    \/ StopStep
    \/ \E w \in Workers : WorkerStep(w) \/ SpuriousWake(w)
    \/ Finished

Spec == Init /\ [][Next]_vars

-----------------------------------------------------------------------------
(* Fairness.  Every thread that can run does run.  A read ends because     *)
(* recv has a deadline of SERVER_TIMEOUT_S, a handler is assumed to return,*)
(* poll returns every 100 ms.  No client has to connect, no signal has to  *)
(* arrive and nothing has to fail.                                         *)
MainProgress ==
    \/ Listen \/ AdmitClient \/ PushClient \/ UnlimitClient \/ RejectBusy
    \/ StopSeen \/ StopStep
    \/ \E w \in Workers : StartWorker(w)

FairSpec ==
    /\ Spec
    /\ WF_vars(MainProgress)
    /\ \A w \in Workers : WF_vars(WorkerStep(w))

-----------------------------------------------------------------------------
(* Properties.                                                             *)

(* Every open descriptor has exactly one owner: the main thread while it   *)
(* admits the connection, one place in the queue, or one worker until it   *)
(* closes it.  So close is called once, no two workers read from one       *)
(* client, and neither a worker nor stop_workers touches a descriptor that *)
(* is closed and perhaps somebody else's by now.                           *)
OwnersOpen ==
    /\ Admitting => fdst[client.fd] = "open"
    /\ \A i \in DOMAIN queue : fdst[queue[i].fd] = "open"
    /\ \A w \in Workers : Holding(w) => wfd[w] # None /\ fdst[wfd[w]] # "free"

OwnersDistinct ==
    /\ \A i, j \in DOMAIN queue : i # j => queue[i].fd # queue[j].fd
    /\ \A w \in Workers : \A i \in DOMAIN queue :
          Holding(w) => wfd[w] # queue[i].fd
    /\ \A v, w \in Workers : Holding(v) /\ Holding(w) /\ v # w => wfd[v] # wfd[w]
    /\ Admitting => /\ \A i \in DOMAIN queue : queue[i].fd # client.fd
                    /\ \A w \in Workers : Holding(w) => wfd[w] # client.fd

UniqueOwner == OwnersOpen /\ OwnersDistinct

(* What stop_workers sees in w->socket is the connection the worker holds. *)
PublishedIsHeld ==
    \A w \in Workers : wsock[w] = IF Published(w) THEN wfd[w] ELSE None

(* No descriptor is lost: one that is not free has an owner.               *)
NoDescriptorLeak ==
    \A f \in FDs : fdst[f] # "free" =>
        \/ Admitting /\ client.fd = f
        \/ \E i \in DOMAIN queue : queue[i].fd = f
        \/ \E w \in Workers : Holding(w) /\ wfd[w] = f

(* The connections of address a that have been counted and not uncounted.  *)
Counted(w) == Holding(w) \/ wpc[w] = "release"
CountedWorkers(a) == {w \in Workers : Counted(w) /\ wip[w] = a}
CountedMain(a) ==
    IF mpc \in {"push", "unlimit"} /\ client.ip = a THEN 1 ELSE 0

(* client_limit's counter is exact on every path (served, refused because  *)
(* the queue is full, dropped at shutdown), so its test of ">0" never      *)
(* hides a double release, and no address is ever over its limit.          *)
CountsExact ==
    \A a \in IPs :
        /\ conns[a] = Cardinality(CountedWorkers(a))
                        + Cardinality(CountedQueue(a)) + CountedMain(a)
        /\ conns[a] <= ConnLimit

(* Once stop_workers has shut the published sockets down, a worker that    *)
(* still reads, serves or sends does so on a socket that is shut: none can *)
(* sit out the five second deadline on a live client.  A worker that took  *)
(* a connection before the queue was cleared and published it only after   *)
(* the scan must be turned away by g_drain_over.                           *)
ShutdownReachesAll ==
    mpc \in {"join", "done"} =>
        \A w \in Workers :
            wpc[w] \in {"read", "serve", "sent"} => fdst[wfd[w]] = "shut"

(* When server_run returns, every descriptor is closed, every counter is   *)
(* zero and no thread is left behind.                                      *)
CleanExit ==
    mpc = "done" =>
        /\ queue = <<>>
        /\ \A f \in FDs : fdst[f] = "free"
        /\ \A a \in IPs : conns[a] = 0
        /\ \A w \in Workers : wpc[w] \in {"unborn", "exited"}

(* The order of the shutdown, which the three properties above rest on:    *)
(* nothing is accepted before the workers run, g_drain_over is set before  *)
(* the queue is cleared unless no connection was ever accepted, and the    *)
(* cleared queue stays empty.                                              *)
Idle == queue = <<>> /\ \A w \in Workers : ~Holding(w)

ShutdownOrder ==
    /\ drainOver => mpc \in {"clear", "drain", "shut", "join", "done"}
    /\ mpc \in {"clear", "drain", "shut", "join", "done"} => drainOver \/ Idle
    /\ mpc = "start" => Idle
    /\ mpc \in {"drain", "shut", "join", "done"} => queue = <<>>
    /\ mpc = "done" => \A w \in Workers : wpc[w] \in {"unborn", "exited"}

(* README.md:317: /health/ready is 503 when the server is shutting down.   *)
ReadyOnlyWhileRunning ==
    [][\A w \in Workers :
          status[w] # 200 /\ status'[w] = 200 => ~stop /\ ~drainOver]_vars

(* A signal, or a failed accept, ends the server: no wake-up is lost, no   *)
(* worker stays on a connection, the drain loop ends.                      *)
StopCompletes == (stop \/ drainOver) ~> mpc = "done"

(* Every accepted connection is closed: a queued one is taken although the *)
(* workers sleep, and a keep-alive client cannot hold a worker for ever.   *)
ConnectionsEnd == \A f \in FDs : fdst[f] # "free" ~> fdst[f] = "free"
=============================================================================
