------------------------------ MODULE TcpServer ------------------------------
(***************************************************************************)
(* The TCP server (source/tcp/tcp_server.c): tcp_task waits on an epoll for*)
(* the listening socket and its clients, and the HTTP thread replaces the  *)
(* listening socket and the limit of clients (apply_net in                 *)
(* source/http/http_api_config.c).  client_mutex guards the clients; the   *)
(* listening descriptor and the limit are read without it, so that tcp_task*)
(* may call accept on a socket that is still being prepared.               *)
(*                                                                         *)
(* Abstracted: what clients send, which the server reads and throws away.  *)
(* The transmit queue is left out: nothing calls tcp_tx_packet, so there is*)
(* never anything to flush.                                                *)
(***************************************************************************)
EXTENDS Naturals, FiniteSets

CONSTANTS
  Conns,        \* connections that peers may make
  Ports,        \* ports an administrator asks for
  MaxClients,   \* TCP_MAX_CLIENTS
  NFds,         \* bound: descriptors
  MaxRelistens  \* bound: changes of the port

ASSUME TcpAssumption ==
  /\ MaxClients \in Nat \ {0} /\ NFds \in Nat \ {0} /\ MaxRelistens \in Nat
  /\ {"free", "socket", "blocking", "listen"} \cap Conns = {}

Fds == 1 .. NFds
Slots == 0 .. MaxClients - 1
NoFd == 0    \* -1 in the code

VARIABLES
  tcp,    \* tcp_ctx_t
  kern,   \* each descriptor: "free", a "socket", listening but "blocking", "listen",
          \* or a connection
  epoll,  \* registrations <<descriptor, tag>>; 0 is the listener's tag, slot + 1 a client's
  mutex,  \* client_mutex is free
  task,   \* tcp_task: the events it has yet to handle, the descriptor it accepted
  http,   \* the HTTP thread in apply_net, the port it was asked for, the new socket
  peer,   \* each connection as its peer sees it
  deaf,   \* history: the listener could not be registered
  moves   \* changes of the port so far

vars == <<tcp, kern, epoll, mutex, task, http, peer, deaf, moves>>

NoChange == [pc |-> "idle", port |-> NoFd, fd |-> NoFd]

\* tcp_task registers the first listener and does not look whether it could.
Init ==
  /\ \E p \in Ports :
       tcp = [listen |-> 1, port |-> p, max |-> MaxClients,
              slot |-> [i \in Slots |-> NoFd], count |-> 0]
  /\ kern = [f \in Fds |-> IF f = 1 THEN "listen" ELSE "free"]
  /\ deaf \in BOOLEAN
  /\ epoll = IF deaf THEN {} ELSE {<<1, 0>>}
  /\ mutex = TRUE
  /\ task = [pc |-> "wait", batch |-> {}, hand |-> NoFd]
  /\ http = NoChange
  /\ peer = [c \in Conns |-> "new"]
  /\ moves = 0

-----------------------------------------------------------------------------
(* The peers and the kernel *)

\* The other parts of the program use descriptors, too: any free one may be next.
Unused(f) == f \in Fds /\ kern[f] = "free"
Listening(f) == f \in Fds /\ kern[f] = "listen"
Blocking(f) == f \in Fds /\ kern[f] = "blocking"
Queued == {c \in Conns : peer[c] = "queued"}

\* A listening socket that was closed under an accept lives until accept returns.
Connect(c) ==
  /\ peer[c] = "new"
  /\ \/ /\ \E f \in Fds : Listening(f) \/ Blocking(f)
        /\ peer' = [peer EXCEPT ![c] = "queued"]
     \/ /\ task.pc = "orphaned"
        /\ peer' = [peer EXCEPT ![c] = "old"]
  /\ UNCHANGED <<tcp, kern, epoll, mutex, task, http, moves>>

HangUp(c) ==
  /\ peer[c] = "open"
  /\ peer' = [peer EXCEPT ![c] = "closing"]
  /\ UNCHANGED <<tcp, kern, epoll, mutex, task, http, moves>>

\* The events that epoll_wait may report.
Ready(r) ==
  \/ Listening(r[1]) /\ Queued # {}
  \/ kern[r[1]] \in Conns /\ peer[kern[r[1]]] = "closing"

Closed(f) == epoll' = {r \in epoll : r[1] # f} /\ kern' = [kern EXCEPT ![f] = "free"]

\* A listening socket is closed: what it had queued is lost, unless accept has hold
\* of the socket.
ListenerClosed(f) ==
  /\ Closed(f)
  /\ LET held == task.pc = "blocked" IN
       /\ peer' = [c \in Conns |-> IF peer[c] # "queued" THEN peer[c]
                                   ELSE IF held THEN "old" ELSE "gone"]
       /\ task' = IF held THEN [task EXCEPT !.pc = "orphaned"] ELSE task

-----------------------------------------------------------------------------
(* tcp_task *)

Wait ==
  /\ task.pc = "wait"
  /\ \E b \in SUBSET {r \in epoll : Ready(r)} :
       b # {} /\ task' = [task EXCEPT !.pc = "next", !.batch = b]
  /\ UNCHANGED <<tcp, kern, epoll, mutex, http, peer, moves>>

BatchDone ==
  /\ task.pc = "next" /\ task.batch = {}
  /\ task' = [task EXCEPT !.pc = "wait"]
  /\ UNCHANGED <<tcp, kern, epoll, mutex, http, peer, moves>>

ListenerEvent ==
  /\ task.pc = "next"
  /\ \E r \in task.batch : r[2] = 0 /\ task' = [task EXCEPT !.pc = "accept", !.batch = @ \ {r}]
  /\ UNCHANGED <<tcp, kern, epoll, mutex, http, peer, moves>>

\* accept on whatever listen_fd is by now; one that was blocked goes on.
Accept ==
  /\ task.pc \in {"accept", "blocked"}
  /\ Listening(tcp.listen) \/ Blocking(tcp.listen)
  /\ \E c \in Queued, f \in Fds :
       /\ Unused(f)
       /\ kern' = [kern EXCEPT ![f] = c]
       /\ peer' = [peer EXCEPT ![c] = "open"]
       /\ task' = [task EXCEPT !.pc = "add", !.hand = f]
  /\ UNCHANGED <<tcp, epoll, mutex, http, moves>>

\* The socket is not yet non-blocking, and nobody has connected.
AcceptBlocks ==
  /\ task.pc = "accept" /\ Blocking(tcp.listen) /\ Queued = {}
  /\ task' = [task EXCEPT !.pc = "blocked"]
  /\ UNCHANGED <<tcp, kern, epoll, mutex, http, peer, moves>>

\* ... and when somebody has, the socket was closed meanwhile: it goes with the call.
AcceptOrphan ==
  /\ task.pc = "orphaned"
  /\ \E c \in Conns, f \in Fds :
       /\ peer[c] = "old" /\ Unused(f)
       /\ kern' = [kern EXCEPT ![f] = c]
       /\ peer' = [d \in Conns |-> IF d = c THEN "open"
                                   ELSE IF peer[d] = "old" THEN "gone" ELSE peer[d]]
       /\ task' = [task EXCEPT !.pc = "add", !.hand = f]
  /\ UNCHANGED <<tcp, epoll, mutex, http, moves>>

AcceptFails ==
  /\ task.pc = "accept"
  /\ \/ ~Listening(tcp.listen) /\ ~Blocking(tcp.listen)
     \/ Listening(tcp.listen) /\ Queued = {}
     \/ \A f \in Fds : ~Unused(f)
  /\ task' = [task EXCEPT !.pc = "next"]
  /\ UNCHANGED <<tcp, kern, epoll, mutex, http, peer, moves>>

\* The slot of a new client: the first free one below the limit.
Vacant(i) == i < tcp.max /\ tcp.slot[i] = NoFd

\* Mutant: a slot is taken whether it is free or not.
AnySlot(i) == i = tcp.count % tcp.max

FirstVacant(i) == Vacant(i) /\ \A j \in Slots : j < i => ~Vacant(j)

\* Mutant: the client is not registered.
ClientAddUnheard ==
  /\ task.pc = "add" /\ mutex
  /\ \E i \in Slots :
       /\ FirstVacant(i)
       /\ tcp' = [tcp EXCEPT !.slot[i] = task.hand,
                             !.count = IF i >= @ THEN i + 1 ELSE @]
  /\ task' = [task EXCEPT !.pc = "accept", !.hand = NoFd]
  /\ UNCHANGED <<kern, epoll, mutex, http, peer, moves>>

ClientAdd ==
  /\ task.pc = "add" /\ mutex
  /\ \E i \in Slots :
       /\ FirstVacant(i)
       /\ tcp' = [tcp EXCEPT !.slot[i] = task.hand,
                             !.count = IF i >= @ THEN i + 1 ELSE @]
       /\ epoll' = epoll \cup {<<task.hand, i + 1>>}
  /\ task' = [task EXCEPT !.pc = "accept", !.hand = NoFd]
  /\ UNCHANGED <<kern, mutex, http, peer, moves>>

\* Too many clients.
ClientRejected ==
  /\ task.pc = "add" /\ mutex /\ \A i \in Slots : ~Vacant(i)
  /\ Closed(task.hand)
  /\ peer' = [peer EXCEPT ![kern[task.hand]] = "gone"]
  /\ task' = [task EXCEPT !.pc = "accept", !.hand = NoFd]
  /\ UNCHANGED <<tcp, mutex, http, moves>>

\* handle_tcp_input finds that the peer has closed; tcp_client_del.
ClientEvent ==
  /\ task.pc = "next" /\ mutex
  /\ \E r \in task.batch :
       LET i == r[2] - 1  fd == tcp.slot[i] IN
       /\ r[2] # 0 /\ fd # NoFd /\ peer[kern[fd]] = "closing"
       /\ Closed(fd)
       /\ tcp' = [tcp EXCEPT !.slot[i] = NoFd]
       /\ peer' = [peer EXCEPT ![kern[fd]] = "gone"]
       /\ task' = [task EXCEPT !.batch = @ \ {r}]
  /\ UNCHANGED <<mutex, http, moves>>

-----------------------------------------------------------------------------
(* apply_net, in the HTTP thread *)

Unlisten(p) ==
  /\ http.pc = "idle" /\ p # tcp.port /\ mutex /\ moves < MaxRelistens
  /\ mutex' = FALSE
  /\ http' = [pc |-> "socket", port |-> p, fd |-> NoFd]
  /\ moves' = moves + 1
  /\ IF tcp.listen = NoFd
     THEN UNCHANGED <<kern, epoll, peer, task>>
     ELSE ListenerClosed(tcp.listen)
  /\ UNCHANGED tcp

\* tcp_listen, which has listen_fd as it was: a socket is bound, ...
NewSocket ==
  /\ http.pc = "socket"
  /\ \E f \in Fds :
       /\ Unused(f)
       /\ kern' = [kern EXCEPT ![f] = "socket"]
       /\ http' = [http EXCEPT !.pc = "listen", !.fd = f]
  /\ UNCHANGED <<tcp, epoll, mutex, task, peer, moves>>

\* ... it listens, ...
StartListening ==
  /\ http.pc = "listen"
  /\ kern' = [kern EXCEPT ![http.fd] = "blocking"]
  /\ http' = [http EXCEPT !.pc = "nonblock"]
  /\ UNCHANGED <<tcp, epoll, mutex, task, peer, moves>>

\* ... and does not block.
SetNonblock ==
  /\ http.pc = "nonblock"
  /\ kern' = [kern EXCEPT ![http.fd] = "listen"]
  /\ http' = [http EXCEPT !.pc = "publish"]
  /\ UNCHANGED <<tcp, epoll, mutex, task, peer, moves>>

\* Mutant: the new listening socket is not registered.
ListenUnheard ==
  /\ http.pc = "publish"
  /\ tcp' = [tcp EXCEPT !.listen = http.fd, !.port = http.port]
  /\ deaf' = FALSE
  /\ mutex' = TRUE /\ http' = NoChange
  /\ UNCHANGED <<kern, epoll, task, peer, moves>>

\* The socket is published and registered; when that fails it is only logged.
Listen ==
  /\ http.pc = "publish"
  /\ tcp' = [tcp EXCEPT !.listen = http.fd, !.port = http.port]
  /\ deaf' \in BOOLEAN
  /\ epoll' = IF deaf' THEN epoll ELSE epoll \cup {<<http.fd, 0>>}
  /\ mutex' = TRUE /\ http' = NoChange
  /\ UNCHANGED <<kern, task, peer, moves>>

\* A step of tcp_listen fails.  The port stays: it is no change to ask for it again.
ListenFails ==
  /\ http.pc \in {"socket", "listen", "nonblock"}
  /\ tcp' = [tcp EXCEPT !.listen = NoFd]
  /\ mutex' = TRUE /\ http' = NoChange
  /\ IF http.fd = NoFd THEN UNCHANGED <<kern, epoll, peer, task>> ELSE ListenerClosed(http.fd)
  /\ UNCHANGED moves

\* max_clients is written without the mutex.
Limit(m) ==
  /\ http.pc = "idle" /\ tcp.max # m /\ m \in 1 .. MaxClients
  /\ tcp' = [tcp EXCEPT !.max = m]
  /\ UNCHANGED <<kern, epoll, mutex, task, http, peer, moves>>

-----------------------------------------------------------------------------
Task ==
  \/ Wait \/ BatchDone \/ ListenerEvent \/ Accept \/ AcceptBlocks \/ AcceptOrphan
  \/ AcceptFails \/ ClientAdd \/ ClientRejected \/ ClientEvent

\* The steps of apply_net that have begun.
Http == NewSocket \/ StartListening \/ SetNonblock \/ ListenFails

Next ==
  \/ /\ UNCHANGED deaf
     /\ \/ Task \/ Http
        \/ \E c \in Conns : Connect(c) \/ HangUp(c)
        \/ \E p \in Ports : Unlisten(p)
        \/ \E m \in 1 .. MaxClients : Limit(m)
  \/ Listen

Spec == Init /\ [][Next]_vars

\* tcp_task runs, unless it is blocked, and a POST of the configuration ends.
FairSpec == Spec /\ WF_vars(Task /\ UNCHANGED deaf) /\ WF_vars((Http /\ UNCHANGED deaf) \/ Listen)

-----------------------------------------------------------------------------
(* Properties *)

InSlot(f) == {i \in Slots : tcp.slot[i] = f}

\* A descriptor that accept returned is in exactly one slot, registered with that
\* slot's tag, or still in tcp_task's hand: none leaks, none is shared, none is
\* handled as another client's; and an event of a batch concerns the client it
\* was reported for (tcp_client_add, tcp_client_del, tcp_task).
SlotsOwnClients ==
  /\ \A f \in Fds :
       IF kern[f] \in Conns /\ f # task.hand
       THEN \E i \in Slots : InSlot(f) = {i} /\ i < tcp.count
                             /\ {r \in epoll : r[1] = f} = {<<f, i + 1>>}
       ELSE InSlot(f) = {}
  /\ \A r \in task.batch : r[2] # 0 => tcp.slot[r[2] - 1] = r[1]

\* While the HTTP thread is not at it, the server listens and tcp_task hears of
\* it.  There are two exceptions: the last change of the port failed, then the
\* service is down, and asking for the port that the configuration shows changes
\* nothing; or epoll_ctl failed, which is only logged (apply_net) or not even that
\* (tcp_task).
ListenerHeard ==
  http.pc = "idle" =>
    IF tcp.listen = NoFd THEN moves > 0 /\ \A f \in Fds : ~Listening(f)
    ELSE /\ {f \in Fds : Listening(f)} = {tcp.listen}
         /\ deaf \/ <<tcp.listen, 0>> \in epoll

Blocked == task.pc \in {"blocked", "orphaned"}

\* If tcp_task does not stay blocked in accept, a connection the kernel has queued is
\* accepted, rejected, or lost with the listening socket, or nobody hears of that
\* socket; and a peer that hangs up is noticed (tcp_task).
Served ==
  []<>~Blocked =>
    \A c \in Conns :
      /\ peer[c] = "queued" ~> peer[c] # "queued" \/ deaf
      /\ peer[c] = "closing" ~> peer[c] # "closing"
=============================================================================
