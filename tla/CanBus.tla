------------------------------- MODULE CanBus -------------------------------
(***************************************************************************)
(* The CAN interfaces (source/can/can_socket.c), with the part of the HTTP *)
(* thread that sends frames and reconfigures interfaces                    *)
(* (source/http/http_api_can.c, source/http/http_api_config.c).            *)
(*                                                                         *)
(* can_recv_task reads a socket when its epoll says so and opens it again  *)
(* after a read error; can_send_task is woken by an eventfd and drains the *)
(* transmit queues; the HTTP thread pushes frames without can_mutex, and   *)
(* replaces sockets with it.  Descriptors are numbers that the kernel gives*)
(* again after a close.                                                    *)
(*                                                                         *)
(* Abstracted: a frame is its number, in the order of acceptance; what its *)
(* signals are decoded to is in Dbc.  Bit rates, filters and the state of  *)
(* the link are outcomes of the calls.                                     *)
(***************************************************************************)
EXTENDS CanQueue, Integers, Sequences, FiniteSets

CONSTANTS
  NIfaces,    \* CAN_MAX_IFACES
  NInit,      \* interfaces of the configuration file
  Fds,        \* descriptors 1, 2, ... of the process for its sockets
  MaxFrames,  \* bound: frames sent by clients
  MaxConfigs, \* bound: POSTs of the CAN configuration
  MaxErrors   \* bound: read errors of sockets

ASSUME CanAssumption ==
  /\ NIfaces \in Nat \ {0} /\ NInit \in 0 .. NIfaces
  /\ Fds \subseteq Nat \ {0} /\ 1 .. NInit \subseteq Fds
  /\ {MaxFrames, MaxConfigs, MaxErrors} \subseteq Nat

Ifaces == 0 .. NIfaces - 1
Frames == 1 .. MaxFrames
Closed == 0    \* sock_fd = -1
Free == NIfaces

VARIABLES
  can,     \* can_ctx_t: count, sock (sock_fd), txq
  kern,    \* the interface whose socket a descriptor is, or Free
  epoll,   \* recv, send: registrations <<descriptor, interface>>; efd: tx_efd is readable
  mutex,   \* the holder of can_mutex
  http,    \* the HTTP thread
  send,    \* can_send_task
  hist     \* what happened, for the properties

vars == <<can, kern, epoll, mutex, http, send, hist>>

Known == 0 .. can.count - 1

\* can_init skips an interface it cannot configure or open.
Init ==
  /\ \E up \in SUBSET (0 .. NInit - 1) :
     LET fd == [i \in Ifaces |-> IF i \in up THEN Cardinality({j \in up : j <= i}) ELSE Closed]
     IN
       /\ can = [count |-> NInit, sock |-> fd,
                 txq |-> [i \in Ifaces |-> EmptyQueue]]
       /\ kern = [f \in Fds |-> IF \E i \in up : fd[i] = f
                                THEN CHOOSE i \in up : fd[i] = f ELSE Free]
       /\ epoll = [recv |-> {<<fd[i], i>> : i \in up}, send |-> {}, efd |-> FALSE]
  /\ mutex = "none"
  /\ http = [pc |-> "idle", i |-> 0, frame |-> NoFrame]
  /\ send = [pc |-> "wait", i |-> 0, limit |-> 0, frame |-> NoFrame]
  /\ hist = [of |-> <<>>, sent |-> <<>>, back |-> {}, lost |-> {}, configs |-> 0,
             errors |-> 0, failed |-> FALSE, deaf |-> {}, swapped |-> {}]

-----------------------------------------------------------------------------
(* Descriptors *)

Socket(f) == f \in Fds /\ kern[f] \in Ifaces

\* open returns the lowest descriptor that is free.
Lowest(k, f) == k[f] = Free /\ \A g \in Fds : g < f => k[g] # Free

\* close: the kernel forgets the registrations of the descriptor.
Without(regs, f) == {r \in regs : r[1] # f}

\* can_epoll_add_recv, can_epoll_update_tx: a closed descriptor is refused.
WithFd(regs, k, f, i) ==
  IF f \in Fds /\ k[f] # Free THEN Without(regs, f) \cup {<<f, i>>} ELSE regs

\* Mutant: the last frame is not watched for.
UpdateTxForMany(regs, k, f, q, i) ==
  IF q.used > 1 THEN WithFd(regs, k, f, i) ELSE Without(regs, f)

UpdateTx(regs, k, f, q, i) ==
  IF q.used > 0 THEN WithFd(regs, k, f, i) ELSE Without(regs, f)

-----------------------------------------------------------------------------
(* The HTTP thread: POST /api/can/send *)

NextFrame == Len(hist.of) + 1

TxFrame(i) ==
  /\ http.pc = "idle" /\ i \in Known /\ NextFrame \in Frames
  /\ ~Refuses(can.txq[i])
  /\ can' = [can EXCEPT !.txq[i] = Claimed(@, "http")]
  /\ http' = [pc |-> "store", i |-> i, frame |-> NextFrame]
  /\ hist' = [hist EXCEPT !.of = Append(@, i)]
  /\ UNCHANGED <<kern, epoll, mutex, send>>

TxStore ==
  /\ http.pc = "store"
  /\ can' = [can EXCEPT !.txq[http.i] = Stored(@, http.frame)]
  /\ http' = [http EXCEPT !.pc = "signal", !.frame = NoFrame]
  /\ UNCHANGED <<kern, epoll, mutex, send, hist>>

\* Mutant: the sender is not told.
TxSilent ==
  /\ http.pc = "signal"
  /\ http' = [pc |-> "idle", i |-> 0, frame |-> NoFrame]
  /\ UNCHANGED <<can, kern, epoll, mutex, send, hist>>

TxSignal ==
  /\ http.pc = "signal"
  /\ epoll' = [epoll EXCEPT !.efd = TRUE]
  /\ http' = [pc |-> "idle", i |-> 0, frame |-> NoFrame]
  /\ UNCHANGED <<can, kern, mutex, send, hist>>

(* The HTTP thread: POST /api/config; it applies all interfaces in turn. *)

ConfigBegin(new) ==
  /\ http.pc = "idle" /\ mutex = "none" /\ hist.configs < MaxConfigs
  /\ new \in 0 .. NIfaces - can.count
  /\ can' = [can EXCEPT !.count = @ + new]
  /\ mutex' = "http"
  /\ http' = [http EXCEPT !.pc = "apply", !.i = 0]
  /\ hist' = [hist EXCEPT !.configs = @ + 1]
  /\ UNCHANGED <<kern, epoll, send>>

\* The socket is put back with a null event, which epoll_ctl refuses.
ConfigureFails ==
  /\ http.pc = "apply" /\ http.i \in Known
  /\ LET old == can.sock[http.i] IN
       /\ epoll' = [epoll EXCEPT !.recv = Without(@, old)]
       /\ hist' = [hist EXCEPT !.deaf = IF old # Closed THEN @ \cup {http.i} ELSE @]
  /\ http' = [http EXCEPT !.i = @ + 1]
  /\ UNCHANGED <<can, kern, mutex, send>>

OpenFails ==
  /\ http.pc = "apply" /\ http.i \in Known
  /\ LET old == can.sock[http.i] IN
       epoll' = [epoll EXCEPT !.recv = WithFd(@, kern, old, http.i)]
  /\ hist' = [hist EXCEPT !.deaf = @ \ {http.i}]
  /\ http' = [http EXCEPT !.i = @ + 1]
  /\ UNCHANGED <<can, kern, mutex, send>>

\* The old number is closed after the new socket is open, whoever has it now.
Applied ==
  /\ http.pc = "apply" /\ http.i \in Known
  /\ \E new \in Fds :
       LET i   == http.i
           old == can.sock[i]
           k   == [f \in Fds |-> IF f = old THEN Free ELSE IF f = new THEN i ELSE kern[f]]
       IN /\ Lowest(kern, new)
          /\ kern' = k
          /\ can' = [can EXCEPT !.sock[i] = new]
          /\ epoll' = [epoll EXCEPT !.recv = WithFd(Without(@, old), k, new, i),
                                    !.send = Without(@, old)]
          /\ hist' = [hist EXCEPT !.deaf = @ \ {i}, !.swapped = @ \cup {i}]
  /\ http' = [http EXCEPT !.i = @ + 1]
  /\ UNCHANGED <<mutex, send>>

ConfigEnd ==
  /\ http.pc = "apply" /\ http.i \notin Known
  /\ mutex' = "none"
  /\ http' = [pc |-> "idle", i |-> 0, frame |-> NoFrame]
  /\ UNCHANGED <<can, kern, epoll, send, hist>>

-----------------------------------------------------------------------------
(* can_send_task *)

SendWake ==
  /\ send.pc = "wait"
  /\ \/ epoll.efd /\ epoll' = [epoll EXCEPT !.efd = FALSE]
     \/ epoll.send # {} /\ UNCHANGED epoll
  /\ send' = [send EXCEPT !.pc = "lock"]
  /\ UNCHANGED <<can, kern, mutex, http, hist>>

SendLock ==
  /\ send.pc = "lock" /\ mutex = "none"
  /\ mutex' = "send"
  /\ send' = [send EXCEPT !.pc = "scan", !.i = 0]
  /\ UNCHANGED <<can, kern, epoll, http, hist>>

SendScan ==
  /\ send.pc = "scan" /\ send.i \in Known
  /\ send' = IF can.sock[send.i] = Closed
             THEN [send EXCEPT !.i = @ + 1]
             ELSE [send EXCEPT !.pc = "pop", !.limit = can.txq[send.i].used]
  /\ UNCHANGED <<can, kern, epoll, mutex, http, hist>>

SendPop ==
  /\ send.pc = "pop"
  /\ IF send.limit > 0 /\ can.txq[send.i].used > 0
     THEN /\ can' = [can EXCEPT !.txq[send.i] = Reserved(@)]
          /\ send' = [send EXCEPT !.pc = "read", !.limit = @ - 1]
     ELSE /\ send' = [send EXCEPT !.pc = "scan", !.i = @ + 1]
          /\ UNCHANGED can
  /\ UNCHANGED <<kern, epoll, mutex, http, hist>>

SendRead ==
  /\ send.pc = "read"
  /\ can' = [can EXCEPT !.txq[send.i] = Released(@)]
  /\ send' = [send EXCEPT !.pc = "write", !.frame = Front(can.txq[send.i])]
  /\ UNCHANGED <<kern, epoll, mutex, http, hist>>

\* A write to another's descriptor succeeds too: the frame is lost in it.
SendOk ==
  /\ send.pc = "write" /\ Socket(can.sock[send.i])
  /\ hist' = [hist EXCEPT !.sent = Append(@, send.frame)]
  /\ send' = [send EXCEPT !.pc = "pop", !.frame = NoFrame]
  /\ UNCHANGED <<can, kern, epoll, mutex, http>>

SendError ==
  /\ send.pc = "write"
  /\ hist' = [hist EXCEPT !.lost = @ \cup {send.frame}]
  /\ send' = [send EXCEPT !.pc = "pop", !.frame = NoFrame]
  /\ UNCHANGED <<can, kern, epoll, mutex, http>>

\* Put back at the tail of the queue, or dropped when the push is refused.
SendAgain ==
  /\ send.pc = "write" /\ kern[can.sock[send.i]] # Free
  /\ IF Refuses(can.txq[send.i])
     THEN /\ hist' = [hist EXCEPT !.lost = @ \cup {send.frame}]
          /\ send' = [send EXCEPT !.pc = "scan", !.i = @ + 1, !.frame = NoFrame]
          /\ UNCHANGED can
     ELSE /\ can' = [can EXCEPT !.txq[send.i] = Claimed(@, "send")]
          /\ send' = [send EXCEPT !.pc = "store"]
          /\ hist' = [hist EXCEPT !.back = @ \cup {send.frame}]
  /\ UNCHANGED <<kern, epoll, mutex, http>>

SendStore ==
  /\ send.pc = "store"
  /\ can' = [can EXCEPT !.txq[send.i] = Stored(@, send.frame)]
  /\ send' = [send EXCEPT !.pc = "scan", !.i = @ + 1, !.frame = NoFrame]
  /\ UNCHANGED <<kern, epoll, mutex, http, hist>>

\* Then can_epoll_update_tx of one interface after the other.
SendScanned ==
  /\ send.pc = "scan" /\ send.i \notin Known
  /\ send' = [send EXCEPT !.pc = "update", !.i = 0]
  /\ UNCHANGED <<can, kern, epoll, mutex, http, hist>>

SendUpdate ==
  /\ send.pc = "update" /\ send.i \in Known
  /\ epoll' = [epoll EXCEPT
       !.send = UpdateTx(@, kern, can.sock[send.i], can.txq[send.i], send.i)]
  /\ send' = [send EXCEPT !.i = @ + 1]
  /\ UNCHANGED <<can, kern, mutex, http, hist>>

SendUnlock ==
  /\ send.pc = "update" /\ send.i \notin Known
  /\ mutex' = "none"
  /\ send' = [pc |-> "wait", i |-> 0, limit |-> 0, frame |-> NoFrame]
  /\ hist' = [hist EXCEPT !.swapped = {}]
  /\ UNCHANGED <<can, kern, epoll, http>>

-----------------------------------------------------------------------------
(* can_recv_task: handle_can_input as one step.  It holds can_mutex, and all  *)
(* that it shares with a thread without the mutex is the length of txq, which *)
(* it reads once.  A frame that is read changes nothing here: it goes to rxq, *)
(* which no thread pops, and to the lists the web pages show.                 *)

Ready(i) == mutex = "none" /\ \E r \in epoll.recv : r[2] = i

\* Mutant: the new socket is not registered for reading.
ReconnectDeaf(i) ==
  /\ Ready(i) /\ hist.errors < MaxErrors
  /\ \E new \in Fds :
       LET old == can.sock[i]
           k   == [f \in Fds |-> IF f = new THEN i ELSE IF f = old THEN Free ELSE kern[f]]
       IN /\ Lowest([kern EXCEPT ![old] = Free], new)
          /\ kern' = k
          /\ can' = [can EXCEPT !.sock[i] = new]
          /\ epoll' = [epoll EXCEPT
               !.recv = Without(@, old),
               !.send = UpdateTx(Without(@, old), k, new, can.txq[i], i)]
          /\ hist' = [hist EXCEPT !.errors = @ + 1, !.deaf = @ \ {i}, !.swapped = @ \ {i}]
  /\ UNCHANGED <<mutex, http, send>>

\* The socket is closed and opened again, with the same number or another.
Reconnect(i) ==
  /\ Ready(i) /\ hist.errors < MaxErrors
  /\ \E new \in Fds :
       LET old == can.sock[i]
           k   == [f \in Fds |-> IF f = new THEN i ELSE IF f = old THEN Free ELSE kern[f]]
       IN /\ Lowest([kern EXCEPT ![old] = Free], new)
          /\ kern' = k
          /\ can' = [can EXCEPT !.sock[i] = new]
          /\ epoll' = [epoll EXCEPT
               !.recv = WithFd(Without(@, old), k, new, i),
               !.send = UpdateTx(Without(@, old), k, new, can.txq[i], i)]
          /\ hist' = [hist EXCEPT !.errors = @ + 1, !.deaf = @ \ {i}, !.swapped = @ \ {i}]
  /\ UNCHANGED <<mutex, http, send>>

\* When the socket cannot be opened again sock_fd keeps the closed number.
LeftClosed(i) ==
  /\ Ready(i) /\ hist.errors < MaxErrors
  /\ LET old == can.sock[i] IN
       /\ kern' = [kern EXCEPT ![old] = Free]
       /\ epoll' = [epoll EXCEPT !.recv = Without(@, old), !.send = Without(@, old)]
  /\ hist' = [hist EXCEPT !.errors = @ + 1, !.failed = TRUE]
  /\ UNCHANGED <<can, mutex, http, send>>

-----------------------------------------------------------------------------
Http ==
  \/ TxStore \/ TxSignal \/ ConfigureFails \/ OpenFails \/ Applied \/ ConfigEnd

Sender ==
  \/ SendWake \/ SendLock \/ SendScan \/ SendPop \/ SendRead
  \/ SendOk \/ SendError \/ SendAgain \/ SendStore
  \/ SendScanned \/ SendUpdate \/ SendUnlock

Receiver == \E i \in Ifaces : Reconnect(i) \/ LeftClosed(i)

Next ==
  \/ \E i \in Ifaces : TxFrame(i)
  \/ \E new \in 0 .. NIfaces : ConfigBegin(new)
  \/ Http \/ Sender \/ Receiver

Spec == Init /\ [][Next]_vars

\* The threads run, the mutex is not withheld from the sender for ever, and the
\* bus is writable again and again.
FairSpec ==
  /\ Spec
  /\ WF_vars(Http) /\ WF_vars(SendWake) /\ SF_vars(SendLock)
  /\ WF_vars(SendScan \/ SendPop \/ SendRead \/ SendStore)
  /\ WF_vars(SendScanned \/ SendUpdate \/ SendUnlock)
  /\ SF_vars(SendOk)

-----------------------------------------------------------------------------
(* Properties *)

One(b) == IF b THEN 1 ELSE 0

Places(f) ==
  Cardinality({p \in Ifaces \X (1 .. Cap) :
                 LET c == Contents(can.txq[p[1]])
                 IN p[2] <= Len(c) /\ c[p[2]] = f /\ hist.of[f] = p[1]})
  + Cardinality({k \in DOMAIN hist.sent : hist.sent[k] = f})
  + One(http.frame = f) + One(send.frame = f) + One(f \in hist.lost)

\* The lock-free pop and the producers' mutex keep the queue whole: what the
\* semaphores count is what the array holds, and each accepted frame is in one
\* place only: its interface's queue, a thread's hand, the bus, or lost by a
\* failed write or a refused return to the queue (can_queue_push, can_queue_pop,
\* handle_can_output).
FramesAccounted ==
  /\ \A i \in Ifaces :
       Len(Contents(can.txq[i])) = can.txq[i].used + One(send.pc = "read" /\ send.i = i)
  /\ \A f \in DOMAIN hist.of : Places(f) = 1

\* Frames of one interface go out in the order in which they were accepted; one
\* that comes late was put back at the tail after EAGAIN (can_socket.c:291-295).
InOrder ==
  \A m, n \in DOMAIN hist.sent :
    m < n /\ hist.of[hist.sent[m]] = hist.of[hist.sent[n]] /\ hist.sent[n] < hist.sent[m]
      => hist.sent[n] \in hist.back

\* What a producer was told is queued is neither lost, doubled nor overtaken.
FramesKept == FramesAccounted /\ InOrder

\* No lost wakeup: a sender that sleeps has no frame to write, unless the eventfd
\* or EPOLLOUT wakes it, the signal is on its way, or the socket was replaced by
\* a reconfiguration, which registers it to the receive epoll only
\* (can_epoll_update_tx, can_tx_frame, http_api_config.c:188-193).
Armed ==
  send.pc = "wait" /\ mutex = "none" /\ http.pc = "idle" /\ ~epoll.efd /\ ~hist.failed =>
    \A i \in Known :
      \/ can.txq[i].used = 0 \/ can.sock[i] = Closed \/ i \in hist.swapped
      \/ <<can.sock[i], i>> \in epoll.send

\* As long as no reconnection has failed, sock_fd names the interface's own
\* socket, in no other's hands, and can_recv_task hears of it under the
\* interface's tag, unless a reconfiguration failed to configure the interface
\* (handle_can_input, apply_can).
SocketsHeard ==
  ~hist.failed =>
    \A i \in Ifaces :
      can.sock[i] # Closed =>
        /\ kern[can.sock[i]] = i
        /\ mutex = "none" /\ i \notin hist.deaf => <<can.sock[i], i>> \in epoll.recv

\* Queued frames leave while the interface keeps its socket, unless a
\* reconfiguration leaves them without a wakeup (can_send_task).
Drains ==
  \A i \in Ifaces :
    <>[](can.sock[i] # Closed /\ ~hist.failed) =>
      []<>(Len(Contents(can.txq[i])) = 0 \/ i \in hist.swapped)
=============================================================================
