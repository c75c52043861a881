--------------------------- MODULE TcpServer_proofs ---------------------------
(***************************************************************************)
(* Slots, descriptors and registrations of the TCP server, for any number  *)
(* of connections, slots, descriptors and changes of the port.             *)
(***************************************************************************)
EXTENDS TcpServer, TLAPS

Regs == Fds \X Nat

TcpType ==
  [listen : Fds \cup {NoFd}, port : Ports, max : Nat,
   slot : [Slots -> Fds \cup {NoFd}], count : Nat]

KernType == [Fds -> Conns \cup {"free", "socket", "blocking", "listen"}]

TaskType ==
  [pc : {"wait", "next", "accept", "blocked", "orphaned", "add"}, batch : SUBSET Regs,
   hand : Fds \cup {NoFd}]

HttpType ==
  [pc : {"idle", "socket", "listen", "nonblock", "publish"}, port : Ports \cup {NoFd},
   fd : Fds \cup {NoFd}]

TypeInv ==
  /\ tcp \in TcpType
  /\ kern \in KernType
  /\ epoll \subseteq Regs
  /\ task \in TaskType
  /\ http \in HttpType
  /\ http.pc # "idle" => http.port \in Ports
  /\ deaf \in BOOLEAN
  /\ moves \in Nat

\* The accepted descriptor has no slot yet, and is not registered.
HandInv ==
  IF task.pc = "add" THEN task.hand \in Fds /\ kern[task.hand] \in Conns
                     ELSE task.hand = NoFd

\* A client's slot and its registration lead to each other; so does an event
\* that is still to be handled.
SlotInv ==
  /\ \A i \in Slots : tcp.slot[i] # NoFd =>
       /\ kern[tcp.slot[i]] \in Conns /\ tcp.slot[i] # task.hand
       /\ i < tcp.count /\ <<tcp.slot[i], i + 1>> \in epoll
  /\ \A i, j \in Slots : tcp.slot[i] # NoFd /\ tcp.slot[i] = tcp.slot[j] => i = j
  /\ \A f \in Fds : kern[f] \in Conns /\ f # task.hand => \E i \in Slots : tcp.slot[i] = f

RegInv ==
  \A r \in epoll :
    \/ kern[r[1]] = "listen" /\ r[2] = 0
    \/ kern[r[1]] \in Conns /\ \E i \in Slots : r[2] = i + 1 /\ tcp.slot[i] = r[1]

BatchInv ==
  \A r \in task.batch : r[2] # 0 => \E i \in Slots : r[2] = i + 1 /\ tcp.slot[i] = r[1]

\* The socket in the making is the HTTP thread's own, and as far as its step says.
MakingInv ==
  /\ \A f \in Fds : kern[f] \in {"socket", "blocking"} => f = http.fd
  /\ http.pc \in {"idle", "socket"} => http.fd = NoFd
  /\ http.pc \in {"listen", "nonblock", "publish"} => http.fd \in Fds
  /\ http.pc = "listen" => kern[http.fd] = "socket"
  /\ http.pc = "nonblock" => kern[http.fd] = "blocking"
  /\ http.pc = "publish" => kern[http.fd] = "listen"

\* There is one listener, but while the HTTP thread replaces it and after that
\* has failed.
ListenInv ==
  /\ \A f \in Fds : kern[f] = "listen" =>
       \/ http.pc = "idle" /\ f = tcp.listen
       \/ http.pc = "publish" /\ f = http.fd
  /\ http.pc = "idle" /\ tcp.listen # NoFd =>
       kern[tcp.listen] = "listen" /\ (deaf \/ <<tcp.listen, 0>> \in epoll)
  /\ http.pc # "idle" \/ tcp.listen = NoFd => moves > 0

NetInv == TypeInv /\ HandInv /\ SlotInv /\ RegInv /\ BatchInv /\ MakingInv /\ ListenInv

\* Facts about the constants.
LEMMA ConstantFacts ==
  /\ NoFd \notin Fds /\ 1 \in Fds /\ Fds \subseteq Nat /\ Slots \subseteq Nat
  /\ "free" \notin Conns /\ "listen" \notin Conns
  /\ "socket" \notin Conns /\ "blocking" \notin Conns
BY TcpAssumption DEF NoFd, Fds, Slots

LEMMA InitNet == Init => NetInv
<1> SUFFICES ASSUME Init PROVE NetInv
  OBVIOUS
<1> USE ConstantFacts, TcpAssumption
<1>1. PICK p \in Ports :
        tcp = [listen |-> 1, port |-> p, max |-> MaxClients,
               slot |-> [i \in Slots |-> NoFd], count |-> 0]
  BY DEF Init
<1>2. TypeInv
  BY <1>1 DEF Init, TypeInv, TcpType, TaskType, Regs, KernType, HttpType, NoChange
<1>3. HandInv /\ SlotInv /\ RegInv /\ BatchInv
  BY <1>1 DEF Init, HandInv, SlotInv, RegInv, BatchInv
<1>4. MakingInv /\ ListenInv
  BY <1>1 DEF Init, MakingInv, ListenInv, NoChange
<1> QED
  BY <1>2, <1>3, <1>4 DEF NetInv

-----------------------------------------------------------------------------
(* Steps that leave slots, descriptors and registrations alone *)

LEMMA QuietKeeps ==
  ASSUME NetInv, UNCHANGED <<kern, epoll, http, deaf, moves>>,
         tcp' \in TcpType, tcp'.slot = tcp.slot, tcp'.count = tcp.count,
         tcp'.listen = tcp.listen,
         task' \in TaskType, task.hand = NoFd, task'.hand = NoFd, task'.pc # "add",
         task'.batch \subseteq task.batch \cup {r \in epoll : TRUE}
  PROVE  NetInv'
<1> USE ConstantFacts DEF NetInv
<1>1. TypeInv' /\ HandInv' /\ MakingInv' /\ ListenInv'
  BY DEF TypeInv, HandInv, MakingInv, ListenInv
<1>2. SlotInv' /\ RegInv'
  BY DEF SlotInv, RegInv
<1>3. BatchInv'
  BY DEF BatchInv, RegInv
<1> QED
  BY <1>1, <1>2, <1>3

LEMMA WaitKeeps == ASSUME NetInv, Wait, UNCHANGED deaf PROVE NetInv'
<1>1. PICK b \in SUBSET epoll : task' = [task EXCEPT !.pc = "next", !.batch = b]
  BY DEF Wait
<1>2. task.hand = NoFd /\ tcp \in TcpType /\ epoll \subseteq Regs /\ task \in TaskType
  BY DEF NetInv, HandInv, TypeInv, Wait
<1>3. /\ task' \in TaskType /\ task'.pc = "next" /\ task'.hand = NoFd /\ task'.batch = b
  BY <1>1, <1>2 DEF TaskType
<1> QED
  BY <1>2, <1>3, QuietKeeps DEF Wait

\* The other events, and a new limit, at most drop an event of the batch.
LEMMA EventKeeps ==
  ASSUME NetInv, BatchDone \/ ListenerEvent \/ AcceptBlocks \/ AcceptFails, UNCHANGED deaf
  PROVE  NetInv'
<1>1. /\ task.hand = NoFd /\ tcp \in TcpType /\ task \in TaskType
  BY DEF NetInv, HandInv, TypeInv, BatchDone, ListenerEvent, AcceptBlocks, AcceptFails
<1>2. PICK pc \in {"wait", "next", "accept", "blocked"}, b \in SUBSET task.batch :
        task' = [task EXCEPT !.pc = pc, !.batch = b]
  <2>1. CASE BatchDone
    BY <2>1, <1>1 DEF BatchDone, TaskType
  <2>2. CASE ListenerEvent
    BY <2>2, <1>1 DEF ListenerEvent, TaskType
  <2>3. CASE AcceptFails
    <3>1. task' = [task EXCEPT !.pc = "next", !.batch = task.batch]
      BY <2>3, <1>1 DEF AcceptFails, TaskType
    <3> QED
      BY <3>1
  <2>4. CASE AcceptBlocks
    <3>1. task' = [task EXCEPT !.pc = "blocked", !.batch = task.batch]
      BY <2>4, <1>1 DEF AcceptBlocks, TaskType
    <3> QED
      BY <3>1
  <2> QED
    BY <2>1, <2>2, <2>3, <2>4
<1>3. task' \in TaskType /\ task'.pc = pc /\ task'.hand = NoFd /\ task'.batch = b
  BY <1>1, <1>2 DEF TaskType
<1>4. UNCHANGED <<tcp, kern, epoll, http, moves>>
  BY DEF BatchDone, ListenerEvent, AcceptBlocks, AcceptFails
<1> QED
  BY <1>1, <1>3, <1>4, QuietKeeps

LEMMA LimitKeeps ==
  ASSUME NetInv, NEW m \in 1 .. MaxClients, Limit(m), UNCHANGED deaf
  PROVE  NetInv'
<1>1. tcp \in TcpType /\ m \in Nat
  BY TcpAssumption DEF NetInv, TypeInv
<1>2. /\ tcp' \in TcpType /\ tcp'.slot = tcp.slot /\ tcp'.count = tcp.count
      /\ tcp'.listen = tcp.listen
  BY <1>1 DEF Limit, TcpType
<1>3. UNCHANGED <<kern, epoll, http, moves, task>>
  BY DEF Limit
<1> USE ConstantFacts DEF NetInv
<1>4. TypeInv' /\ HandInv' /\ MakingInv' /\ ListenInv'
  BY <1>2, <1>3 DEF TypeInv, HandInv, MakingInv, ListenInv
<1>5. SlotInv'
  BY <1>2, <1>3 DEF SlotInv
<1>6. RegInv' /\ BatchInv'
  BY <1>2, <1>3 DEF RegInv, BatchInv
<1> QED
  BY <1>4, <1>5, <1>6

-----------------------------------------------------------------------------
(* A client comes *)

\* accept: a free descriptor has neither a slot nor a registration.
LEMMA AcceptKeeps ==
  ASSUME NetInv, Accept \/ AcceptOrphan, UNCHANGED deaf
  PROVE  NetInv'
<1> USE ConstantFacts
<1>1. PICK c \in Conns, f \in Fds :
        /\ kern[f] = "free"
        /\ kern' = [kern EXCEPT ![f] = c]
        /\ task' = [task EXCEPT !.pc = "add", !.hand = f]
  BY DEF Accept, AcceptOrphan, Queued, Unused
<1>2. /\ task.hand = NoFd /\ task \in TaskType /\ tcp \in TcpType
      /\ kern \in KernType /\ epoll \subseteq Regs
  BY DEF NetInv, HandInv, TypeInv, Accept, AcceptOrphan
<1>3. /\ task' \in TaskType /\ task'.pc = "add" /\ task'.hand = f
      /\ task'.batch = task.batch
  BY <1>1, <1>2 DEF TaskType
<1>4. /\ kern' \in KernType /\ kern'[f] = c
      /\ \A g \in Fds \ {f} : kern'[g] = kern[g]
  BY <1>1, <1>2 DEF KernType
<1>5. /\ UNCHANGED <<tcp, epoll, http, moves>>
      /\ tcp.listen \in Fds \cup {NoFd}
      /\ \A i \in Slots : tcp.slot[i] \in Fds \cup {NoFd}
      /\ \A r \in epoll : r[1] \in Fds
  BY <1>2 DEF Accept, AcceptOrphan, TcpType, Regs
<1>6. \A r \in epoll : r[1] # f
  BY <1>1, <1>5 DEF NetInv, RegInv
<1>7. \A i \in Slots : tcp.slot[i] # f
  <2> SUFFICES ASSUME NEW i \in Slots, tcp.slot[i] = f PROVE FALSE
    OBVIOUS
  <2>1. kern[tcp.slot[i]] \in Conns
    BY DEF NetInv, SlotInv
  <2>2. kern[f] = "free"
    BY <1>1
  <2> QED
    BY <2>1, <2>2
<1>8. TypeInv' /\ HandInv'
  BY <1>3, <1>4, <1>5 DEF NetInv, TypeInv, HandInv
<1>9. SlotInv'
  BY <1>2, <1>3, <1>4, <1>5, <1>7 DEF NetInv, SlotInv
<1>10. RegInv' /\ BatchInv'
  BY <1>3, <1>4, <1>5, <1>6 DEF NetInv, RegInv, BatchInv
<1>11. MakingInv'
  BY <1>1, <1>4, <1>5 DEF NetInv, MakingInv
<1>12. ListenInv'
  BY <1>1, <1>4, <1>5 DEF NetInv, ListenInv
<1> QED
  BY <1>8, <1>9, <1>10, <1>11, <1>12 DEF NetInv

\* tcp_client_add
LEMMA ClientAddKeeps == ASSUME NetInv, ClientAdd, UNCHANGED deaf PROVE NetInv'
<1> USE ConstantFacts
<1>1. PICK i \in Slots :
        /\ tcp.slot[i] = NoFd
        /\ tcp' = [tcp EXCEPT !.slot[i] = task.hand, !.count = IF i >= @ THEN i + 1 ELSE @]
        /\ epoll' = epoll \cup {<<task.hand, i + 1>>}
  BY DEF ClientAdd, FirstVacant, Vacant
<1>2. /\ task.hand \in Fds /\ kern[task.hand] \in Conns
      /\ task \in TaskType /\ tcp \in TcpType /\ epoll \subseteq Regs
  BY DEF NetInv, HandInv, TypeInv, ClientAdd
<1> DEFINE fd == task.hand
<1>3. /\ task' \in TaskType /\ task'.pc = "accept" /\ task'.hand = NoFd
      /\ task'.batch = task.batch
  BY <1>2 DEF ClientAdd, TaskType
<1>4. /\ tcp.slot \in [Slots -> Fds \cup {NoFd}] /\ tcp.count \in Nat
      /\ tcp.listen \in Fds \cup {NoFd} /\ i \in Nat
  BY <1>2 DEF TcpType
<1>5. /\ tcp'.slot = [tcp.slot EXCEPT ![i] = fd] /\ tcp'.listen = tcp.listen
      /\ tcp'.count = IF i >= tcp.count THEN i + 1 ELSE tcp.count
  BY <1>1, <1>2 DEF TcpType
<1>6. /\ tcp'.slot \in [Slots -> Fds \cup {NoFd}] /\ tcp'.slot[i] = fd
      /\ \A j \in Slots \ {i} : tcp'.slot[j] = tcp.slot[j]
      /\ tcp'.count \in Nat /\ i < tcp'.count /\ tcp.count <= tcp'.count
  BY <1>2, <1>4, <1>5
<1>7. tcp' \in TcpType
  BY <1>1, <1>2, <1>6 DEF TcpType
<1>8. /\ epoll' \subseteq Regs /\ <<fd, i + 1>> \in epoll' /\ epoll \subseteq epoll'
      /\ \A r \in epoll' \ epoll : r = <<fd, i + 1>>
  BY <1>1, <1>2, <1>4 DEF Regs
<1>9. /\ UNCHANGED <<kern, http, moves>>
      /\ \A j \in Slots : tcp.slot[j] # fd
      /\ \A r \in epoll : r[1] \in Fds
      /\ \A r \in task.batch : r[1] \in Fds
  <2>1. \A j \in Slots : tcp.slot[j] # fd
    <3>1. \A j \in Slots : tcp.slot[j] # NoFd => tcp.slot[j] # task.hand
      BY DEF NetInv, SlotInv
    <3> QED
      BY <3>1, <1>2
  <2>2. \A r \in epoll : r[1] \in Fds
    BY <1>2 DEF Regs
  <2>3. \A r \in task.batch : r[1] \in Fds
    BY <1>2 DEF Regs, TaskType
  <2> QED
    BY <2>1, <2>2, <2>3 DEF ClientAdd
<1> HIDE DEF fd
<1>10. TypeInv' /\ HandInv'
  BY <1>3, <1>7, <1>8, <1>9 DEF NetInv, TypeInv, HandInv
<1>11. SlotInv'
  <2>1. \A j \in Slots : tcp'.slot[j] # NoFd =>
          /\ kern'[tcp'.slot[j]] \in Conns /\ tcp'.slot[j] # task'.hand
          /\ j < tcp'.count /\ <<tcp'.slot[j], j + 1>> \in epoll'
    <3> SUFFICES ASSUME NEW j \in Slots, tcp'.slot[j] # NoFd
                 PROVE  /\ kern'[tcp'.slot[j]] \in Conns /\ tcp'.slot[j] # task'.hand
                        /\ j < tcp'.count /\ <<tcp'.slot[j], j + 1>> \in epoll'
      OBVIOUS
    <3>1. CASE j = i
      BY <3>1, <1>2, <1>3, <1>6, <1>8, <1>9 DEF fd
    <3>2. CASE j # i
      BY <3>2, <1>3, <1>4, <1>6, <1>8, <1>9 DEF NetInv, SlotInv
    <3> QED
      BY <3>1, <3>2
  <2>2. \A j, k \in Slots : tcp'.slot[j] # NoFd /\ tcp'.slot[j] = tcp'.slot[k] => j = k
    <3>1. \A j, k \in Slots : tcp.slot[j] # NoFd /\ tcp.slot[j] = tcp.slot[k] => j = k
      BY DEF NetInv, SlotInv
    <3> QED
      BY <3>1, <1>6, <1>9
  <2>3. \A f \in Fds : kern'[f] \in Conns /\ f # task'.hand => \E j \in Slots : tcp'.slot[j] = f
    BY <1>1, <1>4, <1>6, <1>9 DEF NetInv, SlotInv, fd
  <2> QED
    BY <2>1, <2>2, <2>3 DEF SlotInv
<1>12. \A r : (\E j \in Slots : r[2] = j + 1 /\ tcp.slot[j] = r[1]) /\ r[1] \in Fds
               => \E j \in Slots : r[2] = j + 1 /\ tcp'.slot[j] = r[1]
  BY <1>1, <1>6
<1>13. BatchInv'
  BY <1>3, <1>9, <1>12 DEF NetInv, BatchInv
<1>14. RegInv'
  <2> SUFFICES ASSUME NEW r \in epoll'
               PROVE  \/ kern'[r[1]] = "listen" /\ r[2] = 0
                      \/ kern'[r[1]] \in Conns /\ \E j \in Slots : r[2] = j + 1 /\ tcp'.slot[j] = r[1]
    BY DEF RegInv
  <2>1. CASE r \in epoll
    BY <2>1, <1>9, <1>12 DEF NetInv, RegInv
  <2>2. CASE r \notin epoll
    BY <2>2, <1>2, <1>6, <1>8, <1>9 DEF fd
  <2> QED
    BY <2>1, <2>2
<1>15. MakingInv' /\ ListenInv'
  BY <1>5, <1>8, <1>9 DEF NetInv, MakingInv, ListenInv
<1> QED
  BY <1>10, <1>11, <1>13, <1>14, <1>15 DEF NetInv

-----------------------------------------------------------------------------
(* A client goes *)

\* Too many clients: the accepted descriptor is closed.
LEMMA RejectedKeeps == ASSUME NetInv, ClientRejected, UNCHANGED deaf PROVE NetInv'
<1> USE ConstantFacts
<1> DEFINE fd == task.hand
<1>1. /\ fd \in Fds /\ kern[fd] \in Conns /\ task \in TaskType /\ tcp \in TcpType
      /\ kern \in KernType /\ epoll \subseteq Regs
  BY DEF NetInv, HandInv, TypeInv, ClientRejected
<1>2. /\ task' \in TaskType /\ task'.pc = "accept" /\ task'.hand = NoFd
      /\ task'.batch = task.batch
  BY <1>1 DEF ClientRejected, TaskType
<1>3. /\ kern' = [kern EXCEPT ![fd] = "free"]
      /\ epoll' = {r \in epoll : r[1] # fd}
      /\ UNCHANGED <<tcp, http, moves>>
  BY DEF ClientRejected, Closed
<1> HIDE DEF fd
<1>4. /\ kern' \in KernType /\ kern'[fd] = "free"
      /\ \A g \in Fds \ {fd} : kern'[g] = kern[g]
  BY <1>1, <1>3 DEF KernType
<1>5. /\ \A i \in Slots : tcp.slot[i] # fd /\ tcp.slot[i] \in Fds \cup {NoFd}
      /\ \A r \in epoll : r[1] \in Fds
      /\ tcp.listen \in Fds \cup {NoFd} /\ (tcp.listen # fd \/ http.pc # "idle")
  <2>1. \A i \in Slots : tcp.slot[i] # fd /\ tcp.slot[i] \in Fds \cup {NoFd}
    <3>1. \A i \in Slots : tcp.slot[i] # NoFd => tcp.slot[i] # task.hand
      BY DEF NetInv, SlotInv
    <3>2. \A i \in Slots : tcp.slot[i] \in Fds \cup {NoFd}
      BY <1>1 DEF TcpType
    <3> QED
      BY <3>1, <3>2, <1>1 DEF fd
  <2>2. \A r \in epoll : r[1] \in Fds
    BY <1>1 DEF Regs
  <2>3. tcp.listen \in Fds \cup {NoFd}
    BY <1>1 DEF TcpType
  <2>4. tcp.listen # fd \/ http.pc # "idle"
    BY <1>1 DEF NetInv, ListenInv
  <2> QED
    BY <2>1, <2>2, <2>3, <2>4
<1>6. TypeInv' /\ HandInv'
  BY <1>1, <1>2, <1>3, <1>4 DEF NetInv, TypeInv, HandInv
<1>7. SlotInv'
  BY <1>2, <1>3, <1>4, <1>5 DEF NetInv, SlotInv, fd
<1>8. RegInv' /\ BatchInv'
  BY <1>2, <1>3, <1>4, <1>5 DEF NetInv, RegInv, BatchInv
<1>9. http.fd # fd \/ http.pc = "idle"
  <2>1. http \in HttpType /\ kern[fd] \notin {"socket", "blocking", "listen"}
    BY <1>1 DEF NetInv, TypeInv
  <2>2. http.pc \in {"idle", "socket", "listen", "nonblock", "publish"}
    BY <2>1 DEF HttpType
  <2> QED
    BY <1>1, <2>1, <2>2 DEF NetInv, MakingInv
<1>10. MakingInv'
  BY <1>1, <1>3, <1>4, <1>9 DEF NetInv, MakingInv
<1>11. ListenInv'
  BY <1>3, <1>4, <1>5 DEF NetInv, ListenInv
<1> QED
  BY <1>6, <1>7, <1>8, <1>10, <1>11 DEF NetInv

\* tcp_client_del: no event of the batch that is left concerns the slot.
LEMMA ClientEventKeeps == ASSUME NetInv, ClientEvent, UNCHANGED deaf PROVE NetInv'
<1> USE ConstantFacts
<1>1. PICK e \in task.batch :
        LET i == e[2] - 1  f == tcp.slot[i] IN
          /\ e[2] # 0 /\ f # NoFd
          /\ Closed(f)
          /\ tcp' = [tcp EXCEPT !.slot[i] = NoFd]
          /\ task' = [task EXCEPT !.batch = @ \ {e}]
  BY DEF ClientEvent
<1>2. /\ task.hand = NoFd /\ task \in TaskType /\ tcp \in TcpType /\ task.pc # "add"
      /\ kern \in KernType /\ epoll \subseteq Regs
  BY DEF NetInv, HandInv, TypeInv, ClientEvent
<1>3. PICK i \in Slots : e[2] = i + 1 /\ tcp.slot[i] = e[1]
  BY <1>1 DEF NetInv, BatchInv
<1> DEFINE fd == tcp.slot[i]
<1>4. i \in Nat /\ e[2] - 1 = i /\ tcp.slot[e[2] - 1] = fd
  BY <1>3
<1>5. /\ fd # NoFd /\ kern' = [kern EXCEPT ![fd] = "free"]
      /\ epoll' = {r \in epoll : r[1] # fd}
      /\ tcp' = [tcp EXCEPT !.slot[i] = NoFd]
      /\ task' = [task EXCEPT !.batch = @ \ {e}]
      /\ UNCHANGED <<http, moves>>
  BY <1>1, <1>4 DEF Closed, ClientEvent
<1>6. /\ tcp.slot \in [Slots -> Fds \cup {NoFd}] /\ tcp.listen \in Fds \cup {NoFd}
      /\ fd \in Fds
  BY <1>2, <1>5 DEF TcpType
<1>7. /\ tcp' \in TcpType /\ tcp'.slot = [tcp.slot EXCEPT ![i] = NoFd]
      /\ tcp'.listen = tcp.listen /\ tcp'.count = tcp.count
  BY <1>2, <1>5 DEF TcpType
<1>8. /\ task' \in TaskType /\ task'.pc = task.pc /\ task'.hand = NoFd
      /\ task'.batch = task.batch \ {e}
  BY <1>2, <1>5 DEF TaskType
<1>9. kern[fd] \in Conns /\ e \in Regs /\ (tcp.listen # fd \/ http.pc # "idle")
  <2>1. kern[fd] \in Conns
    BY <1>5 DEF NetInv, SlotInv
  <2>2. e \in Regs
    BY <1>2 DEF TaskType
  <2>3. tcp.listen = fd /\ http.pc = "idle" => kern[fd] = "listen"
    BY <1>5 DEF NetInv, ListenInv
  <2> QED
    BY <2>1, <2>2, <2>3
<1>10. /\ \A r \in epoll : r[1] \in Fds
       /\ \A r \in task.batch : r \in Regs
  BY <1>2 DEF Regs, TaskType
<1>11. e = <<fd, i + 1>>
  BY <1>3, <1>9 DEF Regs
<1> HIDE DEF fd
<1>12. /\ tcp'.slot[i] = NoFd /\ \A j \in Slots \ {i} : tcp'.slot[j] = tcp.slot[j]
       /\ tcp.slot[i] = fd /\ \A j \in Slots \ {i} : tcp.slot[j] # fd
  BY <1>5, <1>6, <1>7 DEF NetInv, SlotInv, fd
<1>13. /\ kern' \in KernType /\ kern'[fd] = "free"
       /\ \A g \in Fds \ {fd} : kern'[g] = kern[g]
  BY <1>2, <1>5, <1>6 DEF KernType
<1>14. TypeInv' /\ HandInv'
  BY <1>2, <1>5, <1>7, <1>8, <1>13 DEF NetInv, TypeInv, HandInv
<1>15. SlotInv'
  <2>1. \A j \in Slots : tcp'.slot[j] # NoFd =>
          /\ kern'[tcp'.slot[j]] \in Conns /\ tcp'.slot[j] # task'.hand
          /\ j < tcp'.count /\ <<tcp'.slot[j], j + 1>> \in epoll'
    BY <1>2, <1>5, <1>6, <1>7, <1>8, <1>12, <1>13 DEF NetInv, SlotInv
  <2>2. \A j, k \in Slots : tcp'.slot[j] # NoFd /\ tcp'.slot[j] = tcp'.slot[k] => j = k
    BY <1>12 DEF NetInv, SlotInv
  <2>3. \A f \in Fds : kern'[f] \in Conns /\ f # task'.hand => \E j \in Slots : tcp'.slot[j] = f
    BY <1>2, <1>8, <1>12, <1>13 DEF NetInv, SlotInv
  <2> QED
    BY <2>1, <2>2, <2>3 DEF SlotInv
<1>16. RegInv'
  BY <1>5, <1>10, <1>12, <1>13 DEF NetInv, RegInv
<1>17. BatchInv'
  <2> SUFFICES ASSUME NEW r \in task'.batch, r[2] # 0
               PROVE  \E j \in Slots : r[2] = j + 1 /\ tcp'.slot[j] = r[1]
    BY DEF BatchInv
  <2>1. r \in task.batch /\ r # e /\ r \in Regs
    BY <1>8, <1>10
  <2>2. PICK j \in Slots : r[2] = j + 1 /\ tcp.slot[j] = r[1]
    BY <2>1 DEF NetInv, BatchInv
  <2>3. CASE j = i
    BY <2>1, <2>2, <2>3, <1>11, <1>12 DEF Regs
  <2>4. CASE j # i
    BY <2>2, <2>4, <1>12
  <2> QED
    BY <2>3, <2>4
<1>18. MakingInv'
  BY <1>2, <1>5, <1>6, <1>9, <1>13 DEF NetInv, MakingInv
<1>19. ListenInv'
  BY <1>5, <1>6, <1>7, <1>9, <1>13 DEF NetInv, ListenInv
<1> QED
  BY <1>14, <1>15, <1>16, <1>17, <1>18, <1>19 DEF NetInv

-----------------------------------------------------------------------------
(* The HTTP thread changes the port *)

\* What is no client's may come and go: slots, registrations and events of the
\* clients stay as they are.
LEMMA ApartKeeps ==
  ASSUME NetInv, NEW fd \in Fds \cup {NoFd}, fd \in Fds => kern[fd] \notin Conns,
         kern' \in KernType, fd \in Fds => kern'[fd] \notin Conns,
         \A g \in Fds : g # fd => kern'[g] = kern[g],
         epoll' = {r \in epoll : r[1] # fd},
         tcp'.slot = tcp.slot, tcp'.count = tcp.count,
         task' \in TaskType, task'.hand = task.hand, task'.batch = task.batch,
         task'.pc = "add" <=> task.pc = "add"
  PROVE  HandInv' /\ SlotInv' /\ RegInv' /\ BatchInv'
<1> USE ConstantFacts
<1>1. /\ task \in TaskType /\ tcp \in TcpType
      /\ kern \in KernType /\ epoll \subseteq Regs
  BY DEF NetInv, TypeInv
<1>2. \A r \in epoll : r[1] \in Fds
  BY <1>1 DEF Regs
<1>3. /\ \A i \in Slots : tcp.slot[i] \in Fds \cup {NoFd}
      /\ \A i \in Slots : tcp.slot[i] # NoFd => tcp.slot[i] # fd
      /\ task.pc = "add" => task.hand # fd
  <2>1. \A i \in Slots : tcp.slot[i] \in Fds \cup {NoFd}
    BY <1>1 DEF TcpType
  <2>2. \A i \in Slots : tcp.slot[i] # NoFd => kern[tcp.slot[i]] \in Conns
    BY DEF NetInv, SlotInv
  <2>3. task.pc = "add" => task.hand \in Fds /\ kern[task.hand] \in Conns
    BY DEF NetInv, HandInv
  <2> QED
    BY <2>1, <2>2, <2>3
<1>4. HandInv'
  <2>1. CASE task.pc = "add"
    <3>1. task.hand \in Fds /\ kern[task.hand] \in Conns /\ task.hand # fd
      BY <2>1, <1>3 DEF NetInv, HandInv
    <3>2. kern'[task.hand] = kern[task.hand]
      BY <3>1
    <3> QED
      BY <2>1, <3>1, <3>2 DEF HandInv
  <2>2. CASE task.pc # "add"
    BY <2>2 DEF NetInv, HandInv
  <2> QED
    BY <2>1, <2>2
<1>5. SlotInv'
  <2>1. ASSUME NEW i \in Slots, tcp.slot[i] # NoFd
        PROVE  /\ kern'[tcp.slot[i]] \in Conns /\ tcp.slot[i] # task.hand
               /\ i < tcp.count /\ <<tcp.slot[i], i + 1>> \in epoll'
    <3> DEFINE g == tcp.slot[i]
                x == <<g, i + 1>>
    <3>1. g \in Fds /\ g # fd /\ x[1] = g
      BY <2>1, <1>3
    <3>2. kern[g] \in Conns /\ g # task.hand /\ i < tcp.count /\ x \in epoll
      BY <2>1 DEF NetInv, SlotInv
    <3>3. kern'[g] = kern[g]
      BY <3>1
    <3>4. x \in epoll'
      BY <3>1, <3>2
    <3> QED
      BY <3>2, <3>3, <3>4
  <2>2. \A i, j \in Slots : tcp.slot[i] # NoFd /\ tcp.slot[i] = tcp.slot[j] => i = j
    BY DEF NetInv, SlotInv
  <2>3. ASSUME NEW f \in Fds, kern'[f] \in Conns, f # task.hand
        PROVE  \E i \in Slots : tcp.slot[i] = f
    <3>1. kern[f] \in Conns
      BY <2>3, <1>1
    <3> QED
      BY <2>3, <3>1 DEF NetInv, SlotInv
  <2> QED
    BY <2>1, <2>2, <2>3 DEF SlotInv
<1>6. RegInv'
  <2> SUFFICES ASSUME NEW r \in epoll'
               PROVE  \/ kern'[r[1]] = "listen" /\ r[2] = 0
                      \/ kern'[r[1]] \in Conns
                         /\ \E i \in Slots : r[2] = i + 1 /\ tcp'.slot[i] = r[1]
    BY DEF RegInv
  <2>1. r \in epoll /\ r[1] \in Fds /\ r[1] # fd
    BY <1>2
  <2>2. kern'[r[1]] = kern[r[1]]
    BY <2>1
  <2> QED
    BY <2>1, <2>2 DEF NetInv, RegInv
<1>7. BatchInv'
  BY DEF NetInv, BatchInv
<1> QED
  BY <1>4, <1>5, <1>6, <1>7

\* The task as it is after a listening socket has been closed: an accept that has
\* hold of the socket goes on.
LEMMA OrphanedTask ==
  ASSUME NetInv, NEW f, ListenerClosed(f)
  PROVE  /\ task' \in TaskType /\ task'.hand = task.hand /\ task'.batch = task.batch
         /\ task'.pc = "add" <=> task.pc = "add"
         /\ kern' = [kern EXCEPT ![f] = "free"] /\ epoll' = {r \in epoll : r[1] # f}
<1>1. task \in TaskType
  BY DEF NetInv, TypeInv
<1>2. task' = IF task.pc = "blocked" THEN [task EXCEPT !.pc = "orphaned"] ELSE task
  BY DEF ListenerClosed
<1> QED
  BY <1>1, <1>2 DEF ListenerClosed, Closed, TaskType

LEMMA UnlistenKeeps ==
  ASSUME NetInv, NEW p \in Ports, Unlisten(p), UNCHANGED deaf PROVE NetInv'
<1> USE ConstantFacts
<1> DEFINE fd == tcp.listen
<1>1. /\ task \in TaskType /\ tcp \in TcpType /\ fd \in Fds \cup {NoFd} /\ moves \in Nat
      /\ kern \in KernType /\ epoll \subseteq Regs
  BY DEF NetInv, TypeInv, TcpType
<1>2. /\ http.pc = "idle" /\ http' = [pc |-> "socket", port |-> p, fd |-> NoFd]
      /\ moves' = moves + 1 /\ UNCHANGED tcp
  BY DEF Unlisten
<1>3. fd # NoFd => kern[fd] = "listen" /\ kern' = [kern EXCEPT ![fd] = "free"]
                   /\ epoll' = {r \in epoll : r[1] # fd}
  BY <1>2, OrphanedTask DEF Unlisten, NetInv, ListenInv
<1>4. fd = NoFd => UNCHANGED <<kern, epoll>>
  BY DEF Unlisten
<1>5. /\ task' \in TaskType /\ task'.hand = task.hand /\ task'.batch = task.batch
      /\ task'.pc = "add" <=> task.pc = "add"
  BY <1>1, OrphanedTask DEF Unlisten
<1> HIDE DEF fd
<1>6. /\ kern' \in KernType
      /\ fd # NoFd => kern'[fd] = "free"
      /\ \A g \in Fds : g # fd => kern'[g] = kern[g]
  BY <1>1, <1>3, <1>4 DEF KernType
<1>7. epoll' = {r \in epoll : r[1] # fd}
  BY <1>1, <1>3, <1>4 DEF Regs
<1>8. HandInv' /\ SlotInv' /\ RegInv' /\ BatchInv'
  <2>1. fd \in Fds => kern[fd] \notin Conns /\ kern'[fd] \notin Conns
    BY <1>3, <1>6
  <2> QED
    BY <2>1, <1>1, <1>2, <1>5, <1>6, <1>7, ApartKeeps
<1>9. TypeInv'
  <2>1. http' \in HttpType /\ http'.port \in Ports
    BY <1>2 DEF HttpType
  <2>2. epoll' \subseteq Regs /\ moves' \in Nat
    BY <1>1, <1>2, <1>7
  <2> QED
    BY <2>1, <2>2, <1>1, <1>2, <1>5, <1>6 DEF NetInv, TypeInv
<1>10. \A f \in Fds : kern[f] = "listen" => f = fd
  BY <1>2 DEF NetInv, ListenInv, fd
<1>11. \A f \in Fds : kern[f] \notin {"socket", "blocking"}
  BY <1>2 DEF NetInv, MakingInv
<1>12. \A f \in Fds : kern'[f] \notin {"socket", "blocking", "listen"}
  BY <1>6, <1>10, <1>11
<1>13. MakingInv'
  BY <1>2, <1>12 DEF MakingInv
<1>14. ListenInv'
  BY <1>1, <1>2, <1>12 DEF ListenInv
<1> QED
  BY <1>8, <1>9, <1>13, <1>14 DEF NetInv

\* A step of tcp_listen that succeeds concerns one descriptor that is no client's
\* and not registered.
LEMMA StepKeeps ==
  ASSUME NetInv, NEW f \in Fds, NEW pc \in {"listen", "nonblock", "publish"},
         NEW k \in {"socket", "blocking", "listen"},
         http.pc # "idle", kern[f] \in {"free", "socket", "blocking"},
         kern' = [kern EXCEPT ![f] = k], http' = [http EXCEPT !.pc = pc, !.fd = f],
         UNCHANGED <<tcp, epoll, task, deaf, moves>>
  PROVE  /\ TypeInv' /\ HandInv' /\ SlotInv' /\ RegInv' /\ BatchInv'
         /\ kern'[f] = k /\ \A g \in Fds : g # f => kern'[g] = kern[g]
         /\ http'.pc = pc /\ http'.fd = f
<1> USE ConstantFacts
<1>1. /\ kern \in KernType /\ http \in HttpType /\ http.port \in Ports
      /\ task \in TaskType /\ epoll \subseteq Regs
  BY DEF NetInv, TypeInv
<1>2. /\ kern' \in KernType /\ kern'[f] = k /\ \A g \in Fds : g # f => kern'[g] = kern[g]
  BY <1>1 DEF KernType
<1>3. /\ http' \in HttpType /\ http'.pc = pc /\ http'.fd = f /\ http'.port \in Ports
  BY <1>1 DEF HttpType
<1>4. \A r \in epoll : r[1] # f
  BY DEF NetInv, RegInv
<1>5. epoll' = {r \in epoll : r[1] # f}
  BY <1>4
<1>6. kern[f] \notin Conns /\ kern'[f] \notin Conns
  BY <1>2
<1>7. TypeInv'
  BY <1>2, <1>3 DEF NetInv, TypeInv
<1>8. HandInv' /\ SlotInv' /\ RegInv' /\ BatchInv'
  BY <1>1, <1>2, <1>5, <1>6, ApartKeeps
<1> QED
  BY <1>2, <1>3, <1>7, <1>8

LEMMA NewSocketKeeps == ASSUME NetInv, NewSocket, UNCHANGED deaf PROVE NetInv'
<1> USE ConstantFacts
<1>1. PICK f \in Fds :
        /\ kern[f] = "free" /\ kern' = [kern EXCEPT ![f] = "socket"]
        /\ http' = [http EXCEPT !.pc = "listen", !.fd = f]
  BY DEF NewSocket, Unused
<1>2. http.pc = "socket" /\ UNCHANGED <<tcp, epoll, task, moves>>
  BY DEF NewSocket
<1>3. /\ TypeInv' /\ HandInv' /\ SlotInv' /\ RegInv' /\ BatchInv'
      /\ kern'[f] = "socket" /\ \A g \in Fds : g # f => kern'[g] = kern[g]
      /\ http'.pc = "listen" /\ http'.fd = f
  BY <1>1, <1>2, StepKeeps
<1>4. \A g \in Fds : kern[g] \notin {"socket", "blocking", "listen"}
  BY <1>2 DEF NetInv, MakingInv, ListenInv
<1>5. MakingInv' /\ ListenInv'
  BY <1>2, <1>3, <1>4 DEF NetInv, MakingInv, ListenInv
<1> QED
  BY <1>3, <1>5 DEF NetInv

LEMMA StartListeningKeeps == ASSUME NetInv, StartListening, UNCHANGED deaf PROVE NetInv'
<1> USE ConstantFacts
<1> DEFINE f == http.fd
<1>1. /\ http.pc = "listen" /\ UNCHANGED <<tcp, epoll, task, moves>>
      /\ kern' = [kern EXCEPT ![f] = "blocking"]
      /\ http' = [http EXCEPT !.pc = "nonblock"] /\ http \in HttpType
  BY DEF StartListening, NetInv, TypeInv
<1>2. f \in Fds /\ kern[f] = "socket" /\ http' = [http EXCEPT !.pc = "nonblock", !.fd = f]
  BY <1>1 DEF NetInv, MakingInv, HttpType
<1>3. \A g \in Fds : g # f => kern[g] \notin {"socket", "blocking", "listen"}
  BY <1>1 DEF NetInv, MakingInv, ListenInv
<1> HIDE DEF f
<1>4. /\ TypeInv' /\ HandInv' /\ SlotInv' /\ RegInv' /\ BatchInv'
      /\ kern'[f] = "blocking" /\ \A g \in Fds : g # f => kern'[g] = kern[g]
      /\ http'.pc = "nonblock" /\ http'.fd = f
  BY <1>1, <1>2, StepKeeps
<1>5. MakingInv' /\ ListenInv'
  BY <1>1, <1>2, <1>3, <1>4 DEF NetInv, MakingInv, ListenInv
<1> QED
  BY <1>4, <1>5 DEF NetInv

LEMMA SetNonblockKeeps == ASSUME NetInv, SetNonblock, UNCHANGED deaf PROVE NetInv'
<1> USE ConstantFacts
<1> DEFINE f == http.fd
<1>1. /\ http.pc = "nonblock" /\ UNCHANGED <<tcp, epoll, task, moves>>
      /\ kern' = [kern EXCEPT ![f] = "listen"]
      /\ http' = [http EXCEPT !.pc = "publish"] /\ http \in HttpType
  BY DEF SetNonblock, NetInv, TypeInv
<1>2. f \in Fds /\ kern[f] = "blocking" /\ http' = [http EXCEPT !.pc = "publish", !.fd = f]
  BY <1>1 DEF NetInv, MakingInv, HttpType
<1>3. \A g \in Fds : g # f => kern[g] \notin {"socket", "blocking", "listen"}
  BY <1>1 DEF NetInv, MakingInv, ListenInv
<1> HIDE DEF f
<1>4. /\ TypeInv' /\ HandInv' /\ SlotInv' /\ RegInv' /\ BatchInv'
      /\ kern'[f] = "listen" /\ \A g \in Fds : g # f => kern'[g] = kern[g]
      /\ http'.pc = "publish" /\ http'.fd = f
  BY <1>1, <1>2, StepKeeps
<1>5. MakingInv' /\ ListenInv'
  BY <1>1, <1>2, <1>3, <1>4 DEF NetInv, MakingInv, ListenInv
<1> QED
  BY <1>4, <1>5 DEF NetInv

\* The socket is published, and registered if epoll_ctl takes it.
LEMMA ListenKeeps == ASSUME NetInv, Listen PROVE NetInv'
<1> USE ConstantFacts
<1> DEFINE f == http.fd
<1>1. /\ http.pc = "publish" /\ http' = NoChange /\ UNCHANGED <<kern, task, moves>>
      /\ tcp' = [tcp EXCEPT !.listen = f, !.port = http.port] /\ deaf' \in BOOLEAN
      /\ epoll' = IF deaf' THEN epoll ELSE epoll \cup {<<f, 0>>}
  BY DEF Listen
<1>2. /\ tcp \in TcpType /\ http.port \in Ports /\ kern \in KernType /\ epoll \subseteq Regs
      /\ task \in TaskType /\ moves \in Nat
  BY <1>1 DEF NetInv, TypeInv
<1>3. /\ f \in Fds /\ kern[f] = "listen"
      /\ \A g \in Fds : g # f => kern[g] \notin {"socket", "blocking", "listen"}
  BY <1>1 DEF NetInv, MakingInv, ListenInv
<1>4. moves > 0
  BY <1>1 DEF NetInv, ListenInv
<1> HIDE DEF f
<1>5. /\ tcp' \in TcpType /\ tcp'.slot = tcp.slot /\ tcp'.count = tcp.count
      /\ tcp'.listen = f
  BY <1>1, <1>2, <1>3 DEF TcpType
<1>6. /\ epoll' \subseteq Regs /\ epoll \subseteq epoll'
      /\ deaf' \/ <<f, 0>> \in epoll'
      /\ \A r \in epoll' : r \in epoll \/ r = <<f, 0>>
  BY <1>1, <1>2, <1>3 DEF Regs
<1>7. http' \in HttpType /\ http'.pc = "idle" /\ http'.fd = NoFd
  BY <1>1 DEF HttpType, NoChange
<1>8. TypeInv'
  BY <1>1, <1>2, <1>5, <1>6, <1>7 DEF TypeInv
<1>9. HandInv'
  BY <1>1 DEF NetInv, HandInv
<1>10. SlotInv'
  BY <1>1, <1>5, <1>6 DEF NetInv, SlotInv
<1>11. RegInv'
  <2> SUFFICES ASSUME NEW r \in epoll'
               PROVE  \/ kern'[r[1]] = "listen" /\ r[2] = 0
                      \/ kern'[r[1]] \in Conns /\ \E i \in Slots : r[2] = i + 1 /\ tcp'.slot[i] = r[1]
    BY DEF RegInv
  <2>1. CASE r \in epoll
    BY <2>1, <1>1, <1>5 DEF NetInv, RegInv
  <2>2. CASE r = <<f, 0>>
    BY <2>2, <1>1, <1>3
  <2> QED
    BY <2>1, <2>2, <1>6
<1>12. BatchInv'
  BY <1>1, <1>5 DEF NetInv, BatchInv
<1>13. MakingInv'
  BY <1>1, <1>3, <1>7 DEF MakingInv
<1>14. ListenInv'
  BY <1>1, <1>3, <1>4, <1>5, <1>6, <1>7 DEF ListenInv
<1> QED
  BY <1>8, <1>9, <1>10, <1>11, <1>12, <1>13, <1>14 DEF NetInv

LEMMA ListenFailsKeeps == ASSUME NetInv, ListenFails, UNCHANGED deaf PROVE NetInv'
<1> USE ConstantFacts
<1> DEFINE fd == http.fd
<1>1. /\ tcp \in TcpType /\ http \in HttpType /\ fd \in Fds \cup {NoFd}
      /\ task \in TaskType /\ kern \in KernType /\ epoll \subseteq Regs
  BY DEF NetInv, TypeInv, HttpType
<1>2. /\ http.pc \in {"socket", "listen", "nonblock"} /\ http' = NoChange /\ UNCHANGED moves
      /\ tcp' = [tcp EXCEPT !.listen = NoFd]
  BY DEF ListenFails
<1>3. /\ tcp' \in TcpType /\ tcp'.slot = tcp.slot /\ tcp'.count = tcp.count
      /\ tcp'.listen = NoFd
  BY <1>1, <1>2 DEF TcpType
<1>4. fd # NoFd => kern[fd] \in {"socket", "blocking"}
  BY <1>2 DEF NetInv, MakingInv
<1>5. fd # NoFd => /\ kern' = [kern EXCEPT ![fd] = "free"]
                   /\ epoll' = {r \in epoll : r[1] # fd}
  BY OrphanedTask DEF ListenFails
<1>6. fd = NoFd => UNCHANGED <<kern, epoll>>
  BY DEF ListenFails
<1>7. /\ task' \in TaskType /\ task'.hand = task.hand /\ task'.batch = task.batch
      /\ task'.pc = "add" <=> task.pc = "add"
  BY <1>1, OrphanedTask DEF ListenFails
<1>8. \A g \in Fds : g # fd => kern[g] \notin {"socket", "blocking", "listen"}
  BY <1>2 DEF NetInv, MakingInv, ListenInv
<1>9. moves > 0 /\ moves \in Nat
  BY <1>2 DEF NetInv, ListenInv, TypeInv
<1> HIDE DEF fd
<1>10. /\ kern' \in KernType
       /\ fd # NoFd => kern'[fd] = "free"
       /\ \A g \in Fds : g # fd => kern'[g] = kern[g]
  BY <1>1, <1>5, <1>6 DEF KernType
<1>11. epoll' = {r \in epoll : r[1] # fd}
  BY <1>1, <1>5, <1>6 DEF Regs
<1>12. HandInv' /\ SlotInv' /\ RegInv' /\ BatchInv'
  <2>1. fd \in Fds => kern[fd] \notin Conns /\ kern'[fd] \notin Conns
    BY <1>4, <1>10
  <2> QED
    BY <2>1, <1>1, <1>3, <1>7, <1>10, <1>11, ApartKeeps
<1>13. http' \in HttpType /\ http'.pc = "idle" /\ http'.fd = NoFd
  BY <1>2 DEF HttpType, NoChange
<1>14. TypeInv'
  BY <1>1, <1>3, <1>7, <1>9, <1>10, <1>11, <1>13, <1>2 DEF NetInv, TypeInv
<1>15. \A g \in Fds : kern'[g] \notin {"socket", "blocking", "listen"}
  BY <1>8, <1>10
<1>16. MakingInv'
  BY <1>13, <1>15 DEF MakingInv
<1>17. ListenInv'
  BY <1>2, <1>3, <1>9, <1>13, <1>15 DEF ListenInv
<1> QED
  BY <1>12, <1>14, <1>16, <1>17 DEF NetInv

-----------------------------------------------------------------------------
(* The invariant, and what it implies *)

LEMMA NextKeeps == NetInv /\ [Next]_vars => NetInv'
<1> SUFFICES ASSUME NetInv, [Next]_vars PROVE NetInv'
  OBVIOUS
<1>1. ASSUME UNCHANGED <<tcp, kern, epoll, task, http, deaf, moves>> PROVE NetInv'
  BY <1>1 DEF NetInv, TypeInv, HandInv, SlotInv, RegInv, BatchInv, MakingInv, ListenInv
<1>2. CASE UNCHANGED deaf /\ \E c \in Conns : Connect(c) \/ HangUp(c)
  BY <1>2, <1>1 DEF Connect, HangUp
<1>3. CASE UNCHANGED deaf /\ Task
  BY <1>3, WaitKeeps, EventKeeps, AcceptKeeps, ClientAddKeeps, RejectedKeeps,
     ClientEventKeeps DEF Task
<1>4. CASE UNCHANGED deaf /\ \E p \in Ports : Unlisten(p)
  BY <1>4, UnlistenKeeps
<1>5. CASE UNCHANGED deaf /\ Http
  BY <1>5, NewSocketKeeps, StartListeningKeeps, SetNonblockKeeps, ListenFailsKeeps DEF Http
<1>6. CASE Listen
  BY <1>6, ListenKeeps
<1>7. CASE UNCHANGED deaf /\ \E m \in 1 .. MaxClients : Limit(m)
  BY <1>7, LimitKeeps
<1>8. CASE UNCHANGED vars
  BY <1>8, <1>1 DEF vars
<1> QED
  BY <1>2, <1>3, <1>4, <1>5, <1>6, <1>7, <1>8 DEF Next

\* The inductive invariant of the TCP server: slots, descriptors, registrations and
\* the events still to be handled lead to one another (tcp_task, apply_net).
THEOREM NetCorrect == Spec => []NetInv
BY InitNet, NextKeeps, PTL DEF Spec

\* Every accepted descriptor is in exactly one slot and registered with its tag, and
\* an event concerns the client it was reported for, whatever the HTTP thread does.
THEOREM SlotsOwnClientsCorrect == Spec => []SlotsOwnClients
<1>1. NetInv => SlotsOwnClients
  <2> SUFFICES ASSUME NetInv PROVE SlotsOwnClients
    OBVIOUS
  <2> USE ConstantFacts
  <2>1. ASSUME NEW f \in Fds, kern[f] \in Conns, f # task.hand
        PROVE  \E i \in Slots : InSlot(f) = {i} /\ i < tcp.count
                                /\ {r \in epoll : r[1] = f} = {<<f, i + 1>>}
    <3>1. PICK i \in Slots : tcp.slot[i] = f
      BY <2>1 DEF NetInv, SlotInv
    <3>2. f # NoFd
      OBVIOUS
    <3>3. InSlot(f) = {i} /\ i < tcp.count /\ <<f, i + 1>> \in epoll
      BY <3>1, <3>2 DEF NetInv, SlotInv, InSlot
    <3>4. \A r \in epoll : r[1] = f => r = <<f, i + 1>>
      <4> SUFFICES ASSUME NEW r \in epoll, r[1] = f PROVE r = <<f, i + 1>>
        OBVIOUS
      <4>1. PICK j \in Slots : r[2] = j + 1 /\ tcp.slot[j] = f
        BY <2>1 DEF NetInv, RegInv
      <4>2. j = i
        BY <4>1, <3>1, <3>2 DEF NetInv, SlotInv
      <4>3. r \in Regs
        BY DEF NetInv, TypeInv
      <4> QED
        BY <4>1, <4>2, <4>3 DEF Regs
    <3>5. {r \in epoll : r[1] = f} = {<<f, i + 1>>}
      BY <3>3, <3>4
    <3> QED
      BY <3>3, <3>5
  <2>2. ASSUME NEW f \in Fds, kern[f] \notin Conns \/ f = task.hand
        PROVE  InSlot(f) = {}
    BY <2>2 DEF InSlot, NetInv, SlotInv
  <2>3. \A r \in task.batch : r[2] # 0 => tcp.slot[r[2] - 1] = r[1]
    BY DEF NetInv, BatchInv
  <2> QED
    BY <2>1, <2>2, <2>3 DEF SlotsOwnClients
<1> QED
  BY <1>1, NetCorrect, PTL

\* The server listens and is heard, except while the port changes, after that has
\* failed, and when epoll_ctl refuses the listener, which nobody acts upon.
THEOREM ListenerHeardCorrect == Spec => []ListenerHeard
<1>1. NetInv => ListenerHeard
  <2> SUFFICES ASSUME NetInv, http.pc = "idle" PROVE ListenerHeard
    BY DEF ListenerHeard
  <2> USE ConstantFacts
  <2>1. /\ tcp.listen \in Fds \cup {NoFd}
        /\ \A f \in Fds : kern[f] = "listen" => f = tcp.listen
    BY DEF NetInv, TypeInv, TcpType, ListenInv
  <2>2. CASE tcp.listen = NoFd
    BY <2>1, <2>2 DEF NetInv, ListenInv, ListenerHeard, Listening
  <2>3. CASE tcp.listen # NoFd
    <3>1. kern[tcp.listen] = "listen" /\ (deaf \/ <<tcp.listen, 0>> \in epoll)
      BY <2>3 DEF NetInv, ListenInv
    <3>2. {f \in Fds : Listening(f)} = {tcp.listen}
      BY <3>1, <2>1, <2>3 DEF Listening
    <3> QED
      BY <3>1, <3>2, <2>3 DEF ListenerHeard
  <2> QED
    BY <2>2, <2>3
<1> QED
  BY <1>1, NetCorrect, PTL
=============================================================================
