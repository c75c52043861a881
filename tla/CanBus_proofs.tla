---------------------------- MODULE CanBus_proofs ----------------------------
(***************************************************************************)
(* The CAN interfaces: the types, the sockets with the wakeup of the       *)
(* sender, and the frames, each an inductive invariant.                    *)
(***************************************************************************)
EXTENDS CanBus, FiniteSetTheorems, SequenceTheorems, TLAPS

-----------------------------------------------------------------------------
(* The types. *)

\* The values of the variables of CanBus.
Queues == [cell : [Index -> Nat], head : Index, tail : Index, used : Nat, free : Nat,
           pusher : {"none", "http", "send"}]
Cans == [count : 0 .. NIfaces, sock : [Ifaces -> Fds \cup {Closed}],
         txq : [Ifaces -> Queues]]
Epolls == [recv : SUBSET (Fds \X Ifaces), send : SUBSET (Fds \X Ifaces), efd : BOOLEAN]
Https == [pc : {"idle", "store", "signal", "apply"}, i : 0 .. NIfaces, frame : Nat]
Sends == [pc : {"wait", "lock", "scan", "pop", "read", "write", "store", "update"},
          i : 0 .. NIfaces, limit : Nat, frame : Nat]
Hists == [of : Seq(Ifaces), sent : Seq(Nat), back : SUBSET Nat, lost : SUBSET Nat,
          configs : Nat, errors : Nat, failed : BOOLEAN, deaf : SUBSET Ifaces,
          swapped : SUBSET Ifaces]

\* The type of each variable.
BusType ==
  /\ can \in Cans
  /\ kern \in [Fds -> 0 .. NIfaces]
  /\ epoll \in Epolls
  /\ mutex \in {"none", "http", "send"}
  /\ http \in Https
  /\ send \in Sends
  /\ hist \in Hists

\* The steps of can_send_task in which it has an interface in hand.
AtWork == {"pop", "read", "write", "store"}

\* A thread that works on the interfaces holds the mutex, and works on one there is.
Working ==
  /\ mutex = "send" <=> send.pc \in AtWork \cup {"scan", "update"}
  /\ mutex = "http" <=> http.pc = "apply"
  /\ http.pc = "store" => http.i \in Known
  /\ send.pc \in AtWork => send.i \in Known /\ can.sock[send.i] # Closed
  /\ \A i \in Ifaces \ Known : can.sock[i] = Closed
  /\ \A r \in epoll.recv : r[2] \in Known

\* The first inductive invariant.
TypeInv == BusType /\ Working

\* What the constants are.
LEMMA NumberFacts ==
  /\ NIfaces \in Nat \ {0} /\ NInit \in Nat /\ NInit <= NIfaces
  /\ Cap \in Nat \ {0}
  /\ Fds \subseteq Nat \ {0} /\ Closed \notin Fds /\ NoFrame = 0
  /\ Free \notin Ifaces /\ Free \in 0 .. NIfaces /\ Ifaces \subseteq 0 .. NIfaces
  /\ 0 \in Ifaces /\ 0 \in Index
<1>1. /\ NIfaces \in Nat \ {0} /\ NInit \in 0 .. NIfaces /\ Cap \in Nat \ {0}
      /\ Fds \subseteq Nat \ {0}
  BY CanAssumption, CapAssumption
<1> QED
  BY <1>1 DEF Closed, NoFrame, Free, Ifaces, Index

\* The interfaces that are known are interfaces.
LEMMA KnownFacts ==
  ASSUME BusType
  PROVE  Known \subseteq Ifaces /\ \A i \in Known : i + 1 \in 0 .. NIfaces
<1>1. can.count \in 0 .. NIfaces /\ NIfaces \in Nat
  BY NumberFacts DEF BusType, Cans
<1> QED
  BY <1>1 DEF Known, Ifaces

\* The index after the last cell is the first.
LEMMA AdvancedType ==
  ASSUME NEW k \in Index
  PROVE  Advanced(k) \in Index /\ Advanced(k) = IF k + 1 = Cap THEN 0 ELSE k + 1
<1>1. Cap \in Nat \ {0} /\ k \in Nat /\ k < Cap
  BY NumberFacts DEF Index
<1>2. (k + 1) % Cap = IF k + 1 = Cap THEN 0 ELSE k + 1
  BY <1>1
<1> QED
  BY <1>1, <1>2 DEF Advanced, Index

\* A queue with other values in some fields is a queue.
LEMMA ShapeClaimed ==
  ASSUME NEW q \in Queues, NEW r \in Nat, NEW p \in {"none", "http", "send"}
  PROVE  [q EXCEPT !.pusher = p, !.free = r] \in Queues
BY DEF Queues

LEMMA ShapeStored ==
  ASSUME NEW q \in Queues, NEW c \in [Index -> Nat], NEW h \in Index, NEW u \in Nat
  PROVE  [q EXCEPT !.cell = c, !.head = h, !.used = u, !.pusher = "none"] \in Queues
BY DEF Queues

LEMMA ShapeReserved ==
  ASSUME NEW q \in Queues, NEW u \in Nat
  PROVE  [q EXCEPT !.used = u] \in Queues
BY DEF Queues

LEMMA ShapeReleased ==
  ASSUME NEW q \in Queues, NEW t \in Index, NEW u \in Nat
  PROVE  [q EXCEPT !.tail = t, !.free = u] \in Queues
BY DEF Queues

\* What the steps of a push and of a pop make of a queue.
LEMMA QueueClaimed ==
  ASSUME NEW q \in Queues, ~Refuses(q), NEW who \in {"http", "send"}
  PROVE  /\ Claimed(q, who) \in Queues
         /\ Claimed(q, who).cell = q.cell /\ Claimed(q, who).head = q.head
         /\ Claimed(q, who).tail = q.tail /\ Claimed(q, who).used = q.used
         /\ Claimed(q, who).free = q.free - 1 /\ Claimed(q, who).pusher = who
<1>1. q.free \in Nat /\ q.free # 0
  BY DEF Refuses, Queues
<1>2. q.free - 1 \in Nat
  BY <1>1
<1>3. Claimed(q, who) \in Queues
  BY <1>2, ShapeClaimed DEF Claimed
<1>4. /\ Claimed(q, who).cell = q.cell /\ Claimed(q, who).head = q.head
      /\ Claimed(q, who).tail = q.tail /\ Claimed(q, who).used = q.used
      /\ Claimed(q, who).free = q.free - 1 /\ Claimed(q, who).pusher = who
  BY DEF Claimed, Queues
<1> QED
  BY <1>3, <1>4

LEMMA QueueStored ==
  ASSUME NEW q \in Queues, NEW f \in Nat
  PROVE  /\ Stored(q, f) \in Queues
         /\ Stored(q, f).cell = [q.cell EXCEPT ![q.head] = f]
         /\ Stored(q, f).head = Advanced(q.head)
         /\ Stored(q, f).tail = q.tail /\ Stored(q, f).used = q.used + 1
         /\ Stored(q, f).free = q.free /\ Stored(q, f).pusher = "none"
<1>1. q.used \in Nat /\ q.cell \in [Index -> Nat] /\ q.head \in Index
  BY DEF Queues
<1>2. q.used + 1 \in Nat /\ [q.cell EXCEPT ![q.head] = f] \in [Index -> Nat]
      /\ Advanced(q.head) \in Index
  BY <1>1, AdvancedType
<1>3. Stored(q, f) \in Queues
  BY <1>2, ShapeStored DEF Stored
<1>4. /\ Stored(q, f).cell = [q.cell EXCEPT ![q.head] = f]
      /\ Stored(q, f).head = Advanced(q.head)
      /\ Stored(q, f).tail = q.tail /\ Stored(q, f).used = q.used + 1
      /\ Stored(q, f).free = q.free /\ Stored(q, f).pusher = "none"
  BY DEF Stored, Queues
<1> QED
  BY <1>3, <1>4

LEMMA QueueReserved ==
  ASSUME NEW q \in Queues, q.used > 0
  PROVE  /\ Reserved(q) \in Queues
         /\ Reserved(q).cell = q.cell /\ Reserved(q).head = q.head
         /\ Reserved(q).tail = q.tail /\ Reserved(q).used = q.used - 1
         /\ Reserved(q).free = q.free /\ Reserved(q).pusher = q.pusher
<1>1. q.used \in Nat
  BY DEF Queues
<1>2. q.used - 1 \in Nat
  BY <1>1
<1>3. Reserved(q) \in Queues
  BY <1>2, ShapeReserved DEF Reserved
<1>4. /\ Reserved(q).cell = q.cell /\ Reserved(q).head = q.head
      /\ Reserved(q).tail = q.tail /\ Reserved(q).used = q.used - 1
      /\ Reserved(q).free = q.free /\ Reserved(q).pusher = q.pusher
  BY DEF Reserved, Queues
<1> QED
  BY <1>3, <1>4

LEMMA QueueReleased ==
  ASSUME NEW q \in Queues
  PROVE  /\ Released(q) \in Queues /\ Front(q) \in Nat
         /\ Released(q).cell = q.cell /\ Released(q).head = q.head
         /\ Released(q).tail = Advanced(q.tail) /\ Released(q).used = q.used
         /\ Released(q).free = q.free + 1 /\ Released(q).pusher = q.pusher
<1>1. q.free \in Nat /\ q.tail \in Index /\ q.cell \in [Index -> Nat]
  BY DEF Queues
<1>2. q.free + 1 \in Nat /\ Advanced(q.tail) \in Index
  BY <1>1, AdvancedType
<1>3. Released(q) \in Queues
  BY <1>2, ShapeReleased DEF Released
<1>4. Front(q) \in Nat
  BY <1>1 DEF Front
<1>5. /\ Released(q).cell = q.cell /\ Released(q).head = q.head
      /\ Released(q).tail = Advanced(q.tail) /\ Released(q).used = q.used
      /\ Released(q).free = q.free + 1 /\ Released(q).pusher = q.pusher
  BY DEF Released, Queues
<1> QED
  BY <1>3, <1>4, <1>5

\* The other records, with other values in some fields.
LEMMA CanWithQueue ==
  ASSUME NEW c \in Cans, NEW i \in Ifaces, NEW q \in Queues
  PROVE  [c EXCEPT !.txq[i] = q] \in Cans
BY DEF Cans

LEMMA CanWithSock ==
  ASSUME NEW c \in Cans, NEW i \in Ifaces, NEW f \in Fds
  PROVE  [c EXCEPT !.sock[i] = f] \in Cans
BY DEF Cans

LEMMA EpollRegs ==
  ASSUME NEW e \in Epolls, NEW r \in SUBSET (Fds \X Ifaces), NEW s \in SUBSET (Fds \X Ifaces)
  PROVE  /\ [e EXCEPT !.recv = r] \in Epolls
         /\ [e EXCEPT !.send = s] \in Epolls
         /\ [e EXCEPT !.recv = r, !.send = s] \in Epolls
<1>1. [e EXCEPT !.recv = r] \in Epolls
  BY DEF Epolls
<1>2. [e EXCEPT !.send = s] \in Epolls
  BY DEF Epolls
<1>3. [e EXCEPT !.recv = r, !.send = s] \in Epolls
  BY DEF Epolls
<1> QED
  BY <1>1, <1>2, <1>3

LEMMA EpollEfd ==
  ASSUME NEW e \in Epolls, NEW b \in BOOLEAN
  PROVE  [e EXCEPT !.efd = b] \in Epolls
BY DEF Epolls

\* Registrations are of descriptors and interfaces.
LEMMA Registered ==
  ASSUME NEW regs \in SUBSET (Fds \X Ifaces), NEW f, NEW i \in Ifaces, NEW k, NEW q
  PROVE  /\ Without(regs, f) \in SUBSET (Fds \X Ifaces)
         /\ WithFd(regs, k, f, i) \in SUBSET (Fds \X Ifaces)
         /\ UpdateTx(regs, k, f, q, i) \in SUBSET (Fds \X Ifaces)
<1>1. Without(regs, f) \in SUBSET (Fds \X Ifaces)
  BY DEF Without
<1>2. WithFd(regs, k, f, i) \in SUBSET (Fds \X Ifaces)
  BY <1>1 DEF WithFd
<1> QED
  BY <1>1, <1>2 DEF UpdateTx

\* The record of what happened, a frame or an error more.
LEMMA HistFrames ==
  ASSUME NEW h \in Hists, NEW f \in Nat, NEW i \in Ifaces
  PROVE  /\ [h EXCEPT !.of = Append(@, i)] \in Hists
         /\ [h EXCEPT !.sent = Append(@, f)] \in Hists
         /\ [h EXCEPT !.lost = @ \cup {f}] \in Hists
         /\ [h EXCEPT !.back = @ \cup {f}] \in Hists
<1>1. Append(h.of, i) \in Seq(Ifaces) /\ Append(h.sent, f) \in Seq(Nat)
      /\ h.lost \cup {f} \in SUBSET Nat /\ h.back \cup {f} \in SUBSET Nat
  BY DEF Hists
<1> HIDE DEF Ifaces
<1>2. [h EXCEPT !.of = Append(@, i)] \in Hists
  BY <1>1 DEF Hists
<1>3. [h EXCEPT !.sent = Append(@, f)] \in Hists
  BY <1>1 DEF Hists
<1>4. [h EXCEPT !.lost = @ \cup {f}] \in Hists
  BY <1>1 DEF Hists
<1>5. [h EXCEPT !.back = @ \cup {f}] \in Hists
  BY <1>1 DEF Hists
<1> QED
  BY <1>2, <1>3, <1>4, <1>5

LEMMA HistSockets ==
  ASSUME NEW h \in Hists, NEW d \in SUBSET Ifaces, NEW s \in SUBSET Ifaces,
         NEW n \in Nat
  PROVE  /\ [h EXCEPT !.configs = n] \in Hists
         /\ [h EXCEPT !.deaf = d] \in Hists
         /\ [h EXCEPT !.swapped = s] \in Hists
         /\ [h EXCEPT !.deaf = d, !.swapped = s] \in Hists
<1>1. [h EXCEPT !.configs = n] \in Hists
  BY DEF Hists
<1>2. [h EXCEPT !.deaf = d] \in Hists
  BY DEF Hists
<1>3. [h EXCEPT !.swapped = s] \in Hists
  BY DEF Hists
<1>4. [h EXCEPT !.deaf = d, !.swapped = s] \in Hists
  BY DEF Hists
<1> QED
  BY <1>1, <1>2, <1>3, <1>4

LEMMA HistErrors ==
  ASSUME NEW h \in Hists, NEW d \in SUBSET Ifaces, NEW s \in SUBSET Ifaces,
         NEW n \in Nat
  PROVE  /\ [h EXCEPT !.errors = n, !.deaf = d, !.swapped = s] \in Hists
         /\ [h EXCEPT !.errors = n, !.failed = TRUE] \in Hists
<1>1. [h EXCEPT !.errors = n, !.deaf = d, !.swapped = s] \in Hists
  BY DEF Hists
<1>2. [h EXCEPT !.errors = n, !.failed = TRUE] \in Hists
  BY DEF Hists
<1> QED
  BY <1>1, <1>2

\* The fields of the threads' records.
LEMMA Typed ==
  ASSUME BusType
  PROVE  /\ can.count \in 0 .. NIfaces /\ can.sock \in [Ifaces -> Fds \cup {Closed}]
         /\ can.txq \in [Ifaces -> Queues]
         /\ epoll.recv \in SUBSET (Fds \X Ifaces) /\ epoll.send \in SUBSET (Fds \X Ifaces)
         /\ epoll.efd \in BOOLEAN
         /\ http.i \in 0 .. NIfaces /\ http.frame \in Nat
         /\ http.pc \in {"idle", "store", "signal", "apply"}
         /\ send.i \in 0 .. NIfaces /\ send.limit \in Nat /\ send.frame \in Nat
         /\ send.pc \in {"wait", "lock", "scan", "pop", "read", "write", "store", "update"}
         /\ hist.of \in Seq(Ifaces) /\ hist.sent \in Seq(Nat)
         /\ hist.back \in SUBSET Nat /\ hist.lost \in SUBSET Nat
         /\ hist.configs \in Nat /\ hist.errors \in Nat /\ hist.failed \in BOOLEAN
         /\ hist.deaf \in SUBSET Ifaces /\ hist.swapped \in SUBSET Ifaces
<1>1. /\ can.count \in 0 .. NIfaces /\ can.sock \in [Ifaces -> Fds \cup {Closed}]
      /\ can.txq \in [Ifaces -> Queues]
  BY DEF BusType, Cans
<1>2. /\ epoll.recv \in SUBSET (Fds \X Ifaces) /\ epoll.send \in SUBSET (Fds \X Ifaces)
      /\ epoll.efd \in BOOLEAN
  BY DEF BusType, Epolls
<1>3. /\ http.i \in 0 .. NIfaces /\ http.frame \in Nat
      /\ http.pc \in {"idle", "store", "signal", "apply"}
  BY DEF BusType, Https
<1>4. /\ send.i \in 0 .. NIfaces /\ send.limit \in Nat /\ send.frame \in Nat
      /\ send.pc \in {"wait", "lock", "scan", "pop", "read", "write", "store", "update"}
  BY DEF BusType, Sends
<1>5. /\ hist.of \in Seq(Ifaces) /\ hist.sent \in Seq(Nat)
      /\ hist.back \in SUBSET Nat /\ hist.lost \in SUBSET Nat
      /\ hist.configs \in Nat /\ hist.errors \in Nat /\ hist.failed \in BOOLEAN
      /\ hist.deaf \in SUBSET Ifaces /\ hist.swapped \in SUBSET Ifaces
  BY DEF BusType, Hists
<1> QED
  BY <1>1, <1>2, <1>3, <1>4, <1>5

\* Other values in the fields of a thread's record.
LEMMA SendFields ==
  ASSUME NEW s \in Sends, NEW i \in 0 .. NIfaces, NEW l \in Nat,
         NEW p \in {"wait", "lock", "scan", "pop", "read", "write", "store", "update"}
  PROVE  /\ [s EXCEPT !.pc = p] \in Sends
         /\ [s EXCEPT !.i = i] \in Sends
         /\ [s EXCEPT !.pc = p, !.i = i] \in Sends
         /\ [s EXCEPT !.pc = p, !.limit = l] \in Sends
         /\ [s EXCEPT !.pc = p, !.frame = l] \in Sends
<1>1. [s EXCEPT !.pc = p] \in Sends
  BY DEF Sends
<1>2. [s EXCEPT !.i = i] \in Sends
  BY DEF Sends
<1>3. [s EXCEPT !.pc = p, !.i = i] \in Sends
  BY DEF Sends
<1>4. [s EXCEPT !.pc = p, !.limit = l] \in Sends
  BY DEF Sends
<1>5. [s EXCEPT !.pc = p, !.frame = l] \in Sends
  BY DEF Sends
<1> QED
  BY <1>1, <1>2, <1>3, <1>4, <1>5

LEMMA SendGoesOn ==
  ASSUME NEW s \in Sends, NEW i \in 0 .. NIfaces, NEW l \in Nat
  PROVE  [s EXCEPT !.pc = "scan", !.i = i, !.frame = l] \in Sends
BY DEF Sends

LEMMA HttpFields ==
  ASSUME NEW h \in Https, NEW i \in 0 .. NIfaces, NEW f \in Nat,
         NEW p \in {"idle", "store", "signal", "apply"}
  PROVE  /\ [h EXCEPT !.i = i] \in Https
         /\ [h EXCEPT !.pc = p, !.i = i] \in Https
         /\ [h EXCEPT !.pc = p, !.frame = f] \in Https
         /\ [pc |-> p, i |-> i, frame |-> f] \in Https
<1>1. [h EXCEPT !.i = i] \in Https
  BY DEF Https
<1>2. [h EXCEPT !.pc = p, !.i = i] \in Https
  BY DEF Https
<1>3. [h EXCEPT !.pc = p, !.frame = f] \in Https
  BY DEF Https
<1>4. [pc |-> p, i |-> i, frame |-> f] \in Https
  BY DEF Https
<1> QED
  BY <1>1, <1>2, <1>3, <1>4

\* More interfaces.
LEMMA CanCount ==
  ASSUME NEW c \in Cans, NEW n \in 0 .. NIfaces
  PROVE  [c EXCEPT !.count = n] \in Cans
BY DEF Cans

\* The steps of the HTTP thread keep the types.
LEMMA NextFrameType ==
  ASSUME BusType
  PROVE  NextFrame \in Nat \ {0} /\ NextFrame = Len(hist.of) + 1
<1>1. Len(hist.of) \in Nat
  BY Typed
<1> QED
  BY <1>1 DEF NextFrame

LEMMA TxFrameType ==
  ASSUME TypeInv, NEW i \in Ifaces, TxFrame(i)
  PROVE  TypeInv'
<1>1. BusType /\ can.txq[i] \in Queues /\ ~Refuses(can.txq[i]) /\ i \in Known
  BY Typed DEF TypeInv, TxFrame
<1>2. can' \in Cans
  BY <1>1, QueueClaimed, CanWithQueue DEF BusType, TxFrame
<1>3. http' \in Https
  BY <1>1, HttpFields, NextFrameType, NumberFacts DEF BusType, TxFrame
<1>4. hist' \in Hists
  BY <1>1, HistFrames DEF BusType, TxFrame
<1>5. BusType'
  BY <1>1, <1>2, <1>3, <1>4 DEF BusType, TxFrame
<1>6. can.count' = can.count /\ can.sock' = can.sock
  BY DEF BusType, Cans, TxFrame, TypeInv
<1>7. Working'
  BY <1>1, <1>6 DEF Working, TypeInv, TxFrame, Known
<1> QED
  BY <1>5, <1>7 DEF TypeInv

LEMMA TxStoreType ==
  ASSUME TypeInv, TxStore
  PROVE  TypeInv'
<1>1. BusType /\ http.i \in Known /\ http.i \in Ifaces /\ can.txq[http.i] \in Queues
      /\ http.frame \in Nat
  BY Typed, KnownFacts DEF TypeInv, Working, TxStore
<1>2. can' \in Cans
  BY <1>1, QueueStored, CanWithQueue DEF BusType, TxStore
<1>3. http' \in Https
  BY <1>1, HttpFields, NumberFacts DEF BusType, TxStore
<1>4. BusType'
  BY <1>1, <1>2, <1>3 DEF BusType, TxStore
<1>5. can.count' = can.count /\ can.sock' = can.sock
  BY DEF BusType, Cans, TxStore, TypeInv
<1>6. http'.pc = "signal"
  BY <1>1 DEF TxStore, BusType, Https
<1>7. Working'
  BY <1>1, <1>5, <1>6 DEF Working, TypeInv, TxStore, Known
<1> QED
  BY <1>4, <1>7 DEF TypeInv

\* A signal changes no registration.
LEMMA EfdOnly ==
  ASSUME NEW e \in Epolls, NEW b
  PROVE  /\ [e EXCEPT !.efd = b].recv = e.recv
         /\ [e EXCEPT !.efd = b].send = e.send
         /\ [e EXCEPT !.efd = b].efd = b
BY DEF Epolls

LEMMA TxSignalType ==
  ASSUME TypeInv, TxSignal
  PROVE  TypeInv'
<1>1. epoll' \in Epolls
  BY EpollEfd DEF TypeInv, BusType, TxSignal
<1>2. http' \in Https
  BY HttpFields, NumberFacts DEF TypeInv, BusType, TxSignal
<1>3. BusType'
  BY <1>1, <1>2 DEF TypeInv, BusType, TxSignal
<1>4. epoll'.recv = epoll.recv
  BY EfdOnly DEF TypeInv, BusType, TxSignal
<1>5. Working'
  BY <1>4 DEF Working, TypeInv, TxSignal, Known
<1> QED
  BY <1>3, <1>5 DEF TypeInv

\* The reconfiguration begins.
LEMMA ConfigBeginType ==
  ASSUME TypeInv, NEW new, ConfigBegin(new)
  PROVE  TypeInv'
<1>1. BusType /\ can.count \in 0 .. NIfaces /\ hist.configs \in Nat
  BY Typed DEF TypeInv
<1>2. new \in Nat /\ can.count + new \in 0 .. NIfaces
  BY <1>1, NumberFacts DEF ConfigBegin
<1>3. can' \in Cans
  BY <1>1, <1>2, CanCount DEF BusType, ConfigBegin
<1>4. http' \in Https
  BY <1>1, HttpFields, NumberFacts DEF BusType, ConfigBegin
<1>5. hist' \in Hists
  <2>1. hist.configs + 1 \in Nat
    BY <1>1
  <2> QED
    BY <1>1, <2>1, HistSockets DEF BusType, ConfigBegin
<1>6. BusType'
  BY <1>1, <1>3, <1>4, <1>5 DEF BusType, ConfigBegin
<1>7. can'.sock = can.sock /\ can'.count = can.count + new /\ http'.pc = "apply"
  BY <1>1 DEF BusType, Cans, Https, ConfigBegin
<1>8. Known \subseteq Known'
  BY <1>1, <1>2, <1>7 DEF Known
<1>9. Working'
  BY <1>7, <1>8 DEF Working, TypeInv, ConfigBegin, AtWork
<1> QED
  BY <1>6, <1>9 DEF TypeInv

\* Only the interface that is registered is added to the registrations.
LEMMA WithoutFor ==
  ASSUME NEW regs, NEW f
  PROVE  \A r \in Without(regs, f) : r \in regs
BY DEF Without

LEMMA WithFdFor ==
  ASSUME NEW regs, NEW k, NEW f, NEW i
  PROVE  \A r \in WithFd(regs, k, f, i) : r \in regs \/ r[2] = i
BY WithoutFor DEF WithFd

LEMMA ReplacedFor ==
  ASSUME NEW regs, NEW g, NEW k, NEW f, NEW i
  PROVE  \A r \in WithFd(Without(regs, g), k, f, i) : r \in regs \/ r[2] = i
BY WithoutFor, WithFdFor

\* A step of the configuration of one interface.
LEMMA ApplyStep ==
  ASSUME TypeInv, http.pc = "apply", http.i \in Known, http' = [http EXCEPT !.i = @ + 1],
         can'.count = can.count, can'.sock = can.sock \/ \E f \in Fds : can'.sock = [can.sock EXCEPT ![http.i] = f],
         \A r \in epoll'.recv : r \in epoll.recv \/ r[2] = http.i,
         UNCHANGED <<mutex, send>>
  PROVE  /\ http' \in Https /\ http.i \in Ifaces /\ Working'
         /\ http'.pc = "apply"
<1>1. BusType /\ can.sock \in [Ifaces -> Fds \cup {Closed}]
  BY Typed DEF TypeInv
<1>2. http.i \in Ifaces /\ http.i + 1 \in 0 .. NIfaces
  BY <1>1, KnownFacts
<1>3. http' \in Https
  BY <1>1, <1>2, HttpFields DEF BusType
<1>4. http'.pc = "apply"
  BY <1>1 DEF BusType, Https
<1>5. \A i \in Ifaces : can'.sock[i] = can.sock[i] \/ (i = http.i /\ can'.sock[i] \in Fds)
  BY <1>1, <1>2
<1>6. Known' = Known
  BY DEF Known
<1>7. mutex = "http" /\ send.pc \notin AtWork
  BY DEF TypeInv, Working, AtWork
<1>8. Working'
  BY <1>4, <1>5, <1>6, <1>7, NumberFacts DEF Working, TypeInv, AtWork
<1> QED
  BY <1>2, <1>3, <1>4, <1>8

\* The three outcomes of the configuration of an interface, and its end.
LEMMA ConfigureFailsType ==
  ASSUME TypeInv, ConfigureFails
  PROVE  TypeInv'
<1>1. BusType /\ epoll.recv \in SUBSET (Fds \X Ifaces) /\ hist.deaf \in SUBSET Ifaces
  BY Typed DEF TypeInv
<1>2. http' \in Https /\ http.i \in Ifaces /\ Working'
  <2>1. epoll'.recv = Without(epoll.recv, can.sock[http.i])
    BY <1>1 DEF ConfigureFails, BusType, Epolls
  <2> QED
    BY <2>1, ApplyStep, WithoutFor DEF ConfigureFails
<1>3. epoll' \in Epolls
  BY <1>1, <1>2, EpollRegs, Registered DEF BusType, ConfigureFails
<1>4. hist' \in Hists
  <2> DEFINE d == IF can.sock[http.i] # Closed THEN hist.deaf \cup {http.i} ELSE hist.deaf
  <2>1. d \in SUBSET Ifaces
    BY <1>1, <1>2
  <2>2. hist' = [hist EXCEPT !.deaf = d]
    BY DEF ConfigureFails
  <2> HIDE DEF d
  <2> QED
    BY <1>1, <2>1, <2>2, HistSockets DEF BusType
<1>5. BusType'
  BY <1>1, <1>2, <1>3, <1>4 DEF BusType, ConfigureFails
<1> QED
  BY <1>2, <1>5 DEF TypeInv

LEMMA OpenFailsType ==
  ASSUME TypeInv, OpenFails
  PROVE  TypeInv'
<1>1. BusType /\ epoll.recv \in SUBSET (Fds \X Ifaces) /\ hist.deaf \in SUBSET Ifaces
  BY Typed DEF TypeInv
<1>2. http' \in Https /\ http.i \in Ifaces /\ Working'
  <2>1. epoll'.recv = WithFd(epoll.recv, kern, can.sock[http.i], http.i)
    BY <1>1 DEF OpenFails, BusType, Epolls
  <2> QED
    BY <2>1, ApplyStep, WithFdFor DEF OpenFails
<1>3. epoll' \in Epolls
  BY <1>1, <1>2, EpollRegs, Registered DEF BusType, OpenFails
<1>4. hist' \in Hists
  <2>1. hist.deaf \ {http.i} \in SUBSET Ifaces
    BY <1>1
  <2> QED
    BY <1>1, <2>1, HistSockets DEF BusType, OpenFails
<1>5. BusType'
  BY <1>1, <1>2, <1>3, <1>4 DEF BusType, OpenFails
<1> QED
  BY <1>2, <1>5 DEF TypeInv

LEMMA AppliedType ==
  ASSUME TypeInv, Applied
  PROVE  TypeInv'
<1> DEFINE i == http.i
           old == can.sock[i]
<1>1. BusType /\ epoll.recv \in SUBSET (Fds \X Ifaces) /\ epoll.send \in SUBSET (Fds \X Ifaces)
      /\ hist.deaf \in SUBSET Ifaces /\ hist.swapped \in SUBSET Ifaces
  BY Typed DEF TypeInv
<1>2. PICK new \in Fds :
        LET k == [f \in Fds |-> IF f = old THEN Free ELSE IF f = new THEN i ELSE kern[f]]
        IN /\ kern' = k
           /\ can' = [can EXCEPT !.sock[i] = new]
           /\ epoll' = [epoll EXCEPT !.recv = WithFd(Without(@, old), k, new, i),
                                     !.send = Without(@, old)]
           /\ hist' = [hist EXCEPT !.deaf = @ \ {i}, !.swapped = @ \cup {i}]
  BY DEF Applied
<1> DEFINE k == [f \in Fds |-> IF f = old THEN Free ELSE IF f = new THEN i ELSE kern[f]]
<1>3. can'.count = can.count /\ can'.sock = [can.sock EXCEPT ![i] = new]
  BY <1>1, <1>2 DEF BusType, Cans
<1>4. http' \in Https /\ i \in Ifaces /\ Working'
  <2>1. epoll'.recv = WithFd(Without(epoll.recv, old), k, new, i)
    BY <1>1, <1>2 DEF BusType, Epolls
  <2>2. \A r \in epoll'.recv : r \in epoll.recv \/ r[2] = i
    <3> HIDE DEF k, old, i
    <3> QED
      BY <2>1, ReplacedFor
  <2> QED
    BY <1>3, <2>2, ApplyStep DEF Applied
<1>5. can' \in Cans
  BY <1>1, <1>2, <1>4, CanWithSock DEF BusType
<1>6. kern' \in [Fds -> 0 .. NIfaces]
  BY <1>1, <1>2, <1>4, NumberFacts DEF BusType
<1>7. epoll' \in Epolls
  <2> DEFINE r == WithFd(Without(epoll.recv, old), k, new, i)
             s == Without(epoll.send, old)
  <2>1. epoll' = [epoll EXCEPT !.recv = r, !.send = s]
    BY <1>2
  <2>2. r \in SUBSET (Fds \X Ifaces) /\ s \in SUBSET (Fds \X Ifaces)
    <3> HIDE DEF k, old, i
    <3> QED
      BY <1>1, <1>4, Registered
  <2> HIDE DEF r, s
  <2> QED
    BY <1>1, <2>1, <2>2, EpollRegs DEF BusType
<1>8. hist' \in Hists
  <2>1. hist.deaf \ {i} \in SUBSET Ifaces /\ hist.swapped \cup {i} \in SUBSET Ifaces
    BY <1>1, <1>4
  <2>2. hist' = [hist EXCEPT !.deaf = hist.deaf \ {i}, !.swapped = hist.swapped \cup {i}]
    BY <1>2
  <2> QED
    BY <1>1, <2>1, <2>2, HistSockets DEF BusType
<1>9. BusType'
  BY <1>1, <1>4, <1>5, <1>6, <1>7, <1>8 DEF BusType, Applied
<1> QED
  BY <1>4, <1>9 DEF TypeInv

LEMMA ConfigEndType ==
  ASSUME TypeInv, ConfigEnd
  PROVE  TypeInv'
<1>1. http' \in Https
  BY HttpFields, NumberFacts DEF TypeInv, BusType, ConfigEnd
<1>2. BusType'
  BY <1>1 DEF TypeInv, BusType, ConfigEnd
<1>3. Working'
  BY DEF Working, TypeInv, ConfigEnd, Known, AtWork
<1> QED
  BY <1>2, <1>3 DEF TypeInv

\* Where the sender is after the steps that move no frame; they keep the types.
LEMMA SendSteps ==
  ASSUME TypeInv
  PROVE  /\ SendWake => send' \in Sends /\ send'.pc = "lock"
         /\ SendLock => send' \in Sends /\ send'.pc = "scan"
         /\ SendScanned => send' \in Sends /\ send'.pc = "update"
         /\ SendUpdate => send' \in Sends /\ send'.pc = "update"
         /\ SendUnlock => send' \in Sends /\ send'.pc = "wait"
<1>1. send \in Sends /\ send.i \in 0 .. NIfaces /\ 0 \in 0 .. NIfaces /\ 0 \in Nat
  BY Typed, NumberFacts DEF TypeInv, BusType
<1>2. SendWake => send' \in Sends /\ send'.pc = "lock"
  <2> SUFFICES ASSUME SendWake PROVE send' \in Sends /\ send'.pc = "lock"
    OBVIOUS
  <2>1. send' \in Sends
    BY <1>1, SendFields DEF SendWake
  <2> QED
    BY <1>1, <2>1 DEF SendWake, Sends
<1>3. SendLock => send' \in Sends /\ send'.pc = "scan"
  <2> SUFFICES ASSUME SendLock PROVE send' \in Sends /\ send'.pc = "scan"
    OBVIOUS
  <2>1. send' \in Sends
    BY <1>1, SendFields DEF SendLock
  <2> QED
    BY <1>1, <2>1 DEF SendLock, Sends
<1>4. SendScanned => send' \in Sends /\ send'.pc = "update"
  <2> SUFFICES ASSUME SendScanned PROVE send' \in Sends /\ send'.pc = "update"
    OBVIOUS
  <2>1. send' \in Sends
    BY <1>1, SendFields DEF SendScanned
  <2> QED
    BY <1>1, <2>1 DEF SendScanned, Sends
<1>5. SendUpdate => send' \in Sends /\ send'.pc = "update"
  <2> SUFFICES ASSUME SendUpdate PROVE send' \in Sends /\ send'.pc = "update"
    OBVIOUS
  <2>1. send.i + 1 \in 0 .. NIfaces
    BY KnownFacts DEF SendUpdate, TypeInv
  <2>2. send' \in Sends
    BY <1>1, <2>1, SendFields DEF SendUpdate
  <2> QED
    BY <1>1, <2>2 DEF SendUpdate, Sends
<1>6. SendUnlock => send' \in Sends /\ send'.pc = "wait"
  BY <1>1, NumberFacts DEF SendUnlock, Sends
<1> QED
  BY <1>2, <1>3, <1>4, <1>5, <1>6

LEMMA SendWakeType ==
  ASSUME TypeInv, SendWake
  PROVE  TypeInv'
<1>1. send' \in Sends /\ send'.pc = "lock"
  BY SendSteps
<1>2. epoll' \in Epolls
  BY EpollEfd DEF TypeInv, BusType, SendWake
<1>3. BusType'
  BY <1>1, <1>2 DEF TypeInv, BusType, SendWake
<1>4. epoll'.recv = epoll.recv
  <2>1. epoll \in Epolls
    BY DEF TypeInv, BusType
  <2>2. epoll' = [epoll EXCEPT !.efd = FALSE] \/ epoll' = epoll
    BY DEF SendWake
  <2> QED
    BY <2>1, <2>2 DEF Epolls
<1>5. Working'
  BY <1>1, <1>4 DEF Working, TypeInv, SendWake, Known, AtWork
<1> QED
  BY <1>3, <1>5 DEF TypeInv

LEMMA SendLockType ==
  ASSUME TypeInv, SendLock
  PROVE  TypeInv'
<1>1. send' \in Sends /\ send'.pc = "scan"
  BY SendSteps
<1>2. BusType'
  BY <1>1 DEF TypeInv, BusType, SendLock
<1>3. Working'
  BY <1>1 DEF Working, TypeInv, SendLock, Known, AtWork
<1> QED
  BY <1>2, <1>3 DEF TypeInv

LEMMA SendScannedType ==
  ASSUME TypeInv, SendScanned
  PROVE  TypeInv'
<1>1. send' \in Sends /\ send'.pc = "update"
  BY SendSteps
<1>2. BusType'
  BY <1>1 DEF TypeInv, BusType, SendScanned
<1>3. Working'
  BY <1>1 DEF Working, TypeInv, SendScanned, Known, AtWork
<1> QED
  BY <1>2, <1>3 DEF TypeInv

LEMMA SendUpdateType ==
  ASSUME TypeInv, SendUpdate
  PROVE  TypeInv'
<1>1. send' \in Sends /\ send'.pc = "update" /\ send.i \in Ifaces
  BY SendSteps, KnownFacts DEF SendUpdate, TypeInv
<1>2. epoll' \in Epolls
  <2> DEFINE s == UpdateTx(epoll.send, kern, can.sock[send.i], can.txq[send.i], send.i)
  <2>1. epoll' = [epoll EXCEPT !.send = s]
    BY DEF SendUpdate
  <2>2. s \in SUBSET (Fds \X Ifaces) /\ epoll.recv \in SUBSET (Fds \X Ifaces)
    BY <1>1, Typed, Registered DEF TypeInv
  <2> HIDE DEF s
  <2> QED
    BY <2>1, <2>2, EpollRegs DEF TypeInv, BusType
<1>3. BusType'
  BY <1>1, <1>2 DEF TypeInv, BusType, SendUpdate
<1>4. epoll'.recv = epoll.recv
  BY DEF TypeInv, BusType, SendUpdate, Epolls
<1>5. Working'
  BY <1>1, <1>4 DEF Working, TypeInv, SendUpdate, Known, AtWork
<1> QED
  BY <1>3, <1>5 DEF TypeInv

LEMMA SendUnlockType ==
  ASSUME TypeInv, SendUnlock
  PROVE  TypeInv'
<1>1. send' \in Sends /\ send'.pc = "wait"
  BY SendSteps
<1>2. hist' \in Hists
  BY HistSockets DEF TypeInv, BusType, SendUnlock
<1>3. BusType'
  BY <1>1, <1>2 DEF TypeInv, BusType, SendUnlock
<1>4. Working'
  BY <1>1 DEF Working, TypeInv, SendUnlock, Known, AtWork
<1> QED
  BY <1>3, <1>4 DEF TypeInv

LEMMA SendScanType ==
  ASSUME TypeInv, SendScan
  PROVE  TypeInv'
<1>1. BusType /\ send \in Sends /\ send.i \in Ifaces /\ send.i + 1 \in 0 .. NIfaces
      /\ can.txq[send.i] \in Queues
  BY KnownFacts, Typed DEF SendScan, TypeInv, BusType
<1>2. CASE can.sock[send.i] = Closed
  <2>1. send' = [send EXCEPT !.i = @ + 1]
    BY <1>2 DEF SendScan
  <2>2. send' \in Sends /\ send'.pc = "scan"
    <3>1. send' \in Sends
      BY <1>1, <2>1, SendFields
    <3> QED
      BY <1>1, <2>1, <3>1 DEF SendScan, Sends
  <2>3. BusType'
    BY <2>2 DEF TypeInv, BusType, SendScan
  <2>4. Working'
    BY <2>2 DEF Working, TypeInv, SendScan, Known, AtWork
  <2> QED
    BY <2>3, <2>4 DEF TypeInv
<1>3. CASE can.sock[send.i] # Closed
  <2>1. send' = [send EXCEPT !.pc = "pop", !.limit = can.txq[send.i].used]
    BY <1>3 DEF SendScan
  <2>2. can.txq[send.i].used \in Nat
    BY <1>1 DEF Queues
  <2>3. send' \in Sends /\ send'.pc = "pop" /\ send'.i = send.i
    <3>1. send' \in Sends
      BY <1>1, <2>1, <2>2, SendFields
    <3> QED
      BY <1>1, <2>1, <3>1 DEF Sends
  <2>4. BusType'
    BY <2>3 DEF TypeInv, BusType, SendScan
  <2>5. Working'
    BY <1>3, <2>3 DEF Working, TypeInv, SendScan, Known, AtWork
  <2> QED
    BY <2>4, <2>5 DEF TypeInv
<1> QED
  BY <1>2, <1>3

\* What can_send_task has in hand, and what a step that only touches its queue leaves.
LEMMA InHand ==
  ASSUME TypeInv, send.pc \in AtWork
  PROVE  /\ BusType /\ send \in Sends /\ send.i \in Known /\ send.i \in Ifaces
         /\ send.i + 1 \in 0 .. NIfaces /\ can.txq[send.i] \in Queues
         /\ can.sock[send.i] \in Fds /\ send.frame \in Nat /\ send.limit \in Nat
         /\ mutex = "send" /\ http.pc # "apply"
<1>1. BusType /\ send \in Sends /\ send.i \in Known /\ can.sock[send.i] # Closed
  BY DEF TypeInv, Working, BusType
<1>2. send.i \in Ifaces /\ send.i + 1 \in 0 .. NIfaces
  BY <1>1, KnownFacts
<1>3. mutex = "send" /\ http.pc # "apply"
  BY DEF TypeInv, Working, AtWork
<1> QED
  BY <1>1, <1>2, <1>3, Typed

\* After a step of the sending that leaves the sockets alone.
LEMMA SendingStep ==
  ASSUME TypeInv, send.pc \in AtWork, send' \in Sends,
         send'.pc \in AtWork \cup {"scan"}, send'.pc \in AtWork => send'.i = send.i,
         can' \in Cans, can'.count = can.count, can'.sock = can.sock, hist' \in Hists,
         UNCHANGED <<kern, epoll, mutex, http>>
  PROVE  TypeInv'
<1>1. BusType'
  BY DEF TypeInv, BusType
<1>2. Known' = Known
  BY DEF Known
<1>3. Working'
  BY <1>2, InHand DEF TypeInv, Working, AtWork
<1> QED
  BY <1>1, <1>3 DEF TypeInv

\* One queue of one interface is all that a push or a pop changes.
LEMMA CanQueueFields ==
  ASSUME NEW c \in Cans, NEW i, NEW q
  PROVE  LET d == [c EXCEPT !.txq[i] = q]
         IN d.count = c.count /\ d.sock = c.sock /\ d.txq = [c.txq EXCEPT ![i] = q]
BY DEF Cans

\* The steps that pop a frame, write it and put it back keep the types.
LEMMA SendPopType ==
  ASSUME TypeInv, SendPop
  PROVE  TypeInv'
<1>1. send.pc \in AtWork /\ send.pc = "pop"
  BY DEF SendPop, AtWork
<1>2. CASE send.limit > 0 /\ can.txq[send.i].used > 0
  <2>1. /\ can' = [can EXCEPT !.txq[send.i] = Reserved(@)]
        /\ send' = [send EXCEPT !.pc = "read", !.limit = @ - 1]
    BY <1>2 DEF SendPop
  <2>2. send.limit - 1 \in Nat
    BY <1>1, <1>2, InHand
  <2>3. send' \in Sends
    BY <1>1, <2>1, <2>2, InHand, SendFields
  <2>4. send'.pc = "read" /\ send'.i = send.i
    BY <1>1, <2>1, InHand DEF Sends
  <2>5. can' \in Cans /\ can'.count = can.count /\ can'.sock = can.sock
    BY <1>1, <1>2, <2>1, InHand, QueueReserved, CanWithQueue, CanQueueFields DEF BusType
  <2> QED
    BY <1>1, <2>3, <2>4, <2>5, SendingStep DEF AtWork, SendPop, TypeInv, BusType
<1>3. CASE ~(send.limit > 0 /\ can.txq[send.i].used > 0)
  <2>1. send' = [send EXCEPT !.pc = "scan", !.i = @ + 1] /\ can' = can
    BY <1>3 DEF SendPop
  <2>2. send' \in Sends
    BY <1>1, <2>1, InHand, SendFields
  <2>3. send'.pc = "scan"
    BY <1>1, <2>1, InHand DEF Sends
  <2> QED
    BY <1>1, <2>1, <2>2, <2>3, SendingStep DEF AtWork, SendPop, TypeInv, BusType
<1> QED
  BY <1>2, <1>3

LEMMA SendReadType ==
  ASSUME TypeInv, SendRead
  PROVE  TypeInv'
<1>1. send.pc \in AtWork
  BY DEF SendRead, AtWork
<1>2. can' \in Cans /\ can'.count = can.count /\ can'.sock = can.sock
  BY <1>1, InHand, QueueReleased, CanWithQueue, CanQueueFields DEF BusType, SendRead
<1>3. send' \in Sends
  BY <1>1, InHand, QueueReleased, SendFields DEF SendRead
<1>4. send'.pc = "write" /\ send'.i = send.i
  BY <1>1, InHand DEF Sends, SendRead
<1> QED
  BY <1>1, <1>2, <1>3, <1>4, SendingStep DEF AtWork, SendRead, TypeInv, BusType

LEMMA SendWrittenType ==
  ASSUME TypeInv, SendOk \/ SendError
  PROVE  TypeInv'
<1>1. send.pc \in AtWork
  BY DEF SendOk, SendError, AtWork
<1>2. send' = [send EXCEPT !.pc = "pop", !.frame = NoFrame] /\ can' = can
  BY DEF SendOk, SendError
<1>3. send' \in Sends
  BY <1>1, <1>2, InHand, SendFields, NumberFacts
<1>4. send'.pc = "pop" /\ send'.i = send.i
  BY <1>1, <1>2, InHand DEF Sends
<1>5. hist' \in Hists
  <2>1. hist \in Hists /\ send.frame \in Nat
    BY <1>1, InHand DEF BusType
  <2>2. \/ hist' = [hist EXCEPT !.sent = Append(@, send.frame)]
        \/ hist' = [hist EXCEPT !.lost = @ \cup {send.frame}]
    BY DEF SendOk, SendError
  <2> QED
    BY <2>1, <2>2, HistFrames, NumberFacts
<1> QED
  BY <1>1, <1>2, <1>3, <1>4, <1>5, SendingStep
  DEF AtWork, SendOk, SendError, TypeInv, BusType

LEMMA SendAgainType ==
  ASSUME TypeInv, SendAgain
  PROVE  TypeInv'
<1>1. send.pc \in AtWork
  BY DEF SendAgain, AtWork
<1>2. hist' \in Hists
  <2>1. hist \in Hists /\ send.frame \in Nat
    BY <1>1, InHand DEF BusType
  <2>2. \/ hist' = [hist EXCEPT !.back = @ \cup {send.frame}]
        \/ hist' = [hist EXCEPT !.lost = @ \cup {send.frame}]
    BY DEF SendAgain
  <2> QED
    BY <2>1, <2>2, HistFrames, NumberFacts
<1>3. CASE Refuses(can.txq[send.i])
  <2>1. send' = [send EXCEPT !.pc = "scan", !.i = @ + 1, !.frame = NoFrame] /\ can' = can
    BY <1>3 DEF SendAgain
  <2>2. send' \in Sends
    BY <1>1, <2>1, InHand, SendGoesOn, NumberFacts
  <2>3. send'.pc = "scan"
    BY <1>1, <2>1, InHand DEF Sends
  <2> QED
    BY <1>1, <1>2, <2>1, <2>2, <2>3, SendingStep DEF AtWork, SendAgain, TypeInv, BusType
<1>4. CASE ~Refuses(can.txq[send.i])
  <2>1. /\ can' = [can EXCEPT !.txq[send.i] = Claimed(@, "send")]
        /\ send' = [send EXCEPT !.pc = "store"]
    BY <1>4 DEF SendAgain
  <2>2. can' \in Cans /\ can'.count = can.count /\ can'.sock = can.sock
    BY <1>1, <1>4, <2>1, InHand, QueueClaimed, CanWithQueue, CanQueueFields DEF BusType
  <2>3. send' \in Sends
    BY <1>1, <2>1, InHand, SendFields
  <2>4. send'.pc = "store" /\ send'.i = send.i
    BY <1>1, <2>1, InHand DEF Sends
  <2> QED
    BY <1>1, <1>2, <2>2, <2>3, <2>4, SendingStep DEF AtWork, SendAgain
<1> QED
  BY <1>3, <1>4

LEMMA SendStoreType ==
  ASSUME TypeInv, SendStore
  PROVE  TypeInv'
<1>1. send.pc \in AtWork
  BY DEF SendStore, AtWork
<1>2. can' \in Cans /\ can'.count = can.count /\ can'.sock = can.sock
  <2> DEFINE q == Stored(can.txq[send.i], send.frame)
  <2>1. can' = [can EXCEPT !.txq[send.i] = q] /\ can \in Cans
    BY <1>1, InHand DEF SendStore, BusType
  <2>2. q \in Queues
    BY <1>1, InHand, QueueStored
  <2> HIDE DEF q
  <2> QED
    BY <1>1, <2>1, <2>2, InHand, CanWithQueue, CanQueueFields
<1>3. send' \in Sends
  BY <1>1, InHand, SendGoesOn, NumberFacts DEF SendStore
<1>4. send'.pc = "scan"
  BY <1>1, InHand DEF Sends, SendStore
<1> QED
  BY <1>1, <1>2, <1>3, <1>4, SendingStep DEF AtWork, SendStore, TypeInv, BusType

\* The two outcomes of a read error keep the types.
LEMMA ReconnectType ==
  ASSUME TypeInv, NEW i \in Ifaces, Reconnect(i)
  PROVE  TypeInv'
<1> DEFINE old == can.sock[i]
<1>1. BusType /\ epoll.recv \in SUBSET (Fds \X Ifaces) /\ epoll.send \in SUBSET (Fds \X Ifaces)
      /\ hist.deaf \in SUBSET Ifaces /\ hist.swapped \in SUBSET Ifaces /\ hist.errors \in Nat
      /\ can.sock \in [Ifaces -> Fds \cup {Closed}]
  BY Typed DEF TypeInv
<1>2. PICK new \in Fds :
        LET k == [f \in Fds |-> IF f = new THEN i ELSE IF f = old THEN Free ELSE kern[f]]
        IN /\ kern' = k
           /\ can' = [can EXCEPT !.sock[i] = new]
           /\ epoll' = [epoll EXCEPT
               !.recv = WithFd(Without(@, old), k, new, i),
               !.send = UpdateTx(Without(@, old), k, new, can.txq[i], i)]
           /\ hist' = [hist EXCEPT !.errors = @ + 1, !.deaf = @ \ {i}, !.swapped = @ \ {i}]
  BY DEF Reconnect
<1> DEFINE k == [f \in Fds |-> IF f = new THEN i ELSE IF f = old THEN Free ELSE kern[f]]
<1>3. can'.count = can.count /\ can'.sock = [can.sock EXCEPT ![i] = new]
  BY <1>1, <1>2 DEF BusType, Cans
<1>4. can' \in Cans
  BY <1>1, <1>2, CanWithSock DEF BusType
<1>5. kern' \in [Fds -> 0 .. NIfaces]
  BY <1>1, <1>2, NumberFacts DEF BusType
<1>6. epoll' \in Epolls
  <2> DEFINE r == WithFd(Without(epoll.recv, old), k, new, i)
             s == UpdateTx(Without(epoll.send, old), k, new, can.txq[i], i)
  <2>1. epoll' = [epoll EXCEPT !.recv = r, !.send = s]
    BY <1>2
  <2>2. r \in SUBSET (Fds \X Ifaces) /\ s \in SUBSET (Fds \X Ifaces)
    <3> HIDE DEF k, old
    <3> QED
      BY <1>1, Registered
  <2> HIDE DEF r, s
  <2> QED
    BY <1>1, <2>1, <2>2, EpollRegs DEF BusType
<1>7. hist' \in Hists
  <2>1. hist.deaf \ {i} \in SUBSET Ifaces /\ hist.swapped \ {i} \in SUBSET Ifaces
        /\ hist.errors + 1 \in Nat
    BY <1>1
  <2>2. hist' = [hist EXCEPT !.errors = hist.errors + 1, !.deaf = hist.deaf \ {i},
                             !.swapped = hist.swapped \ {i}]
    BY <1>2
  <2> QED
    BY <1>1, <2>1, <2>2, HistErrors DEF BusType
<1>8. BusType'
  BY <1>1, <1>4, <1>5, <1>6, <1>7 DEF BusType, Reconnect
<1>9. \A j \in Ifaces : can'.sock[j] = can.sock[j] \/ (j = i /\ can'.sock[j] \in Fds)
  BY <1>1, <1>3
<1>10. mutex = "none" /\ mutex' = mutex /\ http' = http /\ send' = send
  BY DEF Reconnect, Ready
<1>11. Known' = Known /\ send.pc \notin AtWork
  BY <1>3, <1>10 DEF Known, TypeInv, Working
<1>12. i \in Known
  BY DEF Reconnect, Ready, TypeInv, Working
<1>13. \A r \in epoll'.recv : r \in epoll.recv \/ r[2] = i
  <2>1. epoll'.recv = WithFd(Without(epoll.recv, old), k, new, i)
    BY <1>1, <1>2 DEF BusType, Epolls
  <2> HIDE DEF k, old
  <2> QED
    BY <2>1, ReplacedFor
<1>14. Working'
  BY <1>9, <1>10, <1>11, <1>12, <1>13, NumberFacts DEF TypeInv, Working, AtWork
<1> QED
  BY <1>8, <1>14 DEF TypeInv

LEMMA LeftClosedType ==
  ASSUME TypeInv, NEW i \in Ifaces, LeftClosed(i)
  PROVE  TypeInv'
<1> DEFINE old == can.sock[i]
<1>1. BusType /\ epoll.recv \in SUBSET (Fds \X Ifaces) /\ epoll.send \in SUBSET (Fds \X Ifaces)
      /\ hist.errors + 1 \in Nat
  BY Typed DEF TypeInv
<1>2. /\ kern' = [kern EXCEPT ![old] = Free]
      /\ epoll' = [epoll EXCEPT !.recv = Without(@, old), !.send = Without(@, old)]
      /\ hist' = [hist EXCEPT !.errors = @ + 1, !.failed = TRUE]
      /\ UNCHANGED <<can, mutex, http, send>>
  BY DEF LeftClosed
<1>3. kern' \in [Fds -> 0 .. NIfaces]
  BY <1>1, <1>2, NumberFacts DEF BusType
<1>4. epoll' \in Epolls
  BY <1>1, <1>2, Registered, EpollRegs, NumberFacts DEF BusType
<1>5. hist' \in Hists
  BY <1>1, <1>2, HistErrors DEF BusType
<1>6. BusType'
  BY <1>1, <1>2, <1>3, <1>4, <1>5 DEF BusType
<1>7. \A r \in epoll'.recv : r \in epoll.recv
  <2>1. epoll'.recv = Without(epoll.recv, old)
    BY <1>1, <1>2 DEF BusType, Epolls
  <2> QED
    BY <2>1, WithoutFor
<1>8. Working'
  BY <1>2, <1>7 DEF TypeInv, Working, Known, AtWork
<1> QED
  BY <1>6, <1>8 DEF TypeInv

\* The descriptors that the interfaces get at the start, in their order.
LEMMA Ranks ==
  ASSUME NEW n \in Nat, NEW up \in SUBSET (0 .. n - 1)
  PROVE  /\ \A i \in up : Cardinality({j \in up : j <= i}) \in 1 .. n
         /\ \A i, k \in up :
              Cardinality({j \in up : j <= i}) = Cardinality({j \in up : j <= k}) => i = k
<1> DEFINE Below(i) == {j \in up : j <= i}
<1>1. IsFiniteSet(0 .. n - 1) /\ Cardinality(0 .. n - 1) = n
  <2>1. IsFiniteSet(0 .. n - 1)
        /\ Cardinality(0 .. n - 1) = IF 0 > n - 1 THEN 0 ELSE n - 1 - 0 + 1
    BY FS_Interval
  <2> QED
    BY <2>1
<1>2. ASSUME NEW i \in up
      PROVE  IsFiniteSet(Below(i)) /\ Cardinality(Below(i)) \in 1 .. n
  <2>1. Below(i) \in SUBSET (0 .. n - 1) /\ i \in Below(i)
    <3>1. up \subseteq 0 .. n - 1 /\ Below(i) \subseteq up
      OBVIOUS
    <3>2. i <= i
      BY <3>1
    <3> QED
      BY <3>1, <3>2
  <2>2. IsFiniteSet(Below(i)) /\ Cardinality(Below(i)) <= n
    <3> HIDE DEF Below
    <3> QED
      BY <1>1, <2>1, FS_Subset
  <2>3. Cardinality(Below(i)) \in Nat /\ Cardinality(Below(i)) # 0
    <3> HIDE DEF Below
    <3> QED
      BY <2>1, <2>2, FS_CardinalityType, FS_EmptySet
  <2> QED
    BY <2>2, <2>3
<1>3. ASSUME NEW i \in up, NEW k \in up, i < k
      PROVE  Cardinality(Below(i)) # Cardinality(Below(k))
  <2>1. Below(i) \in SUBSET Below(k) /\ k \notin Below(i) /\ k \in Below(k)
    <3>1. \A j \in up : j \in Int
      OBVIOUS
    <3>2. \A j \in up : j <= i => j <= k
      BY <1>3, <3>1
    <3>3. ~(k <= i) /\ k <= k
      BY <1>3, <3>1
    <3> QED
      BY <3>2, <3>3
  <2>2. IsFiniteSet(Below(k))
    BY <1>2
  <2> HIDE DEF Below
  <2>3. Cardinality(Below(i)) = Cardinality(Below(k)) => Below(k) = Below(i)
    BY <2>1, <2>2, FS_Subset
  <2> QED
    BY <2>1, <2>3
<1>4. \A i, k \in up : i = k \/ i < k \/ k < i
  OBVIOUS
<1>5. \A i \in up : Cardinality(Below(i)) \in 1 .. n
  BY <1>2
<1>6. \A i, k \in up : Cardinality(Below(i)) = Cardinality(Below(k)) => i = k
  <2> HIDE DEF Below
  <2> QED
    BY <1>3, <1>4
<1> QED
  BY <1>5, <1>6

\* What holds at the start.
LEMMA Started ==
  ASSUME Init
  PROVE  /\ can.count = NInit /\ can.sock \in [Ifaces -> Fds \cup {Closed}]
         /\ can = [count |-> can.count, sock |-> can.sock, txq |-> can.txq]
         /\ can.txq = [i \in Ifaces |-> EmptyQueue]
         /\ kern \in [Fds -> 0 .. NIfaces]
         /\ \A i \in Ifaces : can.sock[i] # Closed =>
              i \in Known /\ kern[can.sock[i]] = i /\ <<can.sock[i], i>> \in epoll.recv
         /\ epoll.recv \in SUBSET (Fds \X Ifaces) /\ epoll.send = {} /\ epoll.efd = FALSE
         /\ epoll = [recv |-> epoll.recv, send |-> epoll.send, efd |-> epoll.efd]
         /\ \A r \in epoll.recv : r[2] \in Known
<1>1. PICK up \in SUBSET (0 .. NInit - 1) :
     LET fd == [i \in Ifaces |-> IF i \in up THEN Cardinality({j \in up : j <= i}) ELSE Closed]
     IN
       /\ can = [count |-> NInit, sock |-> fd,
                 txq |-> [i \in Ifaces |-> EmptyQueue]]
       /\ kern = [f \in Fds |-> IF \E i \in up : fd[i] = f
                                THEN CHOOSE i \in up : fd[i] = f ELSE Free]
       /\ epoll = [recv |-> {<<fd[i], i>> : i \in up}, send |-> {}, efd |-> FALSE]
  BY DEF Init
<1> DEFINE rank == [i \in up |-> Cardinality({j \in up : j <= i})]
           fd == [i \in Ifaces |-> IF i \in up THEN Cardinality({j \in up : j <= i}) ELSE Closed]
<1>2. up \subseteq Ifaces /\ up \subseteq 0 .. NInit - 1
  BY NumberFacts DEF Ifaces
<1>3. /\ \A i \in up : rank[i] \in Fds
      /\ \A i, k \in up : rank[i] = rank[k] => i = k
  <2>1. 1 .. NInit \subseteq Fds
    BY CanAssumption
  <2>2. /\ \A i \in up : Cardinality({j \in up : j <= i}) \in 1 .. NInit
        /\ \A i, k \in up :
              Cardinality({j \in up : j <= i}) = Cardinality({j \in up : j <= k}) => i = k
    BY Ranks, NumberFacts
  <2> QED
    BY <2>1, <2>2
<1>4. fd = [i \in Ifaces |-> IF i \in up THEN rank[i] ELSE Closed]
  OBVIOUS
<1>5. /\ can.count = NInit /\ can.sock = fd /\ can.txq = [i \in Ifaces |-> EmptyQueue]
      /\ can = [count |-> can.count, sock |-> can.sock, txq |-> can.txq]
      /\ kern = [f \in Fds |-> IF \E i \in up : fd[i] = f
                                THEN CHOOSE i \in up : fd[i] = f ELSE Free]
      /\ epoll.recv = {<<fd[i], i>> : i \in up} /\ epoll.send = {} /\ epoll.efd = FALSE
      /\ epoll = [recv |-> epoll.recv, send |-> epoll.send, efd |-> epoll.efd]
  BY <1>1
<1> HIDE DEF rank, fd
<1>6. /\ fd \in [Ifaces -> Fds \cup {Closed}]
      /\ \A i \in up : fd[i] = rank[i]
      /\ \A i \in Ifaces : fd[i] # Closed => i \in up
  BY <1>2, <1>3, <1>4
<1>7. \A f \in Fds : (\E i \in up : fd[i] = f) => (CHOOSE i \in up : fd[i] = f) \in up
  OBVIOUS
<1>8. kern \in [Fds -> 0 .. NIfaces]
  BY <1>2, <1>5, <1>7, NumberFacts
<1>9. \A i \in up : kern[fd[i]] = i
  <2> TAKE i \in up
  <2>1. fd[i] \in Fds
    BY <1>3, <1>6
  <2>2. kern[fd[i]] = CHOOSE k \in up : fd[k] = fd[i]
    BY <1>5, <2>1
  <2>3. \A k \in up : fd[k] = fd[i] <=> k = i
    BY <1>3, <1>6
  <2> QED
    BY <2>2, <2>3
<1>10. \A r \in epoll.recv : r \in Fds \X Ifaces /\ r[2] \in up
  <2>1. \A i \in up : <<fd[i], i>> \in Fds \X Ifaces
    BY <1>2, <1>3, <1>6
  <2> QED
    BY <1>5, <2>1
<1>11. \A i \in up : i \in Known
  BY <1>2, <1>5 DEF Known
<1>12. \A i \in up : <<fd[i], i>> \in epoll.recv
  BY <1>5
<1>13. \A i \in Ifaces : can.sock[i] # Closed =>
              i \in Known /\ kern[can.sock[i]] = i /\ <<can.sock[i], i>> \in epoll.recv
  <2>1. can.sock = fd
    BY <1>5
  <2> SUFFICES ASSUME NEW i \in Ifaces, fd[i] # Closed
               PROVE  i \in Known /\ kern[fd[i]] = i /\ <<fd[i], i>> \in epoll.recv
    BY <2>1
  <2>2. i \in up
    BY <1>6
  <2> QED
    BY <2>2, <1>9, <1>11, <1>12
<1>14. epoll.recv \in SUBSET (Fds \X Ifaces) /\ \A r \in epoll.recv : r[2] \in Known
  BY <1>10, <1>11
<1>15. can.sock \in [Ifaces -> Fds \cup {Closed}]
  BY <1>5, <1>6
<1> QED
  BY <1>5, <1>8, <1>13, <1>14, <1>15

\* The queue at the start.
LEMMA EmptyQueueType == EmptyQueue \in Queues
BY NumberFacts DEF EmptyQueue, Queues, Index

\* The types hold at the start, and after any step.
LEMMA InitType ==
  ASSUME Init
  PROVE  TypeInv
<1>1. can \in Cans
  BY Started, EmptyQueueType, NumberFacts DEF Cans
<1>2. epoll \in Epolls
  BY Started DEF Epolls
<1>3. /\ mutex = "none" /\ http = [pc |-> "idle", i |-> 0, frame |-> NoFrame]
      /\ send = [pc |-> "wait", i |-> 0, limit |-> 0, frame |-> NoFrame]
      /\ hist = [of |-> <<>>, sent |-> <<>>, back |-> {}, lost |-> {}, configs |-> 0,
             errors |-> 0, failed |-> FALSE, deaf |-> {}, swapped |-> {}]
  BY DEF Init
<1>4. http \in Https /\ send \in Sends
  BY <1>3, NumberFacts DEF Https, Sends
<1>5. hist \in Hists
  <2>1. <<>> \in Seq(Nat) /\ <<>> \in Seq(Ifaces)
    OBVIOUS
  <2> HIDE DEF Ifaces
  <2> QED
    BY <1>3, <2>1 DEF Hists
<1>6. BusType
  BY <1>1, <1>2, <1>3, <1>4, <1>5, Started DEF BusType
<1>7. Working
  BY <1>3, Started DEF Working, AtWork
<1> QED
  BY <1>6, <1>7 DEF TypeInv

LEMMA StepType ==
  ASSUME TypeInv, [Next]_vars
  PROVE  TypeInv'
<1>1. CASE \E i \in Ifaces : TxFrame(i)
  BY <1>1, TxFrameType
<1>2. CASE \E new \in 0 .. NIfaces : ConfigBegin(new)
  BY <1>2, ConfigBeginType
<1>3. CASE Http
  BY <1>3, TxStoreType, TxSignalType, ConfigureFailsType, OpenFailsType, AppliedType,
     ConfigEndType DEF Http
<1>4. CASE Sender
  BY <1>4, SendWakeType, SendLockType, SendScanType, SendPopType, SendReadType,
     SendWrittenType, SendAgainType, SendStoreType, SendScannedType, SendUpdateType,
     SendUnlockType DEF Sender
<1>5. CASE Receiver
  BY <1>5, ReconnectType, LeftClosedType DEF Receiver
<1>6. CASE UNCHANGED vars
  BY <1>6 DEF vars, TypeInv, BusType, Working, Known, AtWork
<1> QED
  BY <1>1, <1>2, <1>3, <1>4, <1>5, <1>6 DEF Next

\* For any number of interfaces, descriptors and cells, every variable has its type, and
\* the threads that work on the interfaces hold can_mutex (handle_can_output,
\* handle_can_input, apply_can).
THEOREM TypeCorrect == Spec => []TypeInv
<1>1. Init => TypeInv
  BY InitType
<1>2. TypeInv /\ [Next]_vars => TypeInv'
  BY StepType
<1> QED
  BY <1>1, <1>2, PTL DEF Spec

-----------------------------------------------------------------------------
(* Sockets, registrations and the wakeup of the sender. *)

\* As long as no reconnection failed, an interface's descriptor is its own socket.
Owned ==
  ~hist.failed =>
    \A i \in Ifaces :
      can.sock[i] # Closed =>
        /\ kern[can.sock[i]] = i
        /\ i \notin hist.deaf => <<can.sock[i], i>> \in epoll.recv

\* The sender is up, or about to be woken.
Awake ==
  epoll.efd \/ http.pc = "signal" \/ send.pc \in AtWork \cup {"lock", "scan"}

\* The interface has nothing to send, or EPOLLOUT of its socket wakes the sender.
Watched(i) ==
  can.txq[i].used = 0 \/ can.sock[i] = Closed \/ <<can.sock[i], i>> \in epoll.send

\* A sender that sleeps is woken for each interface with frames, or has yet to
\* register it on its way to sleep, or the socket was replaced.
Listening ==
  ~hist.failed =>
    \A i \in Known :
      \/ Awake \/ Watched(i)
      \/ IF send.pc = "update" THEN i >= send.i ELSE i \in hist.swapped

\* The second inductive invariant; it needs the first.
SocketInv == Owned /\ Listening

\* A registration stays when another descriptor is removed or registered, and is
\* there when its own is.
LEMMA RegsOther ==
  ASSUME NEW regs, NEW f, NEW g, NEW h, NEW i, NEW j, NEW k, NEW q, <<g, j>> \in regs, g # f
  PROVE  /\ <<g, j>> \in Without(regs, f)
         /\ <<g, j>> \in WithFd(regs, k, f, i)
         /\ <<g, j>> \in UpdateTx(regs, k, f, q, i)
<1>1. <<g, j>> \in Without(regs, f)
  BY DEF Without
<1> QED
  BY <1>1 DEF WithFd, UpdateTx

LEMMA RegsSelf ==
  ASSUME NEW regs, NEW f \in Fds, NEW i, NEW k, NEW q, k[f] # Free
  PROVE  /\ <<f, i>> \in WithFd(regs, k, f, i)
         /\ q.used > 0 => <<f, i>> \in UpdateTx(regs, k, f, q, i)
BY DEF WithFd, UpdateTx

\* A step that changes nothing that the ownership is about.
LEMMA OwnedKept ==
  ASSUME Owned, can.sock' = can.sock, kern' = kern, epoll.recv' = epoll.recv,
         hist.deaf' = hist.deaf, hist.failed' = hist.failed
  PROVE  Owned'
BY DEF Owned

\* A step after which the sender is up needs no more.
LEMMA AwakeListens ==
  ASSUME Awake' PROVE Listening'
BY DEF Listening

\* A step that changes nothing that the listening is about, or wakes the sender.
LEMMA ListeningKept ==
  ASSUME Listening, hist.failed' = hist.failed, Known' = Known,
         \A i \in Known : can.txq[i].used' = can.txq[i].used,
         can.sock' = can.sock, epoll.send' = epoll.send, hist.swapped' = hist.swapped,
         send.pc' = send.pc, send.i' = send.i, Awake => Awake'
  PROVE  Listening'
BY DEF Listening, Watched

\* What the record of a frame leaves alone.
LEMMA HistOther ==
  ASSUME NEW h \in Hists, NEW x
  PROVE  /\ [h EXCEPT !.of = x].failed = h.failed /\ [h EXCEPT !.of = x].deaf = h.deaf
         /\ [h EXCEPT !.of = x].swapped = h.swapped
         /\ [h EXCEPT !.sent = x].failed = h.failed /\ [h EXCEPT !.sent = x].deaf = h.deaf
         /\ [h EXCEPT !.lost = x].failed = h.failed /\ [h EXCEPT !.lost = x].deaf = h.deaf
         /\ [h EXCEPT !.back = x].failed = h.failed /\ [h EXCEPT !.back = x].deaf = h.deaf
         /\ [h EXCEPT !.configs = x].failed = h.failed
         /\ [h EXCEPT !.configs = x].deaf = h.deaf
         /\ [h EXCEPT !.configs = x].swapped = h.swapped
BY DEF Hists

\* The steps of the HTTP thread.
LEMMA TxFrameSockets ==
  ASSUME TypeInv, SocketInv, NEW i \in Ifaces, TxFrame(i)
  PROVE  SocketInv'
<1>1. /\ BusType /\ can \in Cans /\ can.txq \in [Ifaces -> Queues] /\ can.txq[i] \in Queues
      /\ hist \in Hists /\ ~Refuses(can.txq[i])
  BY Typed DEF TypeInv, BusType, TxFrame
<1>2. /\ can.count' = can.count /\ can.sock' = can.sock
      /\ can.txq' = [can.txq EXCEPT ![i] = Claimed(can.txq[i], "http")]
  BY <1>1, CanQueueFields DEF TxFrame
<1>3. hist.failed' = hist.failed /\ hist.deaf' = hist.deaf /\ hist.swapped' = hist.swapped
  BY <1>1, HistOther DEF TxFrame
<1>4. Owned'
  BY <1>2, <1>3, OwnedKept DEF SocketInv, TxFrame
<1>5. \A j \in Ifaces : can.txq[j].used' = can.txq[j].used
  BY <1>1, <1>2, QueueClaimed
<1>6. Known' = Known /\ Known \subseteq Ifaces
  BY <1>1, <1>2, KnownFacts DEF Known
<1>7. Awake => Awake'
  BY DEF TxFrame, Awake
<1>8. Listening'
  BY <1>2, <1>3, <1>5, <1>6, <1>7, ListeningKept DEF SocketInv, TxFrame
<1> QED
  BY <1>4, <1>8 DEF SocketInv

LEMMA TxStoreSockets ==
  ASSUME TypeInv, SocketInv, TxStore
  PROVE  SocketInv'
<1>1. BusType /\ can \in Cans /\ http \in Https
  BY DEF TypeInv, BusType
<1>2. can.sock' = can.sock
  BY <1>1, CanQueueFields DEF TxStore
<1>3. Owned'
  BY <1>2, OwnedKept DEF SocketInv, TxStore
<1>4. http'.pc = "signal"
  BY <1>1 DEF TxStore, Https
<1> QED
  BY <1>3, <1>4, AwakeListens DEF SocketInv, Awake

LEMMA TxSignalSockets ==
  ASSUME TypeInv, SocketInv, TxSignal
  PROVE  SocketInv'
<1>1. epoll \in Epolls
  BY DEF TypeInv, BusType
<1>2. epoll.recv' = epoll.recv /\ epoll'.efd
  BY <1>1 DEF TxSignal, Epolls
<1>3. Owned'
  BY <1>2, OwnedKept DEF SocketInv, TxSignal
<1> QED
  BY <1>2, <1>3, AwakeListens DEF SocketInv, Awake

LEMMA ConfigBeginSockets ==
  ASSUME TypeInv, SocketInv, NEW new \in 0 .. NIfaces, ConfigBegin(new)
  PROVE  SocketInv'
<1>1. BusType /\ can \in Cans /\ http \in Https /\ hist \in Hists /\ can.count \in 0 .. NIfaces
  BY Typed DEF TypeInv, BusType
<1>2. /\ can.sock' = can.sock /\ can.txq' = can.txq /\ can.count' = can.count + new
      /\ can.count + new \in 0 .. NIfaces
  <2>1. can.sock' = can.sock /\ can.txq' = can.txq /\ can.count' = can.count + new
    BY <1>1 DEF ConfigBegin, Cans
  <2> QED
    BY <1>1, <2>1, NumberFacts DEF ConfigBegin
<1>3. hist.failed' = hist.failed /\ hist.deaf' = hist.deaf /\ hist.swapped' = hist.swapped
  BY <1>1, HistOther DEF ConfigBegin
<1>4. Owned'
  BY <1>2, <1>3, OwnedKept DEF SocketInv, ConfigBegin
<1>5. \A i \in Known' : i \in Ifaces /\ (i \in Known \/ can.sock[i] = Closed)
  <2>1. Known' \subseteq Ifaces
    BY <1>2, NumberFacts DEF Known, Ifaces
  <2>2. \A i \in Ifaces \ Known : can.sock[i] = Closed
    BY DEF TypeInv, Working
  <2> QED
    BY <2>1, <2>2
<1>6. epoll' = epoll /\ send' = send /\ send.pc # "update" /\ (Awake => Awake')
  BY DEF ConfigBegin, TypeInv, Working, Awake
<1>7. Listening'
  BY <1>2, <1>3, <1>5, <1>6 DEF Listening, Watched, SocketInv
<1> QED
  BY <1>4, <1>7 DEF SocketInv

\* What the steps of the configuration leave alone.
LEMMA ApplySockets ==
  ASSUME TypeInv, http.pc = "apply", http.i \in Known, http' = [http EXCEPT !.i = @ + 1],
         send' = send, epoll.efd' = epoll.efd
  PROVE  /\ Awake' <=> Awake
         /\ send.pc # "update" /\ send.pc' # "update"
         /\ http.i \in Ifaces /\ can.sock \in [Ifaces -> Fds \cup {Closed}]
<1>1. BusType /\ http \in Https
  BY DEF TypeInv, BusType
<1>2. http.i \in Ifaces /\ can.sock \in [Ifaces -> Fds \cup {Closed}]
  BY <1>1, KnownFacts, Typed
<1>3. http'.pc = http.pc
  BY <1>1 DEF Https
<1>4. send.pc # "update"
  BY DEF TypeInv, Working
<1> QED
  BY <1>2, <1>3, <1>4 DEF Awake

LEMMA ConfigureFailsSockets ==
  ASSUME TypeInv, SocketInv, ConfigureFails
  PROVE  SocketInv'
<1> DEFINE i == http.i
           old == can.sock[i]
<1>1. BusType /\ epoll \in Epolls /\ hist \in Hists
  BY DEF TypeInv, BusType
<1>2. /\ epoll.recv' = Without(epoll.recv, old)
      /\ epoll.send' = epoll.send /\ epoll.efd' = epoll.efd
  BY <1>1 DEF ConfigureFails, Epolls
<1>3. /\ hist.failed' = hist.failed /\ hist.swapped' = hist.swapped
      /\ hist.deaf' = IF old # Closed THEN hist.deaf \cup {i} ELSE hist.deaf
  <2> DEFINE d == IF old # Closed THEN hist.deaf \cup {i} ELSE hist.deaf
  <2>1. hist' = [hist EXCEPT !.deaf = d]
    BY DEF ConfigureFails
  <2> HIDE DEF d
  <2>2. hist.failed' = hist.failed /\ hist.swapped' = hist.swapped /\ hist.deaf' = d
    BY <1>1, <2>1 DEF Hists
  <2> QED
    BY <2>2 DEF d
<1>4. can' = can /\ kern' = kern
  BY DEF ConfigureFails
<1>5. /\ Awake' <=> Awake
      /\ send.pc # "update" /\ send.pc' # "update"
      /\ i \in Ifaces /\ can.sock \in [Ifaces -> Fds \cup {Closed}]
  BY <1>2, ApplySockets DEF ConfigureFails
<1> HIDE DEF i, old
<1>6. Owned'
  <2> SUFFICES ASSUME ~hist.failed, NEW j \in Ifaces, can.sock[j] # Closed
               PROVE  kern[can.sock[j]] = j
                      /\ (j \notin hist'.deaf => <<can.sock[j], j>> \in epoll'.recv)
    BY <1>3, <1>4 DEF Owned
  <2>1. kern[can.sock[j]] = j /\ (j \notin hist.deaf => <<can.sock[j], j>> \in epoll.recv)
    BY DEF SocketInv, Owned
  <2>2. CASE j = i
    BY <1>3, <2>1, <2>2 DEF i, old
  <2>3. CASE j # i
    <3>1. can.sock[j] # old
      <4>1. ASSUME can.sock[j] = old PROVE FALSE
        <5>1. kern[old] = i
          BY <1>5, <4>1 DEF SocketInv, Owned, old
        <5> QED
          BY <2>1, <2>3, <4>1, <5>1
      <4> QED
        BY <4>1
    <3>2. j \notin hist'.deaf => j \notin hist.deaf
      BY <1>3, <2>3
    <3> QED
      BY <1>2, <2>1, <3>1, <3>2, RegsOther
  <2> QED
    BY <2>2, <2>3
<1>7. Listening'
  BY <1>2, <1>3, <1>4, <1>5 DEF Listening, Watched, SocketInv, Known
<1> QED
  BY <1>6, <1>7 DEF SocketInv

LEMMA OpenFailsSockets ==
  ASSUME TypeInv, SocketInv, OpenFails
  PROVE  SocketInv'
<1> DEFINE i == http.i
           old == can.sock[i]
<1>1. BusType /\ epoll \in Epolls /\ hist \in Hists
  BY DEF TypeInv, BusType
<1>2. /\ epoll.recv' = WithFd(epoll.recv, kern, old, i)
      /\ epoll.send' = epoll.send /\ epoll.efd' = epoll.efd
  BY <1>1 DEF OpenFails, Epolls
<1>3. /\ hist.failed' = hist.failed /\ hist.swapped' = hist.swapped
      /\ hist.deaf' = hist.deaf \ {i}
  BY <1>1 DEF OpenFails, Hists
<1>4. can' = can /\ kern' = kern
  BY DEF OpenFails
<1>5. /\ Awake' <=> Awake
      /\ send.pc # "update" /\ send.pc' # "update"
      /\ i \in Ifaces /\ can.sock \in [Ifaces -> Fds \cup {Closed}]
  BY <1>2, ApplySockets DEF OpenFails
<1> HIDE DEF i, old
<1>6. Owned'
  <2> SUFFICES ASSUME ~hist.failed, NEW j \in Ifaces, can.sock[j] # Closed
               PROVE  kern[can.sock[j]] = j
                      /\ (j \notin hist'.deaf => <<can.sock[j], j>> \in epoll'.recv)
    BY <1>3, <1>4 DEF Owned
  <2>1. kern[can.sock[j]] = j /\ (j \notin hist.deaf => <<can.sock[j], j>> \in epoll.recv)
    BY DEF SocketInv, Owned
  <2>2. CASE j = i
    <3>1. can.sock[j] = old /\ old \in Fds /\ kern[old] # Free
      BY <1>5, <2>1, <2>2, NumberFacts DEF old
    <3> QED
      BY <1>2, <2>1, <2>2, <3>1, RegsSelf
  <2>3. CASE j # i
    <3>1. can.sock[j] # old
      <4>1. ASSUME can.sock[j] = old PROVE FALSE
        <5>1. kern[old] = i
          BY <1>5, <4>1 DEF SocketInv, Owned, old
        <5> QED
          BY <2>1, <2>3, <4>1, <5>1
      <4> QED
        BY <4>1
    <3>2. j \notin hist'.deaf => j \notin hist.deaf
      BY <1>3, <2>3
    <3> QED
      BY <1>2, <2>1, <3>1, <3>2, RegsOther
  <2> QED
    BY <2>2, <2>3
<1>7. Listening'
  BY <1>2, <1>3, <1>4, <1>5 DEF Listening, Watched, SocketInv, Known
<1> QED
  BY <1>6, <1>7 DEF SocketInv

\* The old number is closed, and the interface has the new one.
LEMMA AppliedSockets ==
  ASSUME TypeInv, SocketInv, Applied
  PROVE  SocketInv'
<1> DEFINE i == http.i
           old == can.sock[i]
<1>1. BusType /\ epoll \in Epolls /\ hist \in Hists /\ can \in Cans
      /\ kern \in [Fds -> 0 .. NIfaces]
  BY DEF TypeInv, BusType
<1>2. PICK new \in Fds :
        LET k == [f \in Fds |-> IF f = old THEN Free ELSE IF f = new THEN i ELSE kern[f]]
        IN /\ Lowest(kern, new)
           /\ kern' = k
           /\ can' = [can EXCEPT !.sock[i] = new]
           /\ epoll' = [epoll EXCEPT !.recv = WithFd(Without(@, old), k, new, i),
                                     !.send = Without(@, old)]
           /\ hist' = [hist EXCEPT !.deaf = @ \ {i}, !.swapped = @ \cup {i}]
  BY DEF Applied
<1> DEFINE k == [f \in Fds |-> IF f = old THEN Free ELSE IF f = new THEN i ELSE kern[f]]
<1>3. /\ can.count' = can.count /\ can.txq' = can.txq
      /\ can.sock' = [can.sock EXCEPT ![i] = new]
  BY <1>1, <1>2 DEF Cans
<1>4. /\ epoll.recv' = WithFd(Without(epoll.recv, old), k, new, i)
      /\ epoll.send' = Without(epoll.send, old) /\ epoll.efd' = epoll.efd
  <2> DEFINE r == WithFd(Without(epoll.recv, old), k, new, i)
             s == Without(epoll.send, old)
  <2>1. epoll' = [epoll EXCEPT !.recv = r, !.send = s]
    BY <1>2
  <2> HIDE DEF r, s
  <2>2. epoll.recv' = r /\ epoll.send' = s /\ epoll.efd' = epoll.efd
    BY <1>1, <2>1 DEF Epolls
  <2> QED
    BY <2>2 DEF r, s
<1>5. /\ hist.failed' = hist.failed /\ hist.deaf' = hist.deaf \ {i}
      /\ hist.swapped' = hist.swapped \cup {i}
  BY <1>1, <1>2 DEF Hists
<1>6. /\ Awake' <=> Awake
      /\ send.pc # "update" /\ send.pc' # "update"
      /\ i \in Ifaces /\ can.sock \in [Ifaces -> Fds \cup {Closed}]
  BY <1>4, ApplySockets DEF Applied
<1>7. kern' = k /\ kern[new] = Free
  BY <1>2 DEF Lowest
<1> HIDE DEF i, old
<1>8. ASSUME ~hist.failed
      PROVE  /\ new # old /\ k[new] = i /\ i # Free
             /\ \A j \in Ifaces \ {i} : can.sock[j] # Closed =>
                  can.sock[j] # old /\ can.sock[j] # new /\ k[can.sock[j]] = j
  <2>1. \A j \in Ifaces : can.sock[j] # Closed => can.sock[j] \in Fds /\ kern[can.sock[j]] = j
    BY <1>6, <1>8 DEF SocketInv, Owned
  <2>2. i # Free /\ \A j \in Ifaces : j # Free
    BY <1>6, NumberFacts
  <2>3. new # old
    BY <1>6, <1>7, <2>1, <2>2, NumberFacts DEF old
  <2>4. k[new] = i
    BY <2>3
  <2>5. \A j \in Ifaces \ {i} : can.sock[j] # Closed => can.sock[j] # old
    BY <1>6, <2>1 DEF old
  <2>6. \A j \in Ifaces \ {i} : can.sock[j] # Closed => can.sock[j] # new
    BY <1>7, <2>1, <2>2
  <2>7. \A j \in Ifaces \ {i} : can.sock[j] # Closed => k[can.sock[j]] = j
    BY <2>1, <2>5, <2>6
  <2> QED
    BY <2>2, <2>3, <2>4, <2>5, <2>6, <2>7
<1> HIDE DEF k
<1>9. Owned'
  <2> SUFFICES ASSUME ~hist.failed, NEW j \in Ifaces, can'.sock[j] # Closed
               PROVE  kern'[can'.sock[j]] = j
                      /\ (j \notin hist'.deaf => <<can'.sock[j], j>> \in epoll'.recv)
    BY <1>5 DEF Owned
  <2>1. CASE j = i
    <3>1. can'.sock[j] = new
      BY <1>3, <1>6, <2>1
    <3> QED
      BY <1>4, <1>7, <1>8, <2>1, <3>1, RegsSelf
  <2>2. CASE j # i
    <3>1. can'.sock[j] = can.sock[j] /\ can.sock[j] # old
      BY <1>3, <1>6, <1>8, <2>2
    <3>2. kern'[can.sock[j]] = j
      BY <1>7, <1>8, <2>2, <3>1
    <3>3. j \notin hist'.deaf => <<can.sock[j], j>> \in epoll.recv
      BY <1>5, <2>2, <3>1 DEF SocketInv, Owned
    <3>4. can.sock[j] # new
      BY <1>8, <2>2, <3>1
    <3> QED
      BY <1>4, <3>1, <3>2, <3>3, <3>4, RegsOther
  <2> QED
    BY <2>1, <2>2
<1>10. Listening'
  <2> SUFFICES ASSUME ~hist.failed, NEW j \in Known, ~Awake
               PROVE  Watched(j)' \/ j \in hist'.swapped
    BY <1>3, <1>5, <1>6 DEF Listening, Known
  <2>1. j \in Ifaces /\ (Watched(j) \/ j \in hist.swapped)
    BY <1>1, <1>6, KnownFacts DEF SocketInv, Listening
  <2>2. CASE j = i
    BY <1>5, <2>2
  <2>3. CASE j # i
    <3>1. can'.sock[j] = can.sock[j] /\ (can.sock[j] # Closed => can.sock[j] # old)
      BY <1>3, <1>6, <1>8, <2>1, <2>3
    <3> QED
      BY <1>3, <1>4, <1>5, <2>1, <3>1, RegsOther DEF Watched
  <2> QED
    BY <2>2, <2>3
<1> QED
  BY <1>9, <1>10 DEF SocketInv

LEMMA ConfigEndSockets ==
  ASSUME TypeInv, SocketInv, ConfigEnd
  PROVE  SocketInv'
<1>1. Owned'
  BY OwnedKept DEF SocketInv, ConfigEnd
<1>2. Awake => Awake'
  BY DEF ConfigEnd, Awake
<1>3. Listening'
  BY <1>2, ListeningKept DEF SocketInv, ConfigEnd, Known
<1> QED
  BY <1>1, <1>3 DEF SocketInv

\* The steps of the sender: it is up until it has registered each interface.
LEMMA SendAwakeSockets ==
  ASSUME TypeInv, SocketInv,
         SendWake \/ SendLock \/ SendScan \/ SendPop \/ SendRead \/ SendOk \/ SendError
         \/ SendAgain \/ SendStore
  PROVE  SocketInv'
<1>1. BusType /\ can \in Cans /\ hist \in Hists /\ epoll \in Epolls /\ send \in Sends
  BY DEF TypeInv, BusType
<1>2. can.sock' = can.sock
  <2>1. can' = can \/ \E q : can' = [can EXCEPT !.txq[send.i] = q]
    BY DEF SendWake, SendLock, SendScan, SendPop, SendRead, SendOk, SendError, SendAgain, SendStore
  <2>2. ASSUME NEW q, can' = [can EXCEPT !.txq[send.i] = q]
        PROVE  can'.sock = can.sock
    BY <1>1, <2>2 DEF Cans
  <2> QED
    BY <2>1, <2>2
<1>3. kern' = kern
  BY DEF SendWake, SendLock, SendScan, SendPop, SendRead, SendOk, SendError, SendAgain, SendStore
<1>4. epoll.recv' = epoll.recv
  <2>1. epoll' = epoll \/ epoll' = [epoll EXCEPT !.efd = FALSE]
    BY DEF SendWake, SendLock, SendScan, SendPop, SendRead, SendOk, SendError, SendAgain, SendStore
  <2> QED
    BY <1>1, <2>1 DEF Epolls
<1>5. hist.failed' = hist.failed /\ hist.deaf' = hist.deaf
  <2>1. \/ hist' = hist
        \/ hist' = [hist EXCEPT !.sent = Append(@, send.frame)]
        \/ hist' = [hist EXCEPT !.back = @ \cup {send.frame}]
        \/ hist' = [hist EXCEPT !.lost = @ \cup {send.frame}]
    BY DEF SendWake, SendLock, SendScan, SendPop, SendRead, SendOk, SendError, SendAgain, SendStore
  <2> QED
    BY <1>1, <2>1 DEF Hists
<1>6. Owned'
  BY <1>2, <1>3, <1>4, <1>5, OwnedKept DEF SocketInv
<1>7. send'.pc \in AtWork \cup {"lock", "scan"}
  BY <1>1
  DEF SendWake, SendLock, SendScan, SendPop, SendRead, SendOk, SendError, SendAgain, SendStore,
      AtWork, Sends
<1> QED
  BY <1>6, <1>7, AwakeListens DEF SocketInv, Awake

LEMMA SendScannedSockets ==
  ASSUME TypeInv, SocketInv, SendScanned
  PROVE  SocketInv'
<1>1. Owned'
  BY OwnedKept DEF SocketInv, SendScanned
<1>2. BusType /\ send \in Sends
  BY DEF TypeInv, BusType
<1>3. send'.pc = "update" /\ send'.i = 0
  BY <1>2 DEF SendScanned, Sends
<1>4. Known' = Known /\ \A i \in Known : i >= 0
  BY <1>2, Typed DEF SendScanned, Known
<1>5. Listening'
  BY <1>3, <1>4 DEF Listening
<1> QED
  BY <1>1, <1>5 DEF SocketInv

LEMMA SendUpdateSockets ==
  ASSUME TypeInv, SocketInv, SendUpdate
  PROVE  SocketInv'
<1> DEFINE i == send.i
           f == can.sock[i]
<1>1. BusType /\ send \in Sends /\ epoll \in Epolls /\ i \in Known /\ i \in Ifaces
  BY KnownFacts DEF TypeInv, BusType, SendUpdate
<1>2. /\ epoll.send' = UpdateTx(epoll.send, kern, f, can.txq[i], i)
      /\ epoll.recv' = epoll.recv /\ epoll.efd' = epoll.efd
  <2> DEFINE s == UpdateTx(epoll.send, kern, f, can.txq[i], i)
  <2>1. epoll' = [epoll EXCEPT !.send = s]
    BY DEF SendUpdate
  <2> HIDE DEF s
  <2>2. epoll.send' = s /\ epoll.recv' = epoll.recv /\ epoll.efd' = epoll.efd
    BY <1>1, <2>1 DEF Epolls
  <2> QED
    BY <2>2 DEF s
<1>3. Owned'
  BY <1>2, OwnedKept DEF SocketInv, SendUpdate
<1>4. send.pc = "update" /\ send'.pc = "update" /\ send'.i = i + 1
  BY <1>1 DEF SendUpdate, Sends
<1>5. can' = can /\ hist' = hist /\ http' = http /\ kern' = kern
  BY DEF SendUpdate
<1>6. i \in Nat /\ \A j \in Known : j \in Nat /\ j \in Ifaces
  <2>1. Known \subseteq Ifaces
    BY <1>1, KnownFacts
  <2>2. \A j \in Ifaces : j \in Nat
    BY NumberFacts DEF Ifaces
  <2> QED
    BY <1>1, <2>1, <2>2
<1>7. can.sock \in [Ifaces -> Fds \cup {Closed}] /\ can.txq[i].used \in Nat
  <2>1. can.sock \in [Ifaces -> Fds \cup {Closed}] /\ can.txq[i] \in Queues
    BY <1>1, Typed
  <2> QED
    BY <2>1 DEF Queues
<1> HIDE DEF i, f
<1>8. Listening'
  <2> SUFFICES ASSUME ~hist.failed, NEW j \in Known, ~Awake, j < i + 1
               PROVE  Watched(j)'
    <3>1. Known' = Known /\ (Awake' <=> Awake)
      BY <1>2, <1>4, <1>5 DEF Known, Awake, AtWork
    <3>2. \A j \in Known : j < i + 1 \/ j >= i + 1
      BY <1>6
    <3> QED
      BY <1>4, <1>5, <3>1, <3>2 DEF Listening
  <2>1. CASE j = i
    <3>1. can.sock[j] # Closed => f \in Fds /\ kern[f] # Free /\ f = can.sock[j]
      BY <1>1, <1>7, <2>1, NumberFacts DEF f, SocketInv, Owned
    <3> QED
      BY <1>2, <1>5, <1>7, <2>1, <3>1, RegsSelf DEF Watched
  <2>2. CASE j # i
    <3>1. j < i
      BY <1>6, <2>2
    <3>2. Watched(j)
      BY <1>4, <1>6, <3>1 DEF SocketInv, Listening, i
    <3>3. can.sock[j] # Closed => can.sock[j] # f
      BY <1>1, <1>6, <2>2 DEF SocketInv, Owned, f
    <3> QED
      BY <1>2, <1>5, <3>2, <3>3, RegsOther DEF Watched
  <2> QED
    BY <2>1, <2>2
<1> QED
  BY <1>3, <1>8 DEF SocketInv

LEMMA SendUnlockSockets ==
  ASSUME TypeInv, SocketInv, SendUnlock
  PROVE  SocketInv'
<1>1. BusType /\ hist \in Hists /\ can.count \in Nat /\ send.i \in Nat
  BY Typed DEF TypeInv, BusType
<1>2. hist.failed' = hist.failed /\ hist.deaf' = hist.deaf
  BY <1>1 DEF SendUnlock, Hists
<1>3. Owned'
  BY <1>2, OwnedKept DEF SocketInv, SendUnlock
<1>4. \A i \in Known : ~(i >= send.i)
  BY <1>1 DEF SendUnlock, Known
<1>5. can' = can /\ epoll' = epoll /\ http' = http /\ Known' = Known
  BY DEF SendUnlock, Known
<1>6. send.pc = "update" /\ (Awake => Awake')
  BY <1>5 DEF SendUnlock, Awake, AtWork
<1>7. Listening'
  BY <1>2, <1>4, <1>5, <1>6 DEF SocketInv, Listening, Watched
<1> QED
  BY <1>3, <1>7 DEF SocketInv

\* The steps of the receiver.
LEMMA ReconnectSockets ==
  ASSUME TypeInv, SocketInv, NEW i \in Ifaces, Reconnect(i)
  PROVE  SocketInv'
<1> DEFINE old == can.sock[i]
<1>1. BusType /\ epoll \in Epolls /\ hist \in Hists /\ can \in Cans
      /\ kern \in [Fds -> 0 .. NIfaces] /\ can.sock \in [Ifaces -> Fds \cup {Closed}]
      /\ can.txq \in [Ifaces -> Queues]
  BY Typed DEF TypeInv, BusType
<1>2. PICK new \in Fds :
        LET k == [f \in Fds |-> IF f = new THEN i ELSE IF f = old THEN Free ELSE kern[f]]
        IN /\ Lowest([kern EXCEPT ![old] = Free], new)
           /\ kern' = k
           /\ can' = [can EXCEPT !.sock[i] = new]
           /\ epoll' = [epoll EXCEPT
               !.recv = WithFd(Without(@, old), k, new, i),
               !.send = UpdateTx(Without(@, old), k, new, can.txq[i], i)]
           /\ hist' = [hist EXCEPT !.errors = @ + 1, !.deaf = @ \ {i}, !.swapped = @ \ {i}]
  BY DEF Reconnect
<1> DEFINE k == [f \in Fds |-> IF f = new THEN i ELSE IF f = old THEN Free ELSE kern[f]]
<1>3. /\ can.count' = can.count /\ can.txq' = can.txq
      /\ can.sock' = [can.sock EXCEPT ![i] = new]
  BY <1>1, <1>2 DEF Cans
<1>4. /\ epoll.recv' = WithFd(Without(epoll.recv, old), k, new, i)
      /\ epoll.send' = UpdateTx(Without(epoll.send, old), k, new, can.txq[i], i)
      /\ epoll.efd' = epoll.efd
  <2> DEFINE r == WithFd(Without(epoll.recv, old), k, new, i)
             s == UpdateTx(Without(epoll.send, old), k, new, can.txq[i], i)
  <2>1. epoll' = [epoll EXCEPT !.recv = r, !.send = s]
    BY <1>2
  <2> HIDE DEF r, s
  <2>2. epoll.recv' = r /\ epoll.send' = s /\ epoll.efd' = epoll.efd
    BY <1>1, <2>1 DEF Epolls
  <2> QED
    BY <2>2 DEF r, s
<1>5. /\ hist.failed' = hist.failed /\ hist.deaf' = hist.deaf \ {i}
      /\ hist.swapped' = hist.swapped \ {i}
  <2> DEFINE d == hist.deaf \ {i}
             s == hist.swapped \ {i}
             n == hist.errors + 1
  <2>1. hist' = [hist EXCEPT !.errors = n, !.deaf = d, !.swapped = s]
    BY <1>2
  <2> HIDE DEF d, s, n
  <2>2. hist.failed' = hist.failed /\ hist.deaf' = d /\ hist.swapped' = s
    BY <1>1, <2>1 DEF Hists
  <2> QED
    BY <2>2 DEF d, s
<1>6. /\ http' = http /\ send' = send /\ mutex = "none"
  BY DEF Reconnect, Ready
<1>7. send.pc # "update" /\ (Awake' <=> Awake)
  BY <1>4, <1>6 DEF TypeInv, Working, Awake
<1>8. kern' = k /\ (new = old \/ kern[new] = Free)
  <2>1. kern' = k /\ [kern EXCEPT ![old] = Free][new] = Free
    BY <1>2 DEF Lowest
  <2> QED
    BY <1>1, <2>1
<1> HIDE DEF old
<1>9. k[new] = i /\ i # Free
  BY NumberFacts
<1>10. ASSUME ~hist.failed, NEW j \in Ifaces \ {i}, can.sock[j] # Closed
       PROVE  can.sock[j] # old /\ can.sock[j] # new /\ k[can.sock[j]] = j
  <2>1. can.sock[j] \in Fds /\ kern[can.sock[j]] = j /\ j # Free
    BY <1>1, <1>10, NumberFacts DEF SocketInv, Owned
  <2>2. can.sock[j] # old
    <3>1. ASSUME can.sock[j] = old PROVE FALSE
      <4>1. kern[old] = i
        BY <1>10, <3>1 DEF SocketInv, Owned, old
      <4> QED
        BY <2>1, <3>1, <4>1
    <3> QED
      BY <3>1
  <2>3. can.sock[j] # new
    BY <1>8, <2>1, <2>2
  <2> QED
    BY <2>1, <2>2, <2>3
<1> HIDE DEF k
<1>11. Owned'
  <2> SUFFICES ASSUME ~hist.failed, NEW j \in Ifaces, can'.sock[j] # Closed
               PROVE  kern'[can'.sock[j]] = j
                      /\ (j \notin hist'.deaf => <<can'.sock[j], j>> \in epoll'.recv)
    BY <1>5 DEF Owned
  <2>1. CASE j = i
    <3>1. can'.sock[j] = new
      BY <1>1, <1>3, <2>1
    <3> QED
      BY <1>4, <1>8, <1>9, <2>1, <3>1, RegsSelf
  <2>2. CASE j # i
    <3>1. can'.sock[j] = can.sock[j] /\ can.sock[j] # old
      BY <1>1, <1>3, <1>10, <2>2
    <3>2. kern'[can.sock[j]] = j /\ can.sock[j] # new
      BY <1>8, <1>10, <2>2, <3>1
    <3>3. j \notin hist'.deaf => <<can.sock[j], j>> \in epoll.recv
      BY <1>5, <2>2, <3>1 DEF SocketInv, Owned
    <3> QED
      BY <1>4, <3>1, <3>2, <3>3, RegsOther
  <2> QED
    BY <2>1, <2>2
<1>12. Listening'
  <2> SUFFICES ASSUME ~hist.failed, NEW j \in Known, ~Awake
               PROVE  Watched(j)' \/ j \in hist'.swapped
    BY <1>3, <1>5, <1>6, <1>7 DEF Listening, Known
  <2>1. j \in Ifaces /\ (Watched(j) \/ j \in hist.swapped)
    BY <1>1, <1>7, KnownFacts DEF SocketInv, Listening
  <2>2. CASE j = i
    <3>1. can'.sock[j] = new /\ can.txq[j].used \in Nat
      <4>1. can.txq[j] \in Queues
        BY <1>1, <2>1
      <4> QED
        BY <1>1, <1>3, <2>2, <4>1 DEF Queues
    <3>2. can.txq[i].used > 0 => <<new, i>> \in epoll'.send
      BY <1>4, <1>9, RegsSelf
    <3> QED
      BY <1>3, <2>2, <3>1, <3>2 DEF Watched
  <2>3. CASE j # i
    <3>1. can'.sock[j] = can.sock[j]
          /\ (can.sock[j] # Closed => can.sock[j] # old /\ can.sock[j] # new)
      BY <1>1, <1>3, <1>10, <2>1, <2>3
    <3> QED
      BY <1>3, <1>4, <1>5, <2>1, <2>3, <3>1, RegsOther DEF Watched
  <2> QED
    BY <2>2, <2>3
<1> QED
  BY <1>11, <1>12 DEF SocketInv

LEMMA LeftClosedSockets ==
  ASSUME TypeInv, NEW i, LeftClosed(i)
  PROVE  SocketInv'
<1>1. hist \in Hists
  BY DEF TypeInv, BusType
<1>2. hist'.failed
  BY <1>1 DEF LeftClosed, Hists
<1> QED
  BY <1>2 DEF SocketInv, Owned, Listening

\* The invariant of the sockets and the registrations holds for any number of interfaces
\* and descriptors, whatever number the kernel gives again.
THEOREM SocketCorrect == Spec => []SocketInv
<1>1. Init => SocketInv
  <2> SUFFICES ASSUME Init PROVE SocketInv
    OBVIOUS
  <2>1. \A i \in Ifaces : can.txq[i].used = 0
    BY Started DEF EmptyQueue
  <2>2. Owned
    BY Started DEF Owned
  <2>3. TypeInv
    BY InitType
  <2>4. Known \subseteq Ifaces
    BY <2>3, KnownFacts DEF TypeInv
  <2>5. Listening
    BY <2>1, <2>4 DEF Listening, Watched
  <2> QED
    BY <2>2, <2>5 DEF SocketInv
<1>2. TypeInv /\ SocketInv /\ [Next]_vars => SocketInv'
  <2> SUFFICES ASSUME TypeInv, SocketInv, [Next]_vars PROVE SocketInv'
    OBVIOUS
  <2>1. CASE \E i \in Ifaces : TxFrame(i)
    BY <2>1, TxFrameSockets
  <2>2. CASE \E new \in 0 .. NIfaces : ConfigBegin(new)
    BY <2>2, ConfigBeginSockets
  <2>3. CASE Http
    BY <2>3, TxStoreSockets, TxSignalSockets, ConfigureFailsSockets, OpenFailsSockets,
       AppliedSockets, ConfigEndSockets DEF Http
  <2>4. CASE Sender
    BY <2>4, SendAwakeSockets, SendScannedSockets, SendUpdateSockets, SendUnlockSockets
    DEF Sender
  <2>5. CASE Receiver
    BY <2>5, ReconnectSockets, LeftClosedSockets DEF Receiver
  <2>6. CASE UNCHANGED vars
    BY <2>6 DEF vars, SocketInv, Owned, Listening, Watched, Awake, Known
  <2> QED
    BY <2>1, <2>2, <2>3, <2>4, <2>5, <2>6 DEF Next
<1> QED
  BY <1>1, <1>2, TypeCorrect, PTL DEF Spec

\* sock_fd names the interface's own socket, and can_recv_task hears of it, until a
\* reconnection fails (handle_can_input, apply_can).
THEOREM SocketsHeardCorrect == Spec => []SocketsHeard
<1>1. SocketInv => SocketsHeard
  BY DEF SocketInv, Owned, SocketsHeard
<1> QED
  BY <1>1, SocketCorrect, PTL

\* A sender that sleeps with frames to write is woken for them: can_epoll_update_tx runs
\* over the interfaces under can_mutex while can_tx_frame pushes without it, and the
\* eventfd makes up for the interfaces it has passed.
THEOREM ArmedCorrect == Spec => []Armed
<1>1. TypeInv /\ SocketInv => Armed
  BY DEF TypeInv, Working, SocketInv, Listening, Watched, Awake, AtWork, Armed
<1> QED
  BY <1>1, TypeCorrect, SocketCorrect, PTL

-----------------------------------------------------------------------------
(* What a queue holds. *)

\* How many frames a queue holds, the one being popped included.
Held(q) == Cap - q.free - (IF q.pusher = "none" THEN 0 ELSE 1)

\* The index that is n cells after t.
Past(t, n) == IF t + n < Cap THEN t + n ELSE t + n - Cap

\* The head is behind the last frame.
Packed(q) == Held(q) \in 0 .. Cap /\ q.head = Past(q.tail, Held(q))

\* The remainder in the array is a single wrap.
LEMMA PastWraps ==
  ASSUME NEW t \in Index, NEW n \in 0 .. Cap
  PROVE  (t + n) % Cap = Past(t, n) /\ Past(t, n) \in Index
<1>1. Cap \in Nat \ {0} /\ t \in Nat /\ t < Cap /\ n \in Nat /\ n <= Cap
  BY NumberFacts DEF Index
<1>2. CASE t + n < Cap
  BY <1>1, <1>2 DEF Past, Index
<1>3. CASE ~(t + n < Cap)
  <2>1. t + n - Cap \in Nat /\ t + n - Cap < Cap
    BY <1>1, <1>3
  <2>2. (t + n) % Cap = t + n - Cap
    BY <1>1, <1>3, <2>1
  <2> QED
    BY <1>1, <1>3, <2>1, <2>2 DEF Past, Index
<1> QED
  BY <1>2, <1>3

\* The frames of a queue are as many as it holds, from the tail on.
LEMMA ContentsOf ==
  ASSUME NEW q \in Queues, Held(q) \in 0 .. Cap
  PROVE  /\ Contents(q) \in Seq(Nat) /\ Len(Contents(q)) = Held(q)
         /\ \A k \in 1 .. Held(q) : Contents(q)[k] = q.cell[Past(q.tail, k - 1)]
<1>1. q.cell \in [Index -> Nat] /\ q.tail \in Index /\ Cap \in Nat \ {0}
  BY NumberFacts DEF Queues
<1>2. Contents(q) = [k \in 1 .. Held(q) |-> q.cell[(q.tail + k - 1) % Cap]]
  BY DEF Contents, Held
<1>3. ASSUME NEW k \in 1 .. Held(q)
      PROVE  /\ (q.tail + k - 1) % Cap = Past(q.tail, k - 1)
             /\ Past(q.tail, k - 1) \in Index
  <2>1. k - 1 \in 0 .. Cap /\ q.tail + k - 1 = q.tail + (k - 1)
    BY <1>1 DEF Index
  <2> QED
    BY <1>1, <2>1, PastWraps
<1>4. \A k \in 1 .. Held(q) : Contents(q)[k] = q.cell[Past(q.tail, k - 1)]
  BY <1>2, <1>3
<1>5. \A k \in 1 .. Held(q) : q.cell[(q.tail + k - 1) % Cap] \in Nat
  BY <1>1, <1>3
<1>6. Held(q) \in Nat
  BY <1>1
<1>7. Contents(q) \in [1 .. Held(q) -> Nat]
  BY <1>2, <1>5
<1> QED
  BY <1>4, <1>6, <1>7

\* What a sequence becomes when a frame is added at its end, or taken from its front.
Added(s, t, f) ==
  /\ Len(t) = Len(s) + 1 /\ t[Len(s) + 1] = f
  /\ \A k \in 1 .. Len(s) : t[k] = s[k]

Dropped(s, t) ==
  /\ Len(s) > 0 /\ Len(t) = Len(s) - 1
  /\ \A k \in 1 .. Len(t) : t[k] = s[k + 1]

\* A claim and a reservation leave the frames; a store adds one at the end; a
\* release takes the first.
LEMMA ClaimedContents ==
  ASSUME NEW q \in Queues, Packed(q), ~Refuses(q), NEW who \in {"http", "send"}
  PROVE  /\ Packed(Claimed(q, who)) /\ Held(Claimed(q, who)) = Held(q)
         /\ Contents(Claimed(q, who)) = Contents(q)
<1>1. q.free \in Nat /\ Cap \in Nat /\ q.pusher = "none"
  BY NumberFacts DEF Queues, Refuses
<1>2. Held(Claimed(q, who)) = Held(q)
  BY <1>1, QueueClaimed DEF Held
<1>3. Contents(Claimed(q, who)) = Contents(q)
  BY <1>2, QueueClaimed DEF Contents, Held
<1> QED
  BY <1>2, <1>3, QueueClaimed DEF Packed

LEMMA ReservedContents ==
  ASSUME NEW q \in Queues, Packed(q), q.used > 0
  PROVE  /\ Packed(Reserved(q)) /\ Held(Reserved(q)) = Held(q)
         /\ Contents(Reserved(q)) = Contents(q)
<1>1. Held(Reserved(q)) = Held(q)
  BY QueueReserved DEF Held
<1>2. Contents(Reserved(q)) = Contents(q)
  BY <1>1, QueueReserved DEF Contents, Held
<1> QED
  BY <1>1, <1>2, QueueReserved DEF Packed

LEMMA StoredContents ==
  ASSUME NEW q \in Queues, Packed(q), q.pusher # "none", NEW f \in Nat
  PROVE  /\ Packed(Stored(q, f)) /\ Held(Stored(q, f)) = Held(q) + 1
         /\ Added(Contents(q), Contents(Stored(q, f)), f)
<1> DEFINE r == Stored(q, f)
           n == Held(q)
<1>1. /\ r \in Queues /\ r.cell = [q.cell EXCEPT ![q.head] = f] /\ r.head = Advanced(q.head)
      /\ r.tail = q.tail /\ r.free = q.free /\ r.pusher = "none"
  BY QueueStored
<1>2. /\ q.free \in Nat /\ Cap \in Nat \ {0} /\ q.head \in Index /\ q.tail \in Index
      /\ q.cell \in [Index -> Nat] /\ n \in 0 .. Cap /\ q.head = Past(q.tail, n)
  BY NumberFacts DEF Queues, Packed
<1>3. Held(r) = n + 1 /\ n + 1 \in 0 .. Cap /\ n \in Nat
  BY <1>1, <1>2 DEF Held
<1> HIDE DEF r, n
<1>4. r.head = Past(r.tail, n + 1)
  <2>1. Advanced(q.head) = IF q.head + 1 = Cap THEN 0 ELSE q.head + 1
    BY <1>2, AdvancedType
  <2>2. q.tail \in Nat /\ q.tail < Cap
    BY <1>2 DEF Index
  <2> QED
    BY <1>1, <1>2, <1>3, <2>1, <2>2 DEF Past
<1>5. \A k \in 1 .. n : Past(q.tail, k - 1) # q.head /\ Past(q.tail, k - 1) \in Index
  <2>1. q.tail \in Nat /\ q.tail < Cap
    BY <1>2 DEF Index
  <2> TAKE k \in 1 .. n
  <2>2. k \in Nat /\ k >= 1 /\ k <= n /\ n + 1 <= Cap
    BY <1>3
  <2>3. Past(q.tail, k - 1) # Past(q.tail, n)
    BY <1>2, <1>3, <2>1, <2>2 DEF Past
  <2>4. Past(q.tail, k - 1) \in 0 .. Cap - 1
    BY <1>2, <1>3, <2>1, <2>2 DEF Past
  <2> QED
    BY <1>2, <2>3, <2>4 DEF Index
<1>6. Len(Contents(q)) = n /\ Len(Contents(r)) = n + 1
  BY <1>1, <1>2, <1>3, ContentsOf DEF n
<1>7. \A k \in 1 .. n : Contents(r)[k] = Contents(q)[k]
  <2> TAKE k \in 1 .. n
  <2>1. k \in 1 .. n + 1
    BY <1>3
  <2>2. Contents(r)[k] = r.cell[Past(q.tail, k - 1)]
    BY <1>1, <1>3, <2>1, ContentsOf
  <2>3. Contents(q)[k] = q.cell[Past(q.tail, k - 1)]
    BY <1>2, ContentsOf DEF n
  <2> QED
    BY <1>1, <1>2, <1>5, <2>2, <2>3
<1>8. Contents(r)[n + 1] = f
  <2>1. n + 1 \in 1 .. n + 1 /\ n + 1 - 1 = n
    BY <1>3
  <2>2. \A k \in 1 .. n + 1 : Contents(r)[k] = r.cell[Past(q.tail, k - 1)]
    BY <1>1, <1>3, ContentsOf
  <2>3. ASSUME NEW m \in 1 .. n + 1, m - 1 = n
        PROVE  Contents(r)[m] = r.cell[Past(q.tail, n)]
    BY <2>2, <2>3
  <2>4. Contents(r)[n + 1] = r.cell[Past(q.tail, n)]
    BY <1>3, <2>1, <2>3
  <2> QED
    BY <1>1, <1>2, <2>4
<1> QED
  BY <1>3, <1>4, <1>6, <1>7, <1>8 DEF Packed, Added, r, n

LEMMA ReleasedContents ==
  ASSUME NEW q \in Queues, Packed(q), Held(q) > 0
  PROVE  /\ Packed(Released(q)) /\ Held(Released(q)) = Held(q) - 1
         /\ Dropped(Contents(q), Contents(Released(q)))
         /\ Front(q) = Contents(q)[1]
<1> DEFINE r == Released(q)
           n == Held(q)
<1>1. /\ r \in Queues /\ r.cell = q.cell /\ r.head = q.head
      /\ r.tail = Advanced(q.tail) /\ r.free = q.free + 1 /\ r.pusher = q.pusher
  BY QueueReleased
<1>2. /\ q.free \in Nat /\ Cap \in Nat \ {0} /\ q.head \in Index /\ q.tail \in Index
      /\ q.cell \in [Index -> Nat] /\ n \in 0 .. Cap /\ q.head = Past(q.tail, n) /\ n > 0
  BY NumberFacts DEF Queues, Packed
<1>3. Held(r) = n - 1 /\ n - 1 \in 0 .. Cap /\ n \in Nat
  BY <1>1, <1>2 DEF Held
<1> HIDE DEF r, n
<1>4. /\ q.tail \in Nat /\ q.tail < Cap
      /\ r.tail = IF q.tail + 1 = Cap THEN 0 ELSE q.tail + 1
  <2>1. r.tail = IF q.tail + 1 = Cap THEN 0 ELSE q.tail + 1
    BY <1>1, <1>2, AdvancedType
  <2>2. q.tail \in Nat /\ q.tail < Cap
    BY <1>2 DEF Index
  <2> QED
    BY <2>1, <2>2
<1>5. r.head = Past(r.tail, n - 1)
  BY <1>1, <1>2, <1>3, <1>4 DEF Past
<1>6. Len(Contents(q)) = n /\ Len(Contents(r)) = n - 1
  BY <1>1, <1>2, <1>3, ContentsOf DEF n
<1>7. \A k \in 1 .. n - 1 : Contents(r)[k] = Contents(q)[k + 1]
  <2> TAKE k \in 1 .. n - 1
  <2>1. k + 1 \in 1 .. n /\ k + 1 - 1 = k /\ k \in Nat /\ k <= n - 1 /\ k >= 1
    BY <1>3
  <2>2. Contents(r)[k] = r.cell[Past(r.tail, k - 1)]
    BY <1>1, <1>3, ContentsOf
  <2>3. Contents(q)[k + 1] = q.cell[Past(q.tail, k)]
    BY <1>2, <2>1, ContentsOf DEF n
  <2>4. Past(r.tail, k - 1) = Past(q.tail, k)
    BY <1>2, <1>4, <2>1 DEF Past
  <2> QED
    BY <1>1, <2>2, <2>3, <2>4
<1>8. Contents(q)[1] = q.cell[q.tail]
  <2>1. 1 \in 1 .. n /\ Past(q.tail, 1 - 1) = q.tail
    BY <1>2, <1>4 DEF Past
  <2> QED
    BY <1>2, <2>1, ContentsOf DEF n
<1> QED
  BY <1>2, <1>3, <1>5, <1>6, <1>7, <1>8 DEF Packed, Dropped, Front, r, n

\* The queue at the start has none.
LEMMA EmptyContents ==
  /\ Packed(EmptyQueue) /\ Held(EmptyQueue) = 0 /\ Len(Contents(EmptyQueue)) = 0
  /\ EmptyQueue.used = 0 /\ EmptyQueue.pusher = "none"
<1>1. Cap \in Nat \ {0}
  BY NumberFacts
<1>2. /\ EmptyQueue.free = Cap /\ EmptyQueue.pusher = "none" /\ EmptyQueue.used = 0
      /\ EmptyQueue.head = 0 /\ EmptyQueue.tail = 0
  BY DEF EmptyQueue
<1>3. Held(EmptyQueue) = 0
  BY <1>1, <1>2 DEF Held
<1>4. Packed(EmptyQueue)
  BY <1>1, <1>2, <1>3 DEF Packed, Past
<1> QED
  BY <1>1, <1>2, <1>3, <1>4, EmptyQueueType, ContentsOf

-----------------------------------------------------------------------------
(* A frame is in one place. *)

\* C: the queues, of: the interfaces of the frames, hf, sf: in the threads' hands.
InQueue(C, of, f) == \E k \in 1 .. Len(C[of[f]]) : C[of[f]][k] = f

OnBus(sent, f) == \E m \in 1 .. Len(sent) : sent[m] = f

\* Exactly one of five.
OneOf(a, b, c, d, e) ==
  /\ a \/ b \/ c \/ d \/ e
  /\ ~(a /\ b) /\ ~(a /\ c) /\ ~(a /\ d) /\ ~(a /\ e) /\ ~(b /\ c) /\ ~(b /\ d)
  /\ ~(b /\ e) /\ ~(c /\ d) /\ ~(c /\ e) /\ ~(d /\ e)

\* No frame is twice in the queues or on the bus, and each is in its interface's.
QueuesOwn(C, of) ==
  \A i \in Ifaces : \A k \in 1 .. Len(C[i]) :
    /\ C[i][k] \in 1 .. Len(of) /\ of[C[i][k]] = i
    /\ \A l \in 1 .. Len(C[i]) : C[i][k] = C[i][l] => k = l

BusOwn(of, sent) ==
  \A m \in 1 .. Len(sent) :
    /\ sent[m] \in 1 .. Len(of)
    /\ \A n \in 1 .. Len(sent) : sent[m] = sent[n] => m = n

\* An accepted frame is in one place.
Somewhere(C, of, hf, sf, sent, lost) ==
  \A f \in 1 .. Len(of) :
    OneOf(InQueue(C, of, f), OnBus(sent, f), hf = f, sf = f, f \in lost)

Located(C, of, hf, sf, sent, lost) ==
  /\ QueuesOwn(C, of) /\ BusOwn(of, sent)
  /\ hf \in 0 .. Len(of) /\ sf \in 0 .. Len(of) /\ lost \subseteq 1 .. Len(of)
  /\ Somewhere(C, of, hf, sf, sent, lost)

\* A frame is accepted into the hand of the HTTP thread.
LEMMA AcceptLocated ==
  ASSUME NEW C, NEW of \in Seq(Ifaces), NEW sf, NEW sent, NEW lost, NEW i \in Ifaces,
         Located(C, of, 0, sf, sent, lost)
  PROVE  Located(C, Append(of, i), Len(of) + 1, sf, sent, lost)
<1> DEFINE n == Len(of)
           new == Append(of, i)
<1>1. n \in Nat /\ Len(new) = n + 1 /\ new[n + 1] = i
      /\ \A f \in 1 .. n : new[f] = of[f]
  OBVIOUS
<1> HIDE DEF n, new
<1>2. QueuesOwn(C, of) /\ BusOwn(of, sent) /\ Somewhere(C, of, 0, sf, sent, lost)
      /\ sf \in 0 .. n /\ lost \subseteq 1 .. n
  BY DEF Located, n
<1>3. \A j \in Ifaces : \A k \in 1 .. Len(C[j]) : C[j][k] \in 1 .. n
  BY <1>2 DEF QueuesOwn, n
<1>4. QueuesOwn(C, new)
  BY <1>1, <1>2, <1>3 DEF QueuesOwn, n
<1>5. BusOwn(new, sent)
  BY <1>1, <1>2 DEF BusOwn, n
<1>6. Somewhere(C, new, n + 1, sf, sent, lost)
  <2> SUFFICES ASSUME NEW f \in 1 .. n + 1
               PROVE  OneOf(InQueue(C, new, f), OnBus(sent, f), n + 1 = f, sf = f, f \in lost)
    BY <1>1 DEF Somewhere
  <2>1. CASE f \in 1 .. n
    <3>1. InQueue(C, new, f) <=> InQueue(C, of, f)
      BY <1>1, <2>1 DEF InQueue
    <3>2. OneOf(InQueue(C, of, f), OnBus(sent, f), 0 = f, sf = f, f \in lost)
      BY <1>2, <2>1 DEF Somewhere, n
    <3>3. 0 # f /\ n + 1 # f
      BY <1>1, <2>1
    <3> QED
      BY <3>1, <3>2, <3>3 DEF OneOf
  <2>2. CASE f = n + 1
    <3>1. ~InQueue(C, new, f)
      BY <1>1, <1>3, <2>2 DEF InQueue
    <3>2. ~OnBus(sent, f)
      BY <1>1, <1>2, <2>2 DEF OnBus, BusOwn, n
    <3>3. sf # f /\ f \notin lost
      BY <1>1, <1>2, <2>2
    <3> QED
      BY <2>2, <3>1, <3>2, <3>3 DEF OneOf
  <2> QED
    BY <1>1, <2>1, <2>2
<1> QED
  BY <1>1, <1>2, <1>4, <1>5, <1>6 DEF Located, n, new

\* It goes from a hand into its queue.
LEMMA StoredLocated ==
  ASSUME NEW C, NEW D, NEW of \in Seq(Ifaces), NEW hf, NEW sf, NEW h, NEW s, NEW sent,
         NEW lost, NEW f \in 1 .. Len(of),
         Located(C, of, hf, sf, sent, lost),
         \A i \in Ifaces : Len(C[i]) \in Nat,
         Added(C[of[f]], D[of[f]], f),
         \A j \in Ifaces : j # of[f] => D[j] = C[j],
         \/ hf = f /\ h = 0 /\ s = sf
         \/ sf = f /\ s = 0 /\ h = hf
  PROVE  Located(D, of, h, s, sent, lost)
<1>1. /\ QueuesOwn(C, of) /\ BusOwn(of, sent) /\ Somewhere(C, of, hf, sf, sent, lost)
      /\ hf \in 0 .. Len(of) /\ sf \in 0 .. Len(of) /\ lost \subseteq 1 .. Len(of)
      /\ Len(of) \in Nat /\ of[f] \in Ifaces
  BY DEF Located
<1>2. OneOf(InQueue(C, of, f), OnBus(sent, f), hf = f, sf = f, f \in lost)
  BY <1>1 DEF Somewhere
<1>3. ~InQueue(C, of, f) /\ ~OnBus(sent, f) /\ f \notin lost /\ h # f /\ s # f
  BY <1>1, <1>2 DEF OneOf
<1>4. \A k \in 1 .. Len(C[of[f]]) : C[of[f]][k] # f
  BY <1>3 DEF InQueue
<1>5. QueuesOwn(D, of)
  <2> SUFFICES ASSUME NEW i \in Ifaces, NEW k \in 1 .. Len(D[i])
               PROVE  /\ D[i][k] \in 1 .. Len(of) /\ of[D[i][k]] = i
                      /\ \A l \in 1 .. Len(D[i]) : D[i][k] = D[i][l] => k = l
    BY DEF QueuesOwn
  <2>1. CASE i # of[f]
    BY <1>1, <2>1 DEF QueuesOwn
  <2>2. CASE i = of[f]
    <3> DEFINE n == Len(C[i])
               c == C[i]
               d == D[i]
    <3>1. n \in Nat /\ Len(d) = n + 1 /\ d[n + 1] = f /\ \A l \in 1 .. n : d[l] = c[l]
      BY <2>2 DEF Added
    <3>2. \A l \in 1 .. n : /\ c[l] \in 1 .. Len(of) /\ of[c[l]] = i /\ c[l] # f
                            /\ \A m \in 1 .. n : c[l] = c[m] => l = m
      BY <1>1, <1>4, <2>2 DEF QueuesOwn
    <3> HIDE DEF n, c, d
    <3>3. k \in 1 .. n \/ k = n + 1
      BY <3>1 DEF d
    <3>4. \A l \in 1 .. n + 1 : l \in 1 .. n \/ l = n + 1
      BY <3>1
    <3>5. d[k] \in 1 .. Len(of) /\ of[d[k]] = i
      BY <2>2, <3>1, <3>2, <3>3
    <3>6. \A l \in 1 .. n + 1 : d[k] = d[l] => k = l
      BY <3>1, <3>2, <3>3, <3>4
    <3> QED
      BY <3>1, <3>5, <3>6 DEF d
  <2> QED
    BY <2>1, <2>2
<1>6. Somewhere(D, of, h, s, sent, lost)
  <2> SUFFICES ASSUME NEW g \in 1 .. Len(of)
               PROVE  OneOf(InQueue(D, of, g), OnBus(sent, g), h = g, s = g, g \in lost)
    BY DEF Somewhere
  <2>1. CASE g = f
    <3>1. InQueue(D, of, f)
      <4>1. Len(D[of[f]]) \in 1 .. Len(D[of[f]]) /\ D[of[f]][Len(D[of[f]])] = f
        BY <1>1 DEF Added
      <4> QED
        BY <4>1 DEF InQueue
    <3> QED
      BY <1>3, <2>1, <3>1 DEF OneOf
  <2>2. CASE g # f
    <3>1. InQueue(D, of, g) <=> InQueue(C, of, g)
      <4>1. CASE of[g] # of[f]
        BY <1>1, <4>1 DEF InQueue
      <4>2. CASE of[g] = of[f]
        <5> DEFINE c == C[of[f]]
                   d == D[of[f]]
        <5>1. /\ Len(c) \in Nat /\ Len(d) = Len(c) + 1 /\ d[Len(c) + 1] = f
              /\ \A l \in 1 .. Len(c) : d[l] = c[l]
          BY <1>1 DEF Added
        <5> HIDE DEF c, d
        <5>2. (\E k \in 1 .. Len(d) : d[k] = g) <=> (\E k \in 1 .. Len(c) : c[k] = g)
          <6>1. \A k \in 1 .. Len(c) + 1 : k \in 1 .. Len(c) \/ k = Len(c) + 1
            BY <5>1
          <6>2. \A k \in 1 .. Len(c) : k \in 1 .. Len(c) + 1
            BY <5>1
          <6> QED
            BY <2>2, <5>1, <6>1, <6>2
        <5> QED
          BY <4>2, <5>2 DEF InQueue, c, d
      <4> QED
        BY <4>1, <4>2
    <3>2. OneOf(InQueue(C, of, g), OnBus(sent, g), hf = g, sf = g, g \in lost)
      BY <1>1 DEF Somewhere
    <3>3. (h = g <=> hf = g) /\ (s = g <=> sf = g)
      BY <2>2
    <3> QED
      BY <3>1, <3>2, <3>3 DEF OneOf
  <2> QED
    BY <2>1, <2>2
<1>7. h \in 0 .. Len(of) /\ s \in 0 .. Len(of)
  BY <1>1
<1> QED
  BY <1>1, <1>5, <1>6, <1>7 DEF Located

LEMMA HttpStoredLocated ==
  ASSUME NEW C, NEW D, NEW of \in Seq(Ifaces), NEW sf, NEW sent, NEW lost,
         NEW f \in 1 .. Len(of),
         Located(C, of, f, sf, sent, lost),
         \A i \in Ifaces : Len(C[i]) \in Nat,
         Added(C[of[f]], D[of[f]], f),
         \A j \in Ifaces : j # of[f] => D[j] = C[j]
  PROVE  Located(D, of, 0, sf, sent, lost)
BY StoredLocated

LEMMA SendStoredLocated ==
  ASSUME NEW C, NEW D, NEW of \in Seq(Ifaces), NEW hf, NEW sent, NEW lost,
         NEW f \in 1 .. Len(of),
         Located(C, of, hf, f, sent, lost),
         \A i \in Ifaces : Len(C[i]) \in Nat,
         Added(C[of[f]], D[of[f]], f),
         \A j \in Ifaces : j # of[f] => D[j] = C[j]
  PROVE  Located(D, of, hf, 0, sent, lost)
BY StoredLocated

\* It goes from the front of the queue into the hand of the sender.
LEMMA ReadLocated ==
  ASSUME NEW C, NEW D, NEW of \in Seq(Ifaces), NEW hf, NEW sent, NEW lost, NEW i \in Ifaces,
         Located(C, of, hf, 0, sent, lost),
         \A j \in Ifaces : Len(C[j]) \in Nat,
         Dropped(C[i], D[i]),
         \A j \in Ifaces : j # i => D[j] = C[j]
  PROVE  /\ Located(D, of, hf, C[i][1], sent, lost)
         /\ C[i][1] \in 1 .. Len(of) /\ of[C[i][1]] = i
<1> DEFINE c == C[i]
           d == D[i]
           f == C[i][1]
<1>1. /\ QueuesOwn(C, of) /\ BusOwn(of, sent) /\ Somewhere(C, of, hf, 0, sent, lost)
      /\ hf \in 0 .. Len(of) /\ lost \subseteq 1 .. Len(of) /\ Len(of) \in Nat
  BY DEF Located
<1>2. /\ Len(c) \in Nat /\ Len(c) > 0 /\ Len(d) = Len(c) - 1 /\ c[1] = f
      /\ \A k \in 1 .. Len(d) : d[k] = c[k + 1]
  BY DEF Dropped
<1>3. 1 \in 1 .. Len(c) /\ \A k \in 1 .. Len(d) : k + 1 \in 1 .. Len(c) /\ k + 1 # 1
  BY <1>2
<1>4. f \in 1 .. Len(of) /\ of[f] = i
  BY <1>1, <1>3 DEF QueuesOwn
<1>5. \A k \in 1 .. Len(c) : /\ c[k] \in 1 .. Len(of) /\ of[c[k]] = i
                             /\ \A l \in 1 .. Len(c) : c[k] = c[l] => k = l
  BY <1>1 DEF QueuesOwn
<1> HIDE DEF c, d, f
<1>6. QueuesOwn(D, of)
  <2> SUFFICES ASSUME NEW j \in Ifaces, NEW k \in 1 .. Len(D[j])
               PROVE  /\ D[j][k] \in 1 .. Len(of) /\ of[D[j][k]] = j
                      /\ \A l \in 1 .. Len(D[j]) : D[j][k] = D[j][l] => k = l
    BY DEF QueuesOwn
  <2>1. CASE j # i
    BY <1>1, <2>1 DEF QueuesOwn
  <2>2. CASE j = i
    <3>1. k \in 1 .. Len(d)
      BY <2>2 DEF d
    <3>2. d[k] \in 1 .. Len(of) /\ of[d[k]] = i
      BY <1>2, <1>3, <1>5, <3>1
    <3>3. \A l \in 1 .. Len(d) : d[k] = d[l] => k = l
      <4> SUFFICES ASSUME NEW l \in 1 .. Len(d), d[k] = d[l] PROVE k = l
        OBVIOUS
      <4>1. k + 1 = l + 1
        BY <1>2, <1>3, <1>5, <3>1
      <4> QED
        BY <1>2, <3>1, <4>1
    <3> QED
      BY <2>2, <3>2, <3>3 DEF d
  <2> QED
    BY <2>1, <2>2
<1>7. Somewhere(D, of, hf, f, sent, lost)
  <2> SUFFICES ASSUME NEW g \in 1 .. Len(of)
               PROVE  OneOf(InQueue(D, of, g), OnBus(sent, g), hf = g, f = g, g \in lost)
    BY DEF Somewhere
  <2>1. OneOf(InQueue(C, of, g), OnBus(sent, g), hf = g, 0 = g, g \in lost)
    BY <1>1 DEF Somewhere
  <2>2. 0 # g
    BY <1>1
  <2>3. CASE g = f
    <3>1. InQueue(C, of, g)
      BY <1>2, <1>3, <1>4, <2>3 DEF InQueue, c
    <3>2. ~InQueue(D, of, g)
      <4>1. \A k \in 1 .. Len(d) : d[k] # f
        BY <1>2, <1>3, <1>5
      <4> QED
        BY <1>4, <2>3, <4>1 DEF InQueue, d
    <3> QED
      BY <2>1, <2>3, <3>1, <3>2 DEF OneOf
  <2>4. CASE g # f
    <3>1. InQueue(D, of, g) <=> InQueue(C, of, g)
      <4>1. CASE of[g] # i
        <5>1. of[g] \in Ifaces
          OBVIOUS
        <5> QED
          BY <4>1, <5>1 DEF InQueue
      <4>2. CASE of[g] = i
        <5>1. ASSUME NEW k \in 1 .. Len(d), d[k] = g PROVE \E l \in 1 .. Len(c) : c[l] = g
          BY <1>2, <1>3, <5>1
        <5>2. ASSUME NEW k \in 1 .. Len(c), c[k] = g PROVE \E l \in 1 .. Len(d) : d[l] = g
          <6>1. k # 1
            BY <1>2, <2>4, <5>2
          <6>2. k - 1 \in 1 .. Len(d) /\ k - 1 + 1 = k
            BY <1>2, <6>1
          <6>3. d[k - 1] = g
            BY <1>2, <5>2, <6>2
          <6> QED
            BY <6>2, <6>3
        <5>3. (\E k \in 1 .. Len(d) : d[k] = g) <=> (\E k \in 1 .. Len(c) : c[k] = g)
          BY <5>1, <5>2
        <5> QED
          BY <4>2, <5>3 DEF InQueue, c, d
      <4> QED
        BY <4>1, <4>2
    <3> QED
      BY <2>1, <2>2, <2>4, <3>1 DEF OneOf
  <2> QED
    BY <2>3, <2>4
<1>8. f \in 0 .. Len(of)
  BY <1>1, <1>4
<1> QED
  BY <1>1, <1>4, <1>6, <1>7, <1>8 DEF Located, f

\* It goes out, or is lost.
LEMMA SentLocated ==
  ASSUME NEW C, NEW of \in Seq(Ifaces), NEW hf, NEW f \in 1 .. Len(of), NEW sent \in Seq(Nat),
         NEW lost, Located(C, of, hf, f, sent, lost)
  PROVE  Located(C, of, hf, 0, Append(sent, f), lost)
<1> DEFINE n == Len(sent)
           t == Append(sent, f)
<1>1. /\ QueuesOwn(C, of) /\ BusOwn(of, sent) /\ Somewhere(C, of, hf, f, sent, lost)
      /\ hf \in 0 .. Len(of) /\ lost \subseteq 1 .. Len(of) /\ Len(of) \in Nat
  BY DEF Located
<1>2. /\ n \in Nat /\ Len(t) = n + 1 /\ t[n + 1] = f
      /\ \A m \in 1 .. n : t[m] = sent[m]
  <2>1. f \in Nat
    BY <1>1
  <2> QED
    BY <2>1
<1>3. OneOf(InQueue(C, of, f), OnBus(sent, f), hf = f, f = f, f \in lost)
  BY <1>1 DEF Somewhere
<1>4. ~InQueue(C, of, f) /\ ~OnBus(sent, f) /\ hf # f /\ f \notin lost
  BY <1>3 DEF OneOf
<1> HIDE DEF t
<1>5. \A m \in 1 .. n + 1 : m \in 1 .. n \/ m = n + 1
  BY <1>2
<1>6. \A m \in 1 .. n : sent[m] # f /\ sent[m] \in 1 .. Len(of)
  BY <1>1, <1>4 DEF OnBus, BusOwn
<1>7. BusOwn(of, t)
  <2> SUFFICES ASSUME NEW m \in 1 .. n + 1
               PROVE  /\ t[m] \in 1 .. Len(of)
                      /\ \A l \in 1 .. n + 1 : t[m] = t[l] => m = l
    BY <1>2 DEF BusOwn
  <2>1. \A k, l \in 1 .. n : sent[k] = sent[l] => k = l
    BY <1>1 DEF BusOwn
  <2> HIDE DEF n
  <2> QED
    BY <1>2, <1>5, <1>6, <2>1
<1>8. Somewhere(C, of, hf, 0, t, lost)
  <2> SUFFICES ASSUME NEW g \in 1 .. Len(of)
               PROVE  OneOf(InQueue(C, of, g), OnBus(t, g), hf = g, 0 = g, g \in lost)
    BY DEF Somewhere
  <2>1. OneOf(InQueue(C, of, g), OnBus(sent, g), hf = g, f = g, g \in lost)
    BY <1>1 DEF Somewhere
  <2>2. 0 # g
    BY <1>1
  <2>3. CASE g = f
    <3>1. OnBus(t, g)
      <4>1. n + 1 \in 1 .. Len(t) /\ t[n + 1] = g
        BY <1>2, <2>3
      <4> QED
        BY <4>1 DEF OnBus
    <3> QED
      BY <1>4, <2>2, <2>3, <3>1 DEF OneOf
  <2>4. CASE g # f
    <3>1. OnBus(t, g) <=> OnBus(sent, g)
      <4>1. \A m \in 1 .. n : m \in 1 .. n + 1
        BY <1>2
      <4> QED
        BY <1>2, <1>5, <2>4, <4>1 DEF OnBus
    <3> QED
      BY <2>1, <2>2, <2>4, <3>1 DEF OneOf
  <2> QED
    BY <2>3, <2>4
<1>9. 0 \in 0 .. Len(of)
  BY <1>1
<1> QED
  BY <1>1, <1>7, <1>8, <1>9 DEF Located, t

LEMMA LostLocated ==
  ASSUME NEW C, NEW of \in Seq(Ifaces), NEW hf, NEW f \in 1 .. Len(of), NEW sent, NEW lost,
         Located(C, of, hf, f, sent, lost)
  PROVE  Located(C, of, hf, 0, sent, lost \cup {f})
<1>1. /\ QueuesOwn(C, of) /\ BusOwn(of, sent) /\ Somewhere(C, of, hf, f, sent, lost)
      /\ hf \in 0 .. Len(of) /\ lost \subseteq 1 .. Len(of) /\ Len(of) \in Nat
  BY DEF Located
<1>2. Somewhere(C, of, hf, 0, sent, lost \cup {f})
  <2> SUFFICES ASSUME NEW g \in 1 .. Len(of)
               PROVE  OneOf(InQueue(C, of, g), OnBus(sent, g), hf = g, 0 = g,
                            g \in lost \cup {f})
    BY DEF Somewhere
  <2>1. OneOf(InQueue(C, of, g), OnBus(sent, g), hf = g, f = g, g \in lost)
    BY <1>1 DEF Somewhere
  <2>2. 0 # g
    BY <1>1
  <2> QED
    BY <2>1, <2>2 DEF OneOf
<1>3. 0 \in 0 .. Len(of) /\ lost \cup {f} \subseteq 1 .. Len(of)
  BY <1>1
<1> QED
  BY <1>1, <1>2, <1>3 DEF Located

-----------------------------------------------------------------------------
(* Frames are in the order of their acceptance. *)

\* g, behind f, came before it only by being put back.
NotPast(f, g, back) == g < f => g \in back

\* On the bus, in each queue, and from the bus to the queue.
BusOrder(of, sent, back) ==
  \A m, n \in 1 .. Len(sent) :
    m < n /\ of[sent[m]] = of[sent[n]] => NotPast(sent[m], sent[n], back)

QueueOrder(C, back) ==
  \A i \in Ifaces : \A k, l \in 1 .. Len(C[i]) : k < l => NotPast(C[i][k], C[i][l], back)

BusFirst(C, of, sent, back) ==
  \A i \in Ifaces : \A m \in 1 .. Len(sent), k \in 1 .. Len(C[i]) :
    of[sent[m]] = i => NotPast(sent[m], C[i][k], back)

Ordered(C, of, sent, back) ==
  BusOrder(of, sent, back) /\ QueueOrder(C, back) /\ BusFirst(C, of, sent, back)

\* A frame that is being written is behind those on the bus, ahead of those queued.
Between(C, of, sent, back, f) ==
  /\ \A m \in 1 .. Len(sent) : of[sent[m]] = of[f] => NotPast(sent[m], f, back)
  /\ \A k \in 1 .. Len(C[of[f]]) : NotPast(f, C[of[f]][k], back)

\* The orders last when a frame is stored that no other one may not precede, when
\* the front of a queue is read, when it is written, and when one is accepted.
LEMMA StoredOrdered ==
  ASSUME NEW C, NEW D, NEW of \in Seq(Ifaces), NEW sent, NEW back, NEW f \in 1 .. Len(of),
         QueuesOwn(C, of), BusOwn(of, sent), Ordered(C, of, sent, back),
         \A i \in Ifaces : Len(C[i]) \in Nat,
         Added(C[of[f]], D[of[f]], f),
         \A j \in Ifaces : j # of[f] => D[j] = C[j],
         \A g \in 1 .. Len(of) : NotPast(g, f, back)
  PROVE  /\ Ordered(D, of, sent, back)
         /\ \A g \in 1 .. Len(of) : Between(C, of, sent, back, g) => Between(D, of, sent, back, g)
<1> DEFINE i == of[f]
           c == C[i]
           d == D[i]
           n == Len(c)
<1>1. /\ i \in Ifaces /\ n \in Nat /\ Len(d) = n + 1 /\ d[n + 1] = f
      /\ \A k \in 1 .. n : d[k] = c[k]
  BY DEF Added
<1>2. \A k \in 1 .. n : c[k] \in 1 .. Len(of)
  BY <1>1 DEF QueuesOwn
<1>3. \A m \in 1 .. Len(sent) : sent[m] \in 1 .. Len(of)
  BY DEF BusOwn
<1>4. /\ \A k, l \in 1 .. n : k < l => NotPast(c[k], c[l], back)
      /\ \A m \in 1 .. Len(sent), k \in 1 .. n : of[sent[m]] = i => NotPast(sent[m], c[k], back)
  BY <1>1 DEF Ordered, QueueOrder, BusFirst
<1> HIDE DEF c, d, n, i
<1>5. \A k \in 1 .. n + 1 : k \in 1 .. n \/ k = n + 1
  BY <1>1
<1>6. \A k, l \in 1 .. n + 1 : k < l => NotPast(d[k], d[l], back)
  <2> SUFFICES ASSUME NEW k \in 1 .. n + 1, NEW l \in 1 .. n + 1, k < l
               PROVE  NotPast(d[k], d[l], back)
    OBVIOUS
  <2>1. k \in 1 .. n
    BY <1>1
  <2>2. CASE l \in 1 .. n
    BY <1>1, <1>4, <2>1, <2>2
  <2>3. CASE l = n + 1
    BY <1>1, <1>2, <2>1, <2>3
  <2> QED
    BY <1>5, <2>2, <2>3
<1>7. QueueOrder(D, back)
  <2> SUFFICES ASSUME NEW j \in Ifaces
               PROVE  \A k, l \in 1 .. Len(D[j]) : k < l => NotPast(D[j][k], D[j][l], back)
    BY DEF QueueOrder
  <2>1. CASE j = i
    BY <1>1, <1>6, <2>1 DEF d
  <2>2. CASE j # i
    BY <2>2 DEF Ordered, QueueOrder, i
  <2> QED
    BY <2>1, <2>2
<1>8. BusFirst(D, of, sent, back)
  <2> SUFFICES ASSUME NEW j \in Ifaces, NEW m \in 1 .. Len(sent), NEW k \in 1 .. Len(D[j]),
                      of[sent[m]] = j
               PROVE  NotPast(sent[m], D[j][k], back)
    BY DEF BusFirst
  <2>1. CASE j = i
    <3>1. k \in 1 .. n + 1
      BY <1>1, <2>1 DEF d
    <3>2. CASE k \in 1 .. n
      BY <1>1, <1>4, <2>1, <3>2 DEF d
    <3>3. CASE k = n + 1
      BY <1>1, <1>3, <2>1, <3>3 DEF d
    <3> QED
      BY <1>5, <3>1, <3>2, <3>3
  <2>2. CASE j # i
    BY <2>2 DEF Ordered, BusFirst, i
  <2> QED
    BY <2>1, <2>2
<1>9. ASSUME NEW g \in 1 .. Len(of), Between(C, of, sent, back, g)
      PROVE  Between(D, of, sent, back, g)
  <2>1. of[g] \in Ifaces
    OBVIOUS
  <2>2. \A k \in 1 .. Len(D[of[g]]) : NotPast(g, D[of[g]][k], back)
    <3>1. CASE of[g] = i
      <4> SUFFICES ASSUME NEW k \in 1 .. n + 1 PROVE NotPast(g, d[k], back)
        BY <1>1, <3>1 DEF d
      <4>1. \A l \in 1 .. n : NotPast(g, c[l], back)
        BY <1>9, <3>1 DEF Between, n, c
      <4> QED
        BY <1>1, <1>5, <4>1
    <3>2. CASE of[g] # i
      BY <1>9, <2>1, <3>2 DEF Between, i
    <3> QED
      BY <3>1, <3>2
  <2> QED
    BY <1>9, <2>2 DEF Between
<1> QED
  BY <1>7, <1>8, <1>9 DEF Ordered

LEMMA ReadOrdered ==
  ASSUME NEW C, NEW D, NEW of, NEW sent, NEW back, NEW i \in Ifaces,
         Ordered(C, of, sent, back),
         \A j \in Ifaces : Len(C[j]) \in Nat,
         of[C[i][1]] = i,
         Dropped(C[i], D[i]),
         \A j \in Ifaces : j # i => D[j] = C[j]
  PROVE  Ordered(D, of, sent, back) /\ Between(D, of, sent, back, C[i][1])
<1> DEFINE c == C[i]
           d == D[i]
<1>1. /\ Len(c) \in Nat /\ Len(c) > 0 /\ Len(d) = Len(c) - 1
      /\ \A k \in 1 .. Len(d) : d[k] = c[k + 1]
  BY DEF Dropped
<1>2. 1 \in 1 .. Len(c) /\ \A k \in 1 .. Len(d) : k + 1 \in 1 .. Len(c) /\ 1 < k + 1
  BY <1>1
<1>3. /\ \A k, l \in 1 .. Len(c) : k < l => NotPast(c[k], c[l], back)
      /\ \A m \in 1 .. Len(sent), k \in 1 .. Len(c) :
           of[sent[m]] = i => NotPast(sent[m], c[k], back)
  BY DEF Ordered, QueueOrder, BusFirst
<1> HIDE DEF c, d
<1>4. \A k, l \in 1 .. Len(d) : k < l => NotPast(d[k], d[l], back)
  <2> SUFFICES ASSUME NEW k \in 1 .. Len(d), NEW l \in 1 .. Len(d), k < l
               PROVE  NotPast(d[k], d[l], back)
    OBVIOUS
  <2>1. k + 1 < l + 1
    BY <1>1
  <2> QED
    BY <1>1, <1>2, <1>3, <2>1
<1>5. \A m \in 1 .. Len(sent), k \in 1 .. Len(d) :
        of[sent[m]] = i => NotPast(sent[m], d[k], back)
  BY <1>1, <1>2, <1>3
<1>6. QueueOrder(D, back)
  <2> SUFFICES ASSUME NEW j \in Ifaces
               PROVE  \A k, l \in 1 .. Len(D[j]) : k < l => NotPast(D[j][k], D[j][l], back)
    BY DEF QueueOrder
  <2>1. CASE j = i
    BY <1>4, <2>1 DEF d
  <2>2. CASE j # i
    BY <2>2 DEF Ordered, QueueOrder
  <2> QED
    BY <2>1, <2>2
<1>7. BusFirst(D, of, sent, back)
  <2> SUFFICES ASSUME NEW j \in Ifaces, NEW m \in 1 .. Len(sent), NEW k \in 1 .. Len(D[j]),
                      of[sent[m]] = j
               PROVE  NotPast(sent[m], D[j][k], back)
    BY DEF BusFirst
  <2>1. CASE j = i
    BY <1>5, <2>1 DEF d
  <2>2. CASE j # i
    BY <2>2 DEF Ordered, BusFirst
  <2> QED
    BY <2>1, <2>2
<1>8. \A k \in 1 .. Len(d) : NotPast(c[1], d[k], back)
  BY <1>1, <1>2, <1>3
<1>9. \A m \in 1 .. Len(sent) : of[sent[m]] = i => NotPast(sent[m], c[1], back)
  BY <1>2, <1>3
<1>10. Between(D, of, sent, back, C[i][1])
  BY <1>8, <1>9 DEF Between, c, d
<1> QED
  BY <1>6, <1>7, <1>10 DEF Ordered

LEMMA SentOrdered ==
  ASSUME NEW C, NEW of \in Seq(Ifaces), NEW sent \in Seq(Nat), NEW back,
         NEW f \in 1 .. Len(of),
         Ordered(C, of, sent, back), Between(C, of, sent, back, f)
  PROVE  Ordered(C, of, Append(sent, f), back)
<1> DEFINE n == Len(sent)
           t == Append(sent, f)
<1>1. /\ n \in Nat /\ Len(t) = n + 1 /\ t[n + 1] = f
      /\ \A m \in 1 .. n : t[m] = sent[m]
  <2>1. f \in Nat
    OBVIOUS
  <2> QED
    BY <2>1
<1> HIDE DEF t, n
<1>2. \A m \in 1 .. n + 1 : m \in 1 .. n \/ m = n + 1
  BY <1>1
<1>3. \A k, m \in 1 .. n : k < m /\ of[sent[k]] = of[sent[m]] => NotPast(sent[k], sent[m], back)
  BY DEF Ordered, BusOrder, n
<1>4. /\ \A m \in 1 .. n : of[sent[m]] = of[f] => NotPast(sent[m], f, back)
      /\ \A k \in 1 .. Len(C[of[f]]) : NotPast(f, C[of[f]][k], back)
  BY DEF Between, n
<1>5. BusOrder(of, t, back)
  <2> SUFFICES ASSUME NEW k \in 1 .. n + 1, NEW m \in 1 .. n + 1, k < m, of[t[k]] = of[t[m]]
               PROVE  NotPast(t[k], t[m], back)
    BY <1>1 DEF BusOrder
  <2>1. k \in 1 .. n
    BY <1>1
  <2>2. CASE m \in 1 .. n
    BY <1>1, <1>3, <2>1, <2>2
  <2>3. CASE m = n + 1
    BY <1>1, <1>4, <2>1, <2>3
  <2> QED
    BY <1>2, <2>2, <2>3
<1>6. BusFirst(C, of, t, back)
  <2> SUFFICES ASSUME NEW j \in Ifaces, NEW m \in 1 .. n + 1, NEW k \in 1 .. Len(C[j]),
                      of[t[m]] = j
               PROVE  NotPast(t[m], C[j][k], back)
    BY <1>1 DEF BusFirst
  <2>1. CASE m \in 1 .. n
    BY <1>1, <2>1 DEF Ordered, BusFirst, n
  <2>2. CASE m = n + 1
    BY <1>1, <1>4, <2>2
  <2> QED
    BY <1>2, <2>1, <2>2
<1> QED
  BY <1>5, <1>6 DEF Ordered, t

LEMMA AcceptOrdered ==
  ASSUME NEW C, NEW of \in Seq(Ifaces), NEW sent, NEW back, NEW i \in Ifaces,
         BusOwn(of, sent), Ordered(C, of, sent, back)
  PROVE  /\ Ordered(C, Append(of, i), sent, back)
         /\ \A g \in 1 .. Len(of) :
              Between(C, of, sent, back, g) => Between(C, Append(of, i), sent, back, g)
<1> DEFINE n == Len(of)
           new == Append(of, i)
<1>1. n \in Nat /\ \A f \in 1 .. n : new[f] = of[f]
  OBVIOUS
<1>2. \A m \in 1 .. Len(sent) : sent[m] \in 1 .. n
  BY DEF BusOwn
<1> HIDE DEF n, new
<1>3. \A m \in 1 .. Len(sent) : new[sent[m]] = of[sent[m]]
  BY <1>1, <1>2
<1>4. BusOrder(new, sent, back)
  BY <1>3 DEF Ordered, BusOrder
<1>5. BusFirst(C, new, sent, back)
  BY <1>3 DEF Ordered, BusFirst
<1>6. \A g \in 1 .. n : Between(C, of, sent, back, g) => Between(C, new, sent, back, g)
  BY <1>1, <1>3 DEF Between
<1> QED
  BY <1>4, <1>5, <1>6 DEF Ordered, n, new

\* A frame more that was put back leaves the order as it is.
LEMMA BackOrdered ==
  ASSUME NEW C, NEW of, NEW sent, NEW back, NEW f,
         Ordered(C, of, sent, back)
  PROVE  Ordered(C, of, sent, back \cup {f})
<1>1. \A x, y : NotPast(x, y, back) => NotPast(x, y, back \cup {f})
  BY DEF NotPast
<1> QED
  BY <1>1 DEF Ordered, BusOrder, QueueOrder, BusFirst

-----------------------------------------------------------------------------
(* The frames, step by step. *)

\* The frames in the queues.
Cont == [i \in Ifaces |-> Contents(can.txq[i])]

\* The queues are whole, the threads' claims on them apart.
WholeAt(i) ==
  /\ Packed(can.txq[i])
  /\ Held(can.txq[i]) = can.txq[i].used + One(send.pc = "read" /\ send.i = i)
  /\ can.txq[i].pusher = "http" <=> http.pc = "store" /\ http.i = i
  /\ can.txq[i].pusher = "send" <=> send.pc = "store" /\ send.i = i

Whole == \A i \in Ifaces : WholeAt(i)

\* What the threads have in hand.
Hands ==
  /\ http.frame = IF http.pc = "store" THEN Len(hist.of) ELSE 0
  /\ http.pc = "store" => Len(hist.of) > 0 /\ hist.of[http.frame] = http.i
  /\ send.frame = 0 <=> send.pc \notin {"write", "store"}
  /\ send.frame # 0 => hist.of[send.frame] = send.i
  /\ send.pc = "store" => send.frame \in hist.back

\* Each accepted frame is in one place.
Placed == Located(Cont, hist.of, http.frame, send.frame, hist.sent, hist.lost)

\* The frames on the bus, in hand and in the queues are in order.
InTurn ==
  /\ Ordered(Cont, hist.of, hist.sent, hist.back)
  /\ send.pc = "write" => Between(Cont, hist.of, hist.sent, hist.back, send.frame)

\* The third inductive invariant; it needs the first.
FramesInv == Whole /\ Hands /\ Placed /\ InTurn

\* What the steps use of it.
LEMMA FrameFacts ==
  ASSUME TypeInv, FramesInv
  PROVE  /\ hist.of \in Seq(Ifaces) /\ Len(hist.of) \in Nat /\ hist.sent \in Seq(Nat)
         /\ can.txq \in [Ifaces -> Queues]
         /\ \A i \in Ifaces : /\ can.txq[i] \in Queues /\ can.txq[i].used \in Nat
                              /\ Packed(can.txq[i]) /\ Held(can.txq[i]) \in 0 .. Cap
                              /\ Cont[i] = Contents(can.txq[i]) /\ Len(Cont[i]) = Held(can.txq[i])
                              /\ Len(Cont[i]) \in Nat
         /\ http.frame \in 0 .. Len(hist.of) /\ send.frame \in 0 .. Len(hist.of)
         /\ send.frame # 0 => send.frame \in 1 .. Len(hist.of)
         /\ QueuesOwn(Cont, hist.of) /\ BusOwn(hist.of, hist.sent)
<1>1. /\ hist.of \in Seq(Ifaces) /\ Len(hist.of) \in Nat /\ hist.sent \in Seq(Nat)
      /\ can.txq \in [Ifaces -> Queues]
  BY Typed DEF TypeInv
<1>2. ASSUME NEW i \in Ifaces
      PROVE  /\ can.txq[i] \in Queues /\ can.txq[i].used \in Nat
             /\ Packed(can.txq[i]) /\ Held(can.txq[i]) \in 0 .. Cap
             /\ Cont[i] = Contents(can.txq[i]) /\ Len(Cont[i]) = Held(can.txq[i])
             /\ Len(Cont[i]) \in Nat
  <2>1. can.txq[i] \in Queues
    BY <1>1
  <2>2. can.txq[i].used \in Nat
    BY <2>1 DEF Queues
  <2>3. Packed(can.txq[i]) /\ Held(can.txq[i]) \in 0 .. Cap
    BY DEF FramesInv, Whole, WholeAt, Packed
  <2>4. Cont[i] = Contents(can.txq[i])
    BY DEF Cont
  <2>5. Len(Cont[i]) = Held(can.txq[i])
    BY <2>1, <2>3, <2>4, ContentsOf
  <2>6. Len(Cont[i]) \in Nat
    BY <2>3, <2>5
  <2> QED
    BY <2>1, <2>2, <2>3, <2>4, <2>5, <2>6
<1>3. /\ http.frame \in 0 .. Len(hist.of) /\ send.frame \in 0 .. Len(hist.of)
      /\ QueuesOwn(Cont, hist.of) /\ BusOwn(hist.of, hist.sent)
  BY DEF FramesInv, Placed, Located
<1>4. send.frame # 0 => send.frame \in 1 .. Len(hist.of)
  BY <1>1, <1>3
<1> QED
  BY <1>1, <1>2, <1>3, <1>4

\* A step that moves no frame.
LEMMA FramesRest ==
  ASSUME FramesInv, can.txq' = can.txq, hist.of' = hist.of, hist.sent' = hist.sent,
         hist.back' = hist.back, hist.lost' = hist.lost,
         http.frame' = http.frame, http.pc' = "store" <=> http.pc = "store",
         http.pc = "store" => http.i' = http.i,
         send.frame' = send.frame,
         \/ send' = send
         \/ send.pc \notin {"read", "write", "store"} /\ send'.pc \notin {"read", "write", "store"}
  PROVE  FramesInv'
<1>1. Cont' = Cont
  BY DEF Cont
<1>2. Whole'
  BY DEF FramesInv, Whole, WholeAt, One
<1>3. Hands'
  BY DEF FramesInv, Hands
<1>4. Placed' /\ InTurn'
  BY <1>1 DEF FramesInv, Placed, InTurn
<1> QED
  BY <1>2, <1>3, <1>4 DEF FramesInv

\* The steps that move no frame.
LEMMA QuietFrames ==
  ASSUME TypeInv, FramesInv,
         \/ TxSignal \/ (\E new \in 0 .. NIfaces : ConfigBegin(new))
         \/ ConfigureFails \/ OpenFails \/ Applied \/ ConfigEnd
         \/ SendWake \/ SendLock \/ SendScan \/ SendScanned \/ SendUpdate \/ SendUnlock
         \/ (\E i \in Ifaces : Reconnect(i) \/ LeftClosed(i))
  PROVE  FramesInv'
<1>1. can \in Cans /\ hist \in Hists /\ http \in Https /\ send \in Sends
  BY DEF TypeInv, BusType
<1>2. Hands
  BY DEF FramesInv
<1>3. ASSUME TxSignal PROVE FramesInv'
  BY <1>2, <1>3, NumberFacts, FramesRest DEF TxSignal, Hands
<1>4. ASSUME NEW new, ConfigBegin(new) PROVE FramesInv'
  <2>1. can.txq' = can.txq
    BY <1>1, <1>4 DEF ConfigBegin, Cans
  <2>2. hist.of' = hist.of /\ hist.sent' = hist.sent /\ hist.back' = hist.back
        /\ hist.lost' = hist.lost
    BY <1>1, <1>4 DEF ConfigBegin, Hists
  <2>3. http.frame' = http.frame /\ http'.pc = "apply"
    BY <1>1, <1>4 DEF ConfigBegin, Https
  <2> QED
    BY <1>4, <2>1, <2>2, <2>3, FramesRest DEF ConfigBegin
<1>5. ASSUME ConfigureFails \/ OpenFails \/ Applied PROVE FramesInv'
  <2>1. can.txq' = can.txq
    <3>1. can' = can \/ \E f \in Fds : can' = [can EXCEPT !.sock[http.i] = f]
      BY <1>5 DEF ConfigureFails, OpenFails, Applied
    <3>2. ASSUME NEW f, can' = [can EXCEPT !.sock[http.i] = f] PROVE can.txq' = can.txq
      BY <1>1, <3>2 DEF Cans
    <3> QED
      BY <3>1, <3>2
  <2>2. hist.of' = hist.of /\ hist.sent' = hist.sent /\ hist.back' = hist.back
        /\ hist.lost' = hist.lost
    <3>1. \/ \E d : hist' = [hist EXCEPT !.deaf = d]
          \/ \E d, s : hist' = [hist EXCEPT !.deaf = d, !.swapped = s]
      BY <1>5 DEF ConfigureFails, OpenFails, Applied
    <3>2. ASSUME NEW d, hist' = [hist EXCEPT !.deaf = d]
          PROVE  hist.of' = hist.of /\ hist.sent' = hist.sent /\ hist.back' = hist.back
                 /\ hist.lost' = hist.lost
      BY <1>1, <3>2 DEF Hists
    <3>3. ASSUME NEW d, NEW s, hist' = [hist EXCEPT !.deaf = d, !.swapped = s]
          PROVE  hist.of' = hist.of /\ hist.sent' = hist.sent /\ hist.back' = hist.back
                 /\ hist.lost' = hist.lost
      BY <1>1, <3>3 DEF Hists
    <3> QED
      BY <3>1, <3>2, <3>3
  <2>3. http.frame' = http.frame /\ http'.pc = "apply" /\ http.pc = "apply" /\ send' = send
    <3>1. http' = [http EXCEPT !.i = @ + 1] /\ http.pc = "apply" /\ send' = send
      BY <1>5 DEF ConfigureFails, OpenFails, Applied
    <3> QED
      BY <1>1, <3>1 DEF Https
  <2> QED
    BY <2>1, <2>2, <2>3, FramesRest
<1>6. ASSUME ConfigEnd PROVE FramesInv'
  BY <1>2, <1>6, NumberFacts, FramesRest DEF ConfigEnd, Hands
<1>7. ASSUME SendWake \/ SendLock \/ SendScan \/ SendScanned \/ SendUpdate PROVE FramesInv'
  <2>1. can' = can /\ hist' = hist /\ http' = http
    BY <1>7 DEF SendWake, SendLock, SendScan, SendScanned, SendUpdate
  <2>2. /\ send.frame' = send.frame /\ send.pc \notin {"read", "write", "store"}
        /\ send'.pc \notin {"read", "write", "store"}
    BY <1>1, <1>7 DEF SendWake, SendLock, SendScan, SendScanned, SendUpdate, Sends
  <2> QED
    BY <2>1, <2>2, FramesRest
<1>8. ASSUME SendUnlock PROVE FramesInv'
  <2>1. hist.of' = hist.of /\ hist.sent' = hist.sent /\ hist.back' = hist.back
        /\ hist.lost' = hist.lost
    BY <1>1, <1>8 DEF SendUnlock, Hists
  <2>2. /\ send.frame' = send.frame /\ send.pc \notin {"read", "write", "store"}
        /\ send'.pc \notin {"read", "write", "store"}
    BY <1>2, <1>8, NumberFacts DEF SendUnlock, Hands
  <2> QED
    BY <1>8, <2>1, <2>2, FramesRest DEF SendUnlock
<1>9. ASSUME NEW i \in Ifaces, Reconnect(i) \/ LeftClosed(i) PROVE FramesInv'
  <2>1. can.txq' = can.txq
    <3>1. can' = can \/ \E f \in Fds : can' = [can EXCEPT !.sock[i] = f]
      BY <1>9 DEF Reconnect, LeftClosed
    <3>2. ASSUME NEW f, can' = [can EXCEPT !.sock[i] = f] PROVE can.txq' = can.txq
      BY <1>1, <3>2 DEF Cans
    <3> QED
      BY <3>1, <3>2
  <2>2. hist.of' = hist.of /\ hist.sent' = hist.sent /\ hist.back' = hist.back
        /\ hist.lost' = hist.lost
    <3>1. \/ hist' = [hist EXCEPT !.errors = hist.errors + 1, !.deaf = hist.deaf \ {i},
                                  !.swapped = hist.swapped \ {i}]
          \/ hist' = [hist EXCEPT !.errors = hist.errors + 1, !.failed = TRUE]
      BY <1>9 DEF Reconnect, LeftClosed
    <3>2. ASSUME NEW n, NEW d, NEW s,
                 hist' = [hist EXCEPT !.errors = n, !.deaf = d, !.swapped = s]
          PROVE  hist.of' = hist.of /\ hist.sent' = hist.sent /\ hist.back' = hist.back
                 /\ hist.lost' = hist.lost
      BY <1>1, <3>2 DEF Hists
    <3>3. ASSUME NEW n, hist' = [hist EXCEPT !.errors = n, !.failed = TRUE]
          PROVE  hist.of' = hist.of /\ hist.sent' = hist.sent /\ hist.back' = hist.back
                 /\ hist.lost' = hist.lost
      BY <1>1, <3>3 DEF Hists
    <3> QED
      BY <3>1, <3>2, <3>3
  <2>3. http' = http /\ send' = send
    BY <1>9 DEF Reconnect, LeftClosed
  <2> QED
    BY <2>1, <2>2, <2>3, FramesRest
<1> QED
  BY <1>3, <1>4, <1>5, <1>6, <1>7, <1>8, <1>9

\* The queue of an interface at which a step does nothing stays whole.
LEMMA WholeElsewhere ==
  ASSUME TypeInv, FramesInv, NEW i \in Ifaces, NEW j \in Ifaces, j # i,
         can.txq'[j] = can.txq[j],
         http' = http \/ (http.pc = "idle" /\ http'.i = i)
                      \/ (http.i = i /\ http'.pc # "store"),
         send' = send \/ (send.i = i /\ (send'.i = i \/ send'.pc \notin {"read", "store"}))
  PROVE  WholeAt(j)'
BY DEF FramesInv, Whole, WholeAt, One

\* The HTTP thread accepts a frame.
LEMMA TxFrameFrames ==
  ASSUME TypeInv, FramesInv, NEW i \in Ifaces, TxFrame(i)
  PROVE  FramesInv'
<1> DEFINE q == can.txq[i]
           n == Len(hist.of)
<1>1. /\ can \in Cans /\ hist \in Hists /\ ~Refuses(q) /\ http.pc = "idle" /\ send' = send
      /\ http' = [pc |-> "store", i |-> i, frame |-> n + 1]
  BY DEF TypeInv, BusType, TxFrame, NextFrame
<1>2. can.txq' = [can.txq EXCEPT ![i] = Claimed(q, "http")]
  BY <1>1, CanQueueFields DEF TxFrame
<1>3. /\ hist.of' = Append(hist.of, i) /\ hist.sent' = hist.sent /\ hist.back' = hist.back
      /\ hist.lost' = hist.lost
  <2> DEFINE o == Append(hist.of, i)
  <2>1. hist' = [hist EXCEPT !.of = o]
    BY DEF TxFrame
  <2> HIDE DEF o
  <2>2. hist.of' = o /\ hist.sent' = hist.sent /\ hist.back' = hist.back
        /\ hist.lost' = hist.lost
    BY <1>1, <2>1 DEF Hists
  <2> QED
    BY <2>2 DEF o
<1>4. q \in Queues /\ Packed(q) /\ n \in Nat /\ can.txq \in [Ifaces -> Queues]
      /\ hist.of \in Seq(Ifaces)
  BY FrameFacts
<1>5. /\ Claimed(q, "http") \in Queues /\ Claimed(q, "http").used = q.used
      /\ Claimed(q, "http").pusher = "http" /\ Packed(Claimed(q, "http"))
      /\ Held(Claimed(q, "http")) = Held(q) /\ Contents(Claimed(q, "http")) = Contents(q)
  BY <1>1, <1>4, QueueClaimed, ClaimedContents
<1>6. /\ Len(hist.of') = n + 1 /\ hist.of'[n + 1] = i
      /\ \A f \in 1 .. n : hist.of'[f] = hist.of[f]
  BY <1>3, <1>4
<1> HIDE DEF q, n
<1>7. can.txq'[i] = Claimed(q, "http") /\ \A j \in Ifaces : j # i => can.txq'[j] = can.txq[j]
  BY <1>2, <1>4
<1>8. Cont' = Cont
  <2>1. \A j \in Ifaces : Contents(can.txq'[j]) = Contents(can.txq[j])
    BY <1>5, <1>7 DEF q
  <2> QED
    BY <2>1 DEF Cont
<1>9. Whole'
  <2>1. WholeAt(i)'
    <3>1. q.pusher = "none"
      BY <1>1 DEF Refuses
    <3>2. WholeAt(i)
      BY DEF FramesInv, Whole
    <3> QED
      BY <1>1, <1>5, <1>7, <3>1, <3>2 DEF WholeAt, q
  <2>2. \A j \in Ifaces : j # i => WholeAt(j)'
    BY <1>1, <1>7, WholeElsewhere
  <2> QED
    BY <2>1, <2>2 DEF Whole
<1>10. http.frame = 0 /\ (send.frame # 0 => send.frame \in 1 .. n)
  BY <1>1, FrameFacts DEF FramesInv, Hands, n
<1>11. Hands'
  <2>1. n + 1 > 0 /\ n + 1 \in 1 .. n + 1
    BY <1>4
  <2> QED
    BY <1>1, <1>3, <1>6, <1>10, <2>1 DEF FramesInv, Hands
<1>12. Placed'
  <2>1. Located(Cont, hist.of, 0, send.frame, hist.sent, hist.lost)
    BY <1>10 DEF FramesInv, Placed
  <2>2. Located(Cont, Append(hist.of, i), n + 1, send.frame, hist.sent, hist.lost)
    BY <1>4, <2>1, AcceptLocated DEF n
  <2> QED
    BY <1>1, <1>3, <1>8, <2>2 DEF Placed
<1>13. InTurn'
  <2>1. /\ Ordered(Cont, Append(hist.of, i), hist.sent, hist.back)
        /\ \A g \in 1 .. n : Between(Cont, hist.of, hist.sent, hist.back, g)
             => Between(Cont, Append(hist.of, i), hist.sent, hist.back, g)
    BY <1>4, FrameFacts, AcceptOrdered DEF FramesInv, InTurn, n
  <2>2. send.pc = "write" => send.frame # 0
    BY DEF FramesInv, Hands
  <2> QED
    BY <1>1, <1>3, <1>8, <1>10, <2>1, <2>2 DEF InTurn, FramesInv
<1> QED
  BY <1>9, <1>11, <1>12, <1>13 DEF FramesInv

\* A frame goes from a thread's hand into the queue of its interface.
LEMMA QueueTakes ==
  ASSUME TypeInv, FramesInv, NEW f \in 1 .. Len(hist.of), NEW i \in Ifaces, hist.of[f] = i,
         can.txq[i].pusher # "none",
         can.txq' = [can.txq EXCEPT ![i] = Stored(@, f)],
         hist' = hist,
         \/ http.frame = f /\ http'.frame = 0 /\ send'.frame = send.frame
         \/ send.frame = f /\ send'.frame = 0 /\ http'.frame = http.frame,
         \A g \in 1 .. Len(hist.of) : NotPast(g, f, hist.back)
  PROVE  /\ Placed' /\ Ordered(Cont', hist.of, hist.sent, hist.back)
         /\ \A g \in 1 .. Len(hist.of) : Between(Cont, hist.of, hist.sent, hist.back, g)
              => Between(Cont', hist.of, hist.sent, hist.back, g)
         /\ Packed(can.txq'[i]) /\ Held(can.txq'[i]) = Held(can.txq[i]) + 1
         /\ can.txq'[i].used = can.txq[i].used + 1 /\ can.txq'[i].pusher = "none"
         /\ \A j \in Ifaces : j # i => can.txq'[j] = can.txq[j]
<1> DEFINE q == can.txq[i]
<1>1. /\ q \in Queues /\ Packed(q) /\ can.txq \in [Ifaces -> Queues] /\ f \in Nat
      /\ hist.of \in Seq(Ifaces)
  BY FrameFacts
<1>2. can.txq'[i] = Stored(q, f) /\ \A j \in Ifaces : j # i => can.txq'[j] = can.txq[j]
  BY <1>1
<1>3. /\ Packed(Stored(q, f)) /\ Held(Stored(q, f)) = Held(q) + 1
      /\ Added(Contents(q), Contents(Stored(q, f)), f)
      /\ Stored(q, f).used = q.used + 1 /\ Stored(q, f).pusher = "none"
  BY <1>1, QueueStored, StoredContents
<1> HIDE DEF q
<1>4. /\ Cont[i] = Contents(q) /\ Cont'[i] = Contents(Stored(q, f))
      /\ \A j \in Ifaces : j # i => Cont'[j] = Cont[j]
  BY <1>2 DEF Cont, q
<1>5. Added(Cont[i], Cont'[i], f) /\ \A j \in Ifaces : Len(Cont[j]) \in Nat
  BY <1>3, <1>4, FrameFacts
<1>10. /\ Added(Cont[hist.of[f]], Cont'[hist.of[f]], f)
       /\ \A j \in Ifaces : j # hist.of[f] => Cont'[j] = Cont[j]
       /\ \A j \in Ifaces : Len(Cont[j]) \in Nat
  BY <1>4, <1>5
<1>6. Located(Cont', hist.of, http'.frame, send'.frame, hist.sent, hist.lost)
  <2>1. Located(Cont, hist.of, http.frame, send.frame, hist.sent, hist.lost)
    BY DEF FramesInv, Placed
  <2>0. PICK c, d, h, s, x, y : /\ c = Cont /\ d = Cont' /\ h = http'.frame /\ s = send'.frame
                               /\ x = http.frame /\ y = send.frame
    OBVIOUS
  <2>2. /\ Added(c[hist.of[f]], d[hist.of[f]], f)
        /\ \A j \in Ifaces : j # hist.of[f] => d[j] = c[j]
        /\ \A j \in Ifaces : Len(c[j]) \in Nat
    BY <1>10, <2>0
  <2>3. \/ x = f /\ h = 0 /\ s = y
        \/ y = f /\ s = 0 /\ h = x
    BY <2>0
  <2>1b. Located(c, hist.of, x, y, hist.sent, hist.lost)
    BY <2>0, <2>1
  <2>4. hist.of \in Seq(Ifaces)
    BY <1>1
  <2>5. CASE x = f /\ h = 0 /\ s = y
    <3>1. Located(c, hist.of, f, y, hist.sent, hist.lost)
      BY <2>1b, <2>5
    <3>2. Located(d, hist.of, 0, y, hist.sent, hist.lost)
      BY <2>4, <2>2, <3>1, HttpStoredLocated, SMTT(60)
    <3> QED
      BY <2>0, <2>5, <3>2
  <2>6. CASE y = f /\ s = 0 /\ h = x
    <3>1. Located(c, hist.of, x, f, hist.sent, hist.lost)
      BY <2>1b, <2>6
    <3>2. Located(d, hist.of, x, 0, hist.sent, hist.lost)
      BY <2>4, <2>2, <3>1, SendStoredLocated, SMTT(60)
    <3> QED
      BY <2>0, <2>6, <3>2
  <2> QED
    BY <2>3, <2>5, <2>6
<1>7. Placed'
  BY <1>6 DEF Placed
<1>8. /\ Ordered(Cont', hist.of, hist.sent, hist.back)
      /\ \A g \in 1 .. Len(hist.of) : Between(Cont, hist.of, hist.sent, hist.back, g)
              => Between(Cont', hist.of, hist.sent, hist.back, g)
  <2>1. /\ QueuesOwn(Cont, hist.of) /\ BusOwn(hist.of, hist.sent)
        /\ Ordered(Cont, hist.of, hist.sent, hist.back)
    BY FrameFacts DEF FramesInv, InTurn
  <2> QED
    BY <1>1, <1>10, <2>1, StoredOrdered
<1> QED
  BY <1>2, <1>3, <1>7, <1>8 DEF q

\* The two that store: the HTTP thread, and the sender that puts a frame back.
LEMMA TxStoreFrames ==
  ASSUME TypeInv, FramesInv, TxStore
  PROVE  FramesInv'
<1>0. PICK i, f : i = http.i /\ f = http.frame
  OBVIOUS
<1>1. /\ can \in Cans /\ http \in Https /\ http.pc = "store" /\ send' = send /\ hist' = hist
      /\ i \in Ifaces
  BY <1>0, KnownFacts DEF TypeInv, BusType, TxStore, Working
<1>2. /\ f = Len(hist.of) /\ f \in 1 .. Len(hist.of) /\ hist.of[f] = i /\ f \in Nat
  BY <1>0, <1>1, FrameFacts DEF FramesInv, Hands
<1>3. can.txq' = [can.txq EXCEPT ![i] = Stored(@, f)]
  BY <1>0, <1>1, CanQueueFields DEF TxStore
<1>4. http'.pc = "signal" /\ http'.frame = 0 /\ http'.i = i
  BY <1>0, <1>1, NumberFacts DEF TxStore, Https
<1>5. WholeAt(i) /\ can.txq[i].pusher = "http" /\ ~(send.pc = "store" /\ send.i = i)
  BY <1>0, <1>1 DEF FramesInv, Whole, WholeAt
<1>6. \A g \in 1 .. Len(hist.of) : NotPast(g, f, hist.back)
  BY <1>0, <1>2 DEF NotPast
<1>7. can.txq[i].pusher # "none"
  BY <1>0, <1>5
<1>8. /\ Placed' /\ Ordered(Cont', hist.of, hist.sent, hist.back)
      /\ \A g \in 1 .. Len(hist.of) : Between(Cont, hist.of, hist.sent, hist.back, g)
              => Between(Cont', hist.of, hist.sent, hist.back, g)
  BY <1>0, <1>1, <1>2, <1>3, <1>4, <1>6, <1>7, QueueTakes
<1>9. /\ Packed(can.txq'[i]) /\ Held(can.txq'[i]) = Held(can.txq[i]) + 1
      /\ can.txq'[i].used = can.txq[i].used + 1 /\ can.txq'[i].pusher = "none"
      /\ \A j \in Ifaces : j # i => can.txq'[j] = can.txq[j]
  BY <1>0, <1>1, <1>2, <1>3, <1>4, <1>6, <1>7, QueueTakes
<1>10. Whole'
  <2>1. WholeAt(i)'
    <3>1. can.txq[i].used \in Nat
      BY <1>0, <1>1, FrameFacts
    <3> QED
      BY <1>0, <1>1, <1>4, <1>5, <1>9, <3>1 DEF WholeAt, One
  <2>2. \A j \in Ifaces : j # i => WholeAt(j)'
    BY <1>0, <1>1, <1>4, <1>9, WholeElsewhere
  <2> QED
    BY <2>1, <2>2 DEF Whole
<1>11. Hands'
  BY <1>0, <1>1, <1>4 DEF FramesInv, Hands
<1>12. InTurn'
  <2>1. send.pc = "write" => send.frame \in 1 .. Len(hist.of)
    BY FrameFacts DEF FramesInv, Hands
  <2> QED
    BY <1>0, <1>1, <1>8, <2>1 DEF FramesInv, InTurn
<1> QED
  BY <1>0, <1>8, <1>10, <1>11, <1>12 DEF FramesInv

LEMMA SendStoreFrames ==
  ASSUME TypeInv, FramesInv, SendStore
  PROVE  FramesInv'
<1>0. PICK i, f : i = send.i /\ f = send.frame
  OBVIOUS
<1>1. /\ can \in Cans /\ send \in Sends /\ send.pc = "store" /\ http' = http /\ hist' = hist
      /\ i \in Ifaces
  BY <1>0, InHand DEF TypeInv, BusType, SendStore, AtWork
<1>2. /\ f # 0 /\ f \in 1 .. Len(hist.of) /\ hist.of[f] = i /\ f \in hist.back
  BY <1>0, <1>1, FrameFacts DEF FramesInv, Hands
<1>3. can.txq' = [can.txq EXCEPT ![i] = Stored(@, f)]
  BY <1>0, <1>1, CanQueueFields DEF SendStore
<1>4. send'.pc = "scan" /\ send'.frame = 0
  BY <1>0, <1>1, NumberFacts DEF SendStore, Sends
<1>5. WholeAt(i) /\ can.txq[i].pusher = "send" /\ ~(http.pc = "store" /\ http.i = i)
  BY <1>0, <1>1 DEF FramesInv, Whole, WholeAt
<1>6. \A g \in 1 .. Len(hist.of) : NotPast(g, f, hist.back)
  BY <1>0, <1>2 DEF NotPast
<1>7. can.txq[i].pusher # "none"
  BY <1>0, <1>5
<1>8. Placed' /\ Ordered(Cont', hist.of, hist.sent, hist.back)
  BY <1>0, <1>1, <1>2, <1>3, <1>4, <1>6, <1>7, QueueTakes
<1>9. /\ Packed(can.txq'[i]) /\ Held(can.txq'[i]) = Held(can.txq[i]) + 1
      /\ can.txq'[i].used = can.txq[i].used + 1 /\ can.txq'[i].pusher = "none"
      /\ \A j \in Ifaces : j # i => can.txq'[j] = can.txq[j]
  BY <1>0, <1>1, <1>2, <1>3, <1>4, <1>6, <1>7, QueueTakes
<1>10. Whole'
  <2>1. WholeAt(i)'
    <3>1. can.txq[i].used \in Nat
      BY <1>0, <1>1, FrameFacts
    <3> QED
      BY <1>0, <1>1, <1>4, <1>5, <1>9, <3>1 DEF WholeAt, One
  <2>2. \A j \in Ifaces : j # i => WholeAt(j)'
    BY <1>0, <1>1, <1>4, <1>9, WholeElsewhere
  <2> QED
    BY <2>1, <2>2 DEF Whole
<1>11. Hands'
  BY <1>0, <1>1, <1>4 DEF FramesInv, Hands
<1>12. InTurn'
  BY <1>0, <1>1, <1>4, <1>8 DEF InTurn
<1> QED
  BY <1>0, <1>8, <1>10, <1>11, <1>12 DEF FramesInv

\* The sender reserves a frame, if there is one.
LEMMA SendPopFrames ==
  ASSUME TypeInv, FramesInv, SendPop
  PROVE  FramesInv'
<1>0. PICK i, q : i = send.i /\ q = can.txq[send.i]
  OBVIOUS
<1>1. /\ can \in Cans /\ send \in Sends /\ send.pc = "pop" /\ http' = http /\ hist' = hist
      /\ i \in Ifaces /\ q \in Queues /\ can.txq \in [Ifaces -> Queues]
  BY <1>0, InHand, FrameFacts DEF TypeInv, BusType, SendPop, AtWork
<1>2. CASE send.limit > 0 /\ q.used > 0
  <2>1. can.txq' = [can.txq EXCEPT ![i] = Reserved(q)]
    <3>1. can' = [can EXCEPT !.txq[send.i] = Reserved(@)]
      BY <1>0, <1>2 DEF SendPop
    <3>2. can' = [can EXCEPT !.txq[i] = Reserved(q)]
      BY <1>0, <1>1, <3>1 DEF Cans
    <3> QED
      BY <1>1, <3>2, CanQueueFields
  <2>2. send'.pc = "read" /\ send'.i = i /\ send'.frame = send.frame
    <3>1. PICK n : n = send.limit - 1
      OBVIOUS
    <3>2. send' = [send EXCEPT !.pc = "read", !.limit = n]
      BY <1>0, <1>2, <3>1 DEF SendPop
    <3> QED
      BY <1>0, <1>1, <3>2 DEF Sends
  <2>3. can.txq'[i] = Reserved(q) /\ \A j \in Ifaces : j # i => can.txq'[j] = can.txq[j]
    BY <1>1, <2>1
  <2>4. WholeAt(i) /\ Packed(q)
    BY <1>0, <1>1 DEF FramesInv, Whole, WholeAt
  <2>5. /\ Packed(Reserved(q)) /\ Held(Reserved(q)) = Held(q)
        /\ Contents(Reserved(q)) = Contents(q) /\ Reserved(q).used = q.used - 1
        /\ Reserved(q).pusher = q.pusher /\ q.used \in Nat
    BY <1>1, <1>2, <2>4, QueueReserved, ReservedContents DEF Queues
  <2>6. Cont' = Cont
    <3>1. \A j \in Ifaces : Contents(can.txq'[j]) = Contents(can.txq[j])
      BY <1>0, <2>3, <2>5
    <3> QED
      BY <3>1 DEF Cont
  <2>7. Whole'
    <3>1. WholeAt(i)'
      BY <1>0, <1>1, <2>2, <2>3, <2>4, <2>5 DEF WholeAt, One
    <3>2. \A j \in Ifaces : j # i => WholeAt(j)'
      BY <1>0, <1>1, <2>2, <2>3, WholeElsewhere
    <3> QED
      BY <3>1, <3>2 DEF Whole
  <2>8. Hands' /\ Placed' /\ InTurn'
    BY <1>1, <2>2, <2>6 DEF FramesInv, Hands, Placed, InTurn
  <2> QED
    BY <2>7, <2>8 DEF FramesInv
<1>3. CASE ~(send.limit > 0 /\ q.used > 0)
  <2>1. send' = [send EXCEPT !.pc = "scan", !.i = @ + 1] /\ can' = can
    BY <1>0, <1>3 DEF SendPop
  <2>2. send'.pc = "scan" /\ send'.frame = send.frame
    BY <1>1, <2>1 DEF Sends
  <2> QED
    BY <1>1, <2>1, <2>2, FramesRest
<1> QED
  BY <1>2, <1>3

\* It takes the frame from the front.
LEMMA SendReadFrames ==
  ASSUME TypeInv, FramesInv, SendRead
  PROVE  FramesInv'
<1>0. PICK i, q, f : i = send.i /\ q = can.txq[send.i] /\ f = Front(can.txq[send.i])
  OBVIOUS
<1>1. /\ can \in Cans /\ send \in Sends /\ send.pc = "read" /\ http' = http /\ hist' = hist
      /\ i \in Ifaces /\ q \in Queues /\ can.txq \in [Ifaces -> Queues]
      /\ hist.of \in Seq(Ifaces)
  BY <1>0, InHand, FrameFacts DEF TypeInv, BusType, SendRead, AtWork
<1>2. can.txq' = [can.txq EXCEPT ![i] = Released(q)]
  BY <1>0, <1>1, CanQueueFields DEF SendRead
<1>3. send'.pc = "write" /\ send'.i = i /\ send'.frame = f
  BY <1>0, <1>1 DEF SendRead, Sends
<1>4. can.txq'[i] = Released(q) /\ \A j \in Ifaces : j # i => can.txq'[j] = can.txq[j]
  BY <1>1, <1>2
<1>5. WholeAt(i) /\ Packed(q) /\ q.used \in Nat /\ Held(q) = q.used + 1 /\ Held(q) > 0
  <2>1. WholeAt(i) /\ q.used \in Nat
    BY <1>1 DEF FramesInv, Whole, Queues
  <2>2. Packed(q) /\ Held(q) = q.used + 1
    BY <1>0, <1>1, <2>1 DEF WholeAt, One
  <2> QED
    BY <2>1, <2>2
<1>6. /\ Packed(Released(q)) /\ Held(Released(q)) = Held(q) - 1
      /\ Dropped(Contents(q), Contents(Released(q))) /\ f = Contents(q)[1]
      /\ Released(q).used = q.used /\ Released(q).pusher = q.pusher
  BY <1>0, <1>1, <1>5, QueueReleased, ReleasedContents
<1>7. /\ Cont[i] = Contents(q) /\ Cont'[i] = Contents(Released(q))
      /\ \A j \in Ifaces : j # i => Cont'[j] = Cont[j]
  BY <1>0, <1>1, <1>4 DEF Cont
<1>8. /\ Dropped(Cont[i], Cont'[i]) /\ f = Cont[i][1]
      /\ \A j \in Ifaces : Len(Cont[j]) \in Nat
  BY <1>6, <1>7, FrameFacts
<1>9. send.frame = 0
  BY <1>1 DEF FramesInv, Hands
<1>10. /\ Located(Cont', hist.of, http.frame, f, hist.sent, hist.lost)
       /\ f \in 1 .. Len(hist.of) /\ hist.of[f] = i
  <2>1. Located(Cont, hist.of, http.frame, 0, hist.sent, hist.lost)
    BY <1>9 DEF FramesInv, Placed
  <2> QED
    BY <1>1, <1>7, <1>8, <2>1, ReadLocated, SMTT(60)
<1>11. /\ Ordered(Cont', hist.of, hist.sent, hist.back)
       /\ Between(Cont', hist.of, hist.sent, hist.back, f)
  <2>1. Ordered(Cont, hist.of, hist.sent, hist.back)
    BY DEF FramesInv, InTurn
  <2> QED
    BY <1>1, <1>7, <1>8, <1>10, <2>1, ReadOrdered
<1>12. Whole'
  <2>1. WholeAt(i)'
    BY <1>0, <1>1, <1>3, <1>4, <1>5, <1>6 DEF WholeAt, One
  <2>2. \A j \in Ifaces : j # i => WholeAt(j)'
    BY <1>0, <1>1, <1>3, <1>4, WholeElsewhere
  <2> QED
    BY <2>1, <2>2 DEF Whole
<1>13. Hands'
  <2>1. f # 0
    BY <1>10
  <2> QED
    BY <1>1, <1>3, <1>10, <2>1 DEF FramesInv, Hands
<1>14. Placed' /\ InTurn'
  BY <1>1, <1>3, <1>10, <1>11 DEF Placed, InTurn
<1> QED
  BY <1>12, <1>13, <1>14 DEF FramesInv

\* The frame in the sender's hand leaves it, the queues being as they are.
LEMMA HandEmptied ==
  ASSUME TypeInv, FramesInv, send.pc = "write", can' = can, http' = http,
         hist.of' = hist.of, send'.frame = 0, send'.pc \in {"pop", "scan"},
         Located(Cont, hist.of, http.frame, 0, hist'.sent, hist'.lost),
         Ordered(Cont, hist.of, hist'.sent, hist'.back)
  PROVE  FramesInv'
<1>1. Cont' = Cont
  BY DEF Cont
<1>2. Whole'
  BY DEF FramesInv, Whole, WholeAt, One
<1>3. Hands'
  BY DEF FramesInv, Hands
<1>4. Placed' /\ InTurn'
  BY <1>1 DEF Placed, InTurn
<1> QED
  BY <1>2, <1>3, <1>4 DEF FramesInv

\* What is known of the frame that is being written.
LEMMA Written ==
  ASSUME TypeInv, FramesInv, send.pc = "write"
  PROVE  /\ send.frame \in 1 .. Len(hist.of) /\ send.frame # 0
         /\ hist.of[send.frame] = send.i /\ hist.of \in Seq(Ifaces) /\ hist.sent \in Seq(Nat)
         /\ Located(Cont, hist.of, http.frame, send.frame, hist.sent, hist.lost)
         /\ Ordered(Cont, hist.of, hist.sent, hist.back)
         /\ Between(Cont, hist.of, hist.sent, hist.back, send.frame)
<1>1. send.frame # 0 /\ hist.of[send.frame] = send.i
  BY DEF FramesInv, Hands
<1> QED
  BY <1>1, FrameFacts DEF FramesInv, Placed, InTurn

\* The frame is written, or lost.
LEMMA SendOkFrames ==
  ASSUME TypeInv, FramesInv, SendOk
  PROVE  FramesInv'
<1>0. PICK f, s : f = send.frame /\ s = Append(hist.sent, send.frame)
  OBVIOUS
<1>1. /\ hist \in Hists /\ send \in Sends /\ send.pc = "write" /\ can' = can /\ http' = http
      /\ hist' = [hist EXCEPT !.sent = s]
      /\ send' = [send EXCEPT !.pc = "pop", !.frame = NoFrame]
  BY <1>0 DEF TypeInv, BusType, SendOk
<1>2. /\ hist.of' = hist.of /\ hist'.sent = s /\ hist'.back = hist.back
      /\ hist'.lost = hist.lost
  BY <1>1 DEF Hists
<1>3. send'.frame = 0 /\ send'.pc = "pop"
  BY <1>1, NumberFacts DEF Sends
<1>4. Located(Cont, hist.of, http.frame, 0, s, hist.lost)
  BY <1>0, <1>1, Written, SentLocated
<1>5. Ordered(Cont, hist.of, s, hist.back)
  BY <1>0, <1>1, Written, SentOrdered
<1> QED
  BY <1>1, <1>2, <1>3, <1>4, <1>5, HandEmptied

LEMMA SendErrorFrames ==
  ASSUME TypeInv, FramesInv, send.pc = "write", can' = can, http' = http,
         hist' = [hist EXCEPT !.lost = @ \cup {send.frame}],
         send'.frame = 0, send'.pc \in {"pop", "scan"}
  PROVE  FramesInv'
<1>0. PICK l : l = hist.lost \cup {send.frame}
  OBVIOUS
<1>1. hist \in Hists /\ hist' = [hist EXCEPT !.lost = l]
  BY <1>0 DEF TypeInv, BusType
<1>2. /\ hist.of' = hist.of /\ hist'.sent = hist.sent /\ hist'.back = hist.back
      /\ hist'.lost = l
  BY <1>1 DEF Hists
<1>3. Located(Cont, hist.of, http.frame, 0, hist.sent, l)
  BY <1>0, Written, LostLocated
<1>4. Ordered(Cont, hist.of, hist.sent, hist.back)
  BY Written
<1> QED
  BY <1>2, <1>3, <1>4, HandEmptied

\* The socket is not writable: the frame is put back, or lost.
LEMMA SendAgainFrames ==
  ASSUME TypeInv, FramesInv, SendAgain
  PROVE  FramesInv'
<1>0. PICK i, q, f, b : /\ i = send.i /\ q = can.txq[send.i] /\ f = send.frame
                        /\ b = hist.back \cup {send.frame}
  OBVIOUS
<1>1. /\ can \in Cans /\ hist \in Hists /\ send \in Sends /\ send.pc = "write"
      /\ http' = http /\ i \in Ifaces /\ q \in Queues /\ can.txq \in [Ifaces -> Queues]
  BY <1>0, InHand, FrameFacts DEF TypeInv, BusType, SendAgain, AtWork
<1>2. CASE Refuses(q)
  <2>1. /\ hist' = [hist EXCEPT !.lost = @ \cup {send.frame}] /\ can' = can
        /\ send' = [send EXCEPT !.pc = "scan", !.i = @ + 1, !.frame = NoFrame]
    BY <1>0, <1>2 DEF SendAgain
  <2>2. send'.frame = 0 /\ send'.pc = "scan"
    BY <1>1, <2>1, NumberFacts DEF Sends
  <2> QED
    BY <1>1, <2>1, <2>2, SendErrorFrames
<1>3. CASE ~Refuses(q)
  <2>1. /\ can' = [can EXCEPT !.txq[send.i] = Claimed(@, "send")]
        /\ send' = [send EXCEPT !.pc = "store"]
        /\ hist' = [hist EXCEPT !.back = @ \cup {send.frame}]
    BY <1>0, <1>3 DEF SendAgain
  <2>2. can.txq' = [can.txq EXCEPT ![i] = Claimed(q, "send")]
    <3>1. can' = [can EXCEPT !.txq[i] = Claimed(q, "send")]
      BY <1>0, <1>1, <2>1 DEF Cans
    <3> QED
      BY <1>1, <3>1, CanQueueFields
  <2>3. send'.pc = "store" /\ send'.i = i /\ send'.frame = f
    BY <1>0, <1>1, <2>1 DEF Sends
  <2>4. /\ hist.of' = hist.of /\ hist'.sent = hist.sent /\ hist'.back = b
        /\ hist'.lost = hist.lost
    <3>1. hist' = [hist EXCEPT !.back = b]
      BY <1>0, <2>1
    <3> QED
      BY <1>1, <3>1 DEF Hists
  <2>5. /\ can.txq'[i] = Claimed(q, "send")
        /\ \A j \in Ifaces : j # i => can.txq'[j] = can.txq[j]
    BY <1>1, <2>2
  <2>6. WholeAt(i) /\ Packed(q) /\ q.pusher = "none"
    BY <1>0, <1>1, <1>3 DEF FramesInv, Whole, WholeAt, Refuses
  <2>7. /\ Packed(Claimed(q, "send")) /\ Held(Claimed(q, "send")) = Held(q)
        /\ Contents(Claimed(q, "send")) = Contents(q) /\ Claimed(q, "send").used = q.used
        /\ Claimed(q, "send").pusher = "send"
    BY <1>1, <1>3, <2>6, QueueClaimed, ClaimedContents
  <2>8. Cont' = Cont
    <3>1. \A j \in Ifaces : Contents(can.txq'[j]) = Contents(can.txq[j])
      BY <1>0, <2>5, <2>7
    <3> QED
      BY <3>1 DEF Cont
  <2>9. Whole'
    <3>1. WholeAt(i)'
      BY <1>0, <1>1, <2>3, <2>5, <2>6, <2>7 DEF WholeAt, One
    <3>2. \A j \in Ifaces : j # i => WholeAt(j)'
      BY <1>0, <1>1, <2>3, <2>5, WholeElsewhere
    <3> QED
      BY <3>1, <3>2 DEF Whole
  <2>10. Hands'
    <3>1. f \in b /\ send.frame = f /\ send.i = i
      BY <1>0
    <3> QED
      BY <1>1, <2>3, <2>4, <3>1 DEF FramesInv, Hands
  <2>11. Placed'
    BY <1>0, <1>1, <2>3, <2>4, <2>8 DEF FramesInv, Placed
  <2>12. InTurn'
    <3>1. Ordered(Cont, hist.of, hist.sent, b)
      BY <1>0, BackOrdered DEF FramesInv, InTurn
    <3> QED
      BY <2>3, <2>4, <2>8, <3>1 DEF InTurn
  <2> QED
    BY <2>9, <2>10, <2>11, <2>12 DEF FramesInv
<1> QED
  BY <1>2, <1>3

\* The invariant holds at the start, and after any step.
LEMMA InitFrames ==
  ASSUME Init
  PROVE  FramesInv
<1>1. /\ can.txq = [i \in Ifaces |-> EmptyQueue]
      /\ http = [pc |-> "idle", i |-> 0, frame |-> NoFrame]
      /\ send = [pc |-> "wait", i |-> 0, limit |-> 0, frame |-> NoFrame]
      /\ hist.of = <<>> /\ hist.sent = <<>> /\ hist.lost = {} /\ hist.back = {}
  BY Started DEF Init
<1>2. http.pc = "idle" /\ http.frame = 0 /\ send.pc = "wait" /\ send.frame = 0
  BY <1>1, NumberFacts
<1>3. Whole
  BY <1>1, <1>2, EmptyContents DEF Whole, WholeAt, One
<1>4. \A i \in Ifaces : Len(Cont[i]) = 0
  BY <1>1, EmptyContents DEF Cont
<1>5. Placed
  <2>1. QueuesOwn(Cont, <<>>)
    BY <1>4 DEF QueuesOwn
  <2>2. BusOwn(<<>>, <<>>)
    BY DEF BusOwn
  <2>3. Somewhere(Cont, <<>>, 0, 0, <<>>, {})
    BY DEF Somewhere
  <2>4. Located(Cont, <<>>, 0, 0, <<>>, {})
    BY <2>1, <2>2, <2>3 DEF Located
  <2> QED
    BY <1>1, <1>2, <2>4 DEF Placed
<1>6. InTurn
  <2>1. BusOrder(<<>>, <<>>, {}) /\ BusFirst(Cont, <<>>, <<>>, {})
    BY DEF BusOrder, BusFirst
  <2>2. QueueOrder(Cont, {})
    BY <1>4 DEF QueueOrder
  <2> QED
    BY <1>1, <1>2, <2>1, <2>2 DEF InTurn, Ordered
<1>7. Hands
  BY <1>1, <1>2 DEF Hands
<1> QED
  BY <1>3, <1>5, <1>6, <1>7 DEF FramesInv

LEMMA StepFrames ==
  ASSUME TypeInv, FramesInv, [Next]_vars
  PROVE  FramesInv'
<1>1. CASE Next
  <2>1. CASE \E i \in Ifaces : TxFrame(i)
    BY <2>1, TxFrameFrames
  <2>2. CASE TxStore
    BY <2>2, TxStoreFrames
  <2>3. CASE SendPop
    BY <2>3, SendPopFrames
  <2>4. CASE SendRead
    BY <2>4, SendReadFrames
  <2>5. CASE SendOk
    BY <2>5, SendOkFrames
  <2>6. CASE SendError
    <3>1. /\ send \in Sends /\ send.pc = "write" /\ can' = can /\ http' = http
          /\ hist' = [hist EXCEPT !.lost = @ \cup {send.frame}]
          /\ send' = [send EXCEPT !.pc = "pop", !.frame = NoFrame]
      BY <2>6 DEF SendError, TypeInv, BusType
    <3>2. send'.frame = 0 /\ send'.pc = "pop"
      BY <3>1, NumberFacts DEF Sends
    <3> QED
      BY <3>1, <3>2, SendErrorFrames
  <2>7. CASE SendAgain
    BY <2>7, SendAgainFrames
  <2>8. CASE SendStore
    BY <2>8, SendStoreFrames
  <2>9. CASE \/ TxSignal \/ (\E new \in 0 .. NIfaces : ConfigBegin(new))
             \/ ConfigureFails \/ OpenFails \/ Applied \/ ConfigEnd
             \/ SendWake \/ SendLock \/ SendScan \/ SendScanned \/ SendUpdate \/ SendUnlock
             \/ (\E i \in Ifaces : Reconnect(i) \/ LeftClosed(i))
    BY <2>9, QuietFrames
  <2> QED
    BY <1>1, <2>1, <2>2, <2>3, <2>4, <2>5, <2>6, <2>7, <2>8, <2>9
       DEF Next, Http, Sender, Receiver
<1>2. CASE UNCHANGED vars
  <2>1. Cont' = Cont
    BY <1>2 DEF vars, Cont
  <2> QED
    BY <1>2, <2>1 DEF vars, FramesInv, Whole, WholeAt, Hands, Placed, InTurn
<1> QED
  BY <1>1, <1>2

\* The invariant of the frames holds for any capacity of the queues, and any number of
\* interfaces and frames.
THEOREM FramesCorrect == Spec => []FramesInv
<1>1. Init => FramesInv
  BY InitFrames
<1>2. TypeInv /\ FramesInv /\ [Next]_vars => FramesInv'
  BY StepFrames
<1> QED
  BY <1>1, <1>2, TypeCorrect, PTL DEF Spec

-----------------------------------------------------------------------------
(* Each frame is in one place, counted. *)

\* The places of a frame that FramesAccounted counts: positions in the queues, and
\* on the bus.
InQueues(f) ==
  {p \in Ifaces \X (1 .. Cap) :
     LET c == Contents(can.txq[p[1]])
     IN p[2] <= Len(c) /\ c[p[2]] = f /\ hist.of[f] = p[1]}

OnTheBus(f) == {k \in DOMAIN hist.sent : hist.sent[k] = f}

\* There is one position, or none.
LEMMA CountedInQueues ==
  ASSUME TypeInv, FramesInv, NEW f \in 1 .. Len(hist.of)
  PROVE  Cardinality(InQueues(f)) = One(InQueue(Cont, hist.of, f))
<1> DEFINE i == hist.of[f]
           c == Cont[i]
<1>1. /\ i \in Ifaces /\ c = Contents(can.txq[i]) /\ Len(c) \in 0 .. Cap
      /\ Cap \in Nat /\ QueuesOwn(Cont, hist.of)
  <2>1. hist.of \in Seq(Ifaces) /\ Cap \in Nat /\ QueuesOwn(Cont, hist.of)
    BY FrameFacts, NumberFacts
  <2>2. i \in Ifaces
    BY <2>1
  <2>3. Cont[i] = Contents(can.txq[i]) /\ Len(Cont[i]) \in 0 .. Cap
    <3> HIDE DEF i
    <3> QED
      BY <2>2, FrameFacts
  <2> QED
    BY <2>1, <2>2, <2>3
<1>2. ASSUME NEW p \in InQueues(f)
      PROVE  p = <<i, p[2]>> /\ p[2] \in 1 .. Len(c) /\ c[p[2]] = f
  <2>1. p \in Ifaces \X (1 .. Cap) /\ p[2] <= Len(Contents(can.txq[p[1]]))
        /\ Contents(can.txq[p[1]])[p[2]] = f /\ p[1] = i
    BY DEF InQueues
  <2>2. p = <<p[1], p[2]>> /\ p[2] \in 1 .. Cap
    BY <2>1
  <2> QED
    BY <1>1, <2>1, <2>2
<1>3. CASE InQueue(Cont, hist.of, f)
  <2>1. PICK k \in 1 .. Len(c) : c[k] = f
    BY <1>3 DEF InQueue
  <2>2. <<i, k>> \in InQueues(f)
    <3>1. k \in 1 .. Cap /\ k <= Len(c)
      BY <1>1, <2>1
    <3> QED
      BY <1>1, <2>1, <3>1 DEF InQueues
  <2>3. \A p \in InQueues(f) : p = <<i, k>>
    <3> TAKE p \in InQueues(f)
    <3>1. p[2] = k
      BY <1>1, <1>2, <2>1 DEF QueuesOwn
    <3> QED
      BY <1>2, <3>1
  <2>4. InQueues(f) = {<<i, k>>}
    BY <2>2, <2>3
  <2> QED
    BY <1>3, <2>4, FS_Singleton DEF One
<1>4. CASE ~InQueue(Cont, hist.of, f)
  <2>1. InQueues(f) = {}
    BY <1>2, <1>4 DEF InQueue
  <2> QED
    BY <1>4, <2>1, FS_EmptySet DEF One
<1> QED
  BY <1>3, <1>4

LEMMA CountedOnBus ==
  ASSUME TypeInv, FramesInv, NEW f \in 1 .. Len(hist.of)
  PROVE  Cardinality(OnTheBus(f)) = One(OnBus(hist.sent, f))
<1>1. BusOwn(hist.of, hist.sent) /\ DOMAIN hist.sent = 1 .. Len(hist.sent)
  BY FrameFacts
<1>2. CASE OnBus(hist.sent, f)
  <2>1. PICK m \in 1 .. Len(hist.sent) : hist.sent[m] = f
    BY <1>2 DEF OnBus
  <2>2. OnTheBus(f) = {m}
    BY <1>1, <2>1 DEF OnTheBus, BusOwn
  <2> QED
    BY <1>2, <2>2, FS_Singleton DEF One
<1>3. CASE ~OnBus(hist.sent, f)
  <2>1. OnTheBus(f) = {}
    BY <1>1, <1>3 DEF OnTheBus, OnBus
  <2> QED
    BY <1>3, <2>1, FS_EmptySet DEF One
<1> QED
  BY <1>2, <1>3

\* What a producer was told is queued is neither lost, doubled nor overtaken: by the
\* pushes that only try their lock, the pop that takes none, and the frames put back
\* after EAGAIN (can_queue_push, can_queue_pop, handle_can_output).
THEOREM FramesKeptCorrect == Spec => []FramesKept
<1>1. TypeInv /\ FramesInv => FramesKept
  <2> SUFFICES ASSUME TypeInv, FramesInv
               PROVE  FramesKept
    OBVIOUS
  <2>1. ASSUME NEW i \in Ifaces
        PROVE  Len(Contents(can.txq[i])) = can.txq[i].used + One(send.pc = "read" /\ send.i = i)
    BY FrameFacts DEF FramesInv, Whole, WholeAt
  <2>2. DOMAIN hist.of = 1 .. Len(hist.of) /\ DOMAIN hist.sent = 1 .. Len(hist.sent)
    BY FrameFacts
  <2>3. ASSUME NEW f \in 1 .. Len(hist.of)
        PROVE  Places(f) = 1
    <3>1. Cardinality(InQueues(f)) = One(InQueue(Cont, hist.of, f))
          /\ Cardinality(OnTheBus(f)) = One(OnBus(hist.sent, f))
      BY CountedInQueues, CountedOnBus
    <3>2. Places(f) = One(InQueue(Cont, hist.of, f)) + One(OnBus(hist.sent, f))
                      + One(http.frame = f) + One(send.frame = f) + One(f \in hist.lost)
      BY <3>1 DEF Places, InQueues, OnTheBus
    <3>3. OneOf(InQueue(Cont, hist.of, f), OnBus(hist.sent, f), http.frame = f,
                send.frame = f, f \in hist.lost)
      BY DEF FramesInv, Placed, Located, Somewhere
    <3> QED
      BY <3>2, <3>3 DEF OneOf, One
  <2>4. FramesAccounted
    BY <2>1, <2>2, <2>3 DEF FramesAccounted
  <2>5. InOrder
    BY <2>2 DEF FramesInv, InTurn, Ordered, BusOrder, NotPast, InOrder
  <2> QED
    BY <2>4, <2>5 DEF FramesKept
<1> QED
  BY <1>1, TypeCorrect, FramesCorrect, PTL
==============================================================================
