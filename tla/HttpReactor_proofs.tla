-------------------------- MODULE HttpReactor_proofs --------------------------
(***************************************************************************)
(* The HTTP server: who answers for each descriptor, the reactor or a video*)
(* thread, and that the counter of the connections is exact.               *)
(***************************************************************************)
EXTENDS HttpReactor, FiniteSetTheorems, TLAPS

\* The values of the variables of HttpReactor.
Conns == [phase : {"none", "head", "reply"}, out : Nat, idle : BOOLEAN]
Peers == [state : {"new", "queued", "open", "hungup", "failed", "gone"},
          sent : {"nothing", "part", "read", "all"}]
Threads == [pc : {"none", "on", "leaving", "closed"}, fd : Fds \cup {NoFd}]
Tasks == [pc : {"wait", "next", "accept", "detach", "exit", "end"},
          batch : SUBSET Fds, fd : Fds \cup {NoFd}]

Hists == [foreign : {FALSE}, answered : SUBSET Clients]

ReactorType ==
  /\ kern \in [Fds -> {"free", "listen"} \cup Clients]
  /\ conn \in [Fds -> Conns]
  /\ client \in [Clients -> Peers]
  /\ stream \in [Clients -> Threads]
  /\ task \in Tasks
  /\ active \in Int
  /\ hist \in Hists

\* The reactor answers for a descriptor, or a video thread does.
IsListed(f) == conn[f].phase # "none" /\ task.fd # f
Owner(c, f) == stream[c].pc \in {"on", "leaving"} /\ stream[c].fd = f
IsStreamed(f) == \E c \in Clients : Owner(c, f)

\* A descriptor is a client's as long as the reactor or a video thread answers for
\* it, never both.
Owned ==
  \A f \in Fds :
    /\ kern[f] = "listen" => f = Listener
    /\ kern[f] \in Clients <=> IsListed(f) \/ IsStreamed(f)
    /\ ~(IsListed(f) /\ IsStreamed(f))

\* A client has one descriptor, while it is open; a video thread has its client's;
\* the client of a thread that has closed it is gone and does not come back.
OnePeer ==
  /\ \A f \in Fds : kern[f] \in Clients => client[kern[f]].state \in {"open", "hungup"}
  /\ \A f, g \in Fds : kern[f] = kern[g] /\ kern[f] \in Clients => f = g
  /\ \A c \in Clients, f \in Fds : Owner(c, f) => kern[f] = c
  /\ \A c \in Clients : stream[c].pc = "closed" => client[c].state = "gone"
  /\ \A c \in Clients : stream[c].pc \in {"on", "leaving"} => stream[c].fd \in Fds

\* What the reactor holds between two steps: the connection it is handing over, and
\* the events it has not yet handled, each of a connection that is there.
Turn ==
  /\ IF task.pc = "detach" THEN task.fd \in Fds /\ conn[task.fd].phase # "none"
     ELSE task.fd = NoFd
  /\ task.pc \in {"wait", "exit", "end"} => task.batch = {}
  /\ \A f \in task.batch : f # task.fd /\ (f = Listener \/ conn[f].phase # "none")

\* The places that video threads have.
Streaming == {c \in Clients : stream[c].pc # "none"}

\* The inductive invariant of the HTTP server.
ReactorInv == ReactorType /\ Owned /\ OnePeer /\ Turn /\ IsFiniteSet(Streaming) /\ CountExact

\* Descriptors, and the values that are no client.
LEMMA FdFacts ==
  /\ Fds \subseteq Nat /\ NoFd \notin Fds /\ Listener \in Fds
  /\ IsFiniteSet(Fds)
  /\ "free" \notin Clients /\ "listen" \notin Clients
<1>1. IsFiniteSet(1 .. NFds)
  BY FS_Interval, HttpAssumption
<1> QED
  BY <1>1, HttpAssumption DEF Fds, NoFd, Listener

\* The connections that the reactor answers for.
Held == {f \in Fds : IsListed(f)}

\* They are those that CountExact counts.
LEMMA HeldFacts ==
  /\ Held = Listed \ {task.fd}
  /\ Held' = Listed' \ {task'.fd}
  /\ Listed \subseteq Fds
  /\ IsFiniteSet(Held) /\ Cardinality(Held) \in Nat
<1>1. Held = Listed \ {task.fd} /\ Held' = Listed' \ {task'.fd} /\ Listed \subseteq Fds
  BY DEF Held, Listed, IsListed
<1>2. IsFiniteSet(Held)
  BY FdFacts, FS_Subset DEF Held
<1> QED
  BY <1>1, <1>2, FS_CardinalityType

\* Steps that neither open nor close a descriptor, nor hand one over.
LEMMA Kept ==
  ASSUME ReactorInv, UNCHANGED <<kern, active, stream>>,
         conn' \in [Fds -> Conns],
         \A f \in Fds : conn'[f].phase = "none" <=> conn[f].phase = "none",
         client' \in [Clients -> Peers],
         \A c \in Clients :
           /\ client[c].state \in {"open", "hungup"} => client'[c].state \in {"open", "hungup"}
           /\ client[c].state = "gone" => client'[c].state = "gone",
         task' \in Tasks, task'.fd = task.fd, Turn',
         hist' \in Hists
  PROVE  ReactorInv'
<1>0. ReactorType /\ Owned /\ OnePeer /\ Turn /\ IsFiniteSet(Streaming) /\ CountExact
  BY DEF ReactorInv
<1>1. ReactorType'
  BY <1>0 DEF ReactorType
<1>2. \A f \in Fds : IsListed(f)' <=> IsListed(f)
  BY DEF IsListed
<1>3. \A c \in Clients, f \in Fds : Owner(c, f)' <=> Owner(c, f)
  BY DEF Owner
<1>4. Owned'
  BY <1>0, <1>2, <1>3 DEF Owned, IsStreamed
<1>5. OnePeer'
  BY <1>0, <1>3 DEF OnePeer
<1>6. Streaming' = Streaming
  BY DEF Streaming
<1>7. Held' = Held
  BY <1>2 DEF Held
<1>8. CountExact'
  BY <1>0, <1>6, <1>7, HeldFacts DEF CountExact, Streaming
<1> QED
  BY <1>0, <1>1, <1>4, <1>5, <1>6, <1>8 DEF ReactorInv

\* The connections in F are closed by the reactor.
LEMMA Released ==
  ASSUME ReactorInv, task.fd = NoFd, NEW F \in SUBSET Fds,
         \A f \in F : conn[f].phase # "none",
         kern' = [f \in Fds |-> IF f \in F THEN "free" ELSE kern[f]],
         conn' = [f \in Fds |-> IF f \in F THEN NoConn ELSE conn[f]],
         active' = active - Cardinality(F),
         client' \in [Clients -> Peers],
         \A c \in Clients : (\A f \in F : kern[f] # c) => client'[c] = client[c],
         stream' = stream, hist' \in Hists,
         task' \in Tasks, task'.fd = NoFd, task'.pc # "detach",
         task'.pc \in {"wait", "exit", "end"} => task'.batch = {},
         task'.batch \subseteq task.batch \ F
  PROVE  ReactorInv'
<1>0. ReactorType /\ Owned /\ OnePeer /\ Turn /\ IsFiniteSet(Streaming) /\ CountExact
  BY DEF ReactorInv
<1>1. \A f \in F : IsListed(f) /\ kern[f] \in Clients /\ ~IsStreamed(f)
  BY <1>0, FdFacts DEF Owned, IsListed
<1>2. NoConn \in Conns /\ NoConn.phase = "none"
  BY DEF NoConn, Conns
<1>3. ReactorType'
  <2>1. kern' \in [Fds -> {"free", "listen"} \cup Clients]
    BY <1>0 DEF ReactorType
  <2>2. conn' \in [Fds -> Conns]
    BY <1>0, <1>2 DEF ReactorType
  <2>3. active' \in Int
    <3>1. Cardinality(F) \in Nat
      BY FdFacts, FS_Subset, FS_CardinalityType
    <3> QED
      BY <1>0, <3>1 DEF ReactorType
  <2> QED
    BY <1>0, <2>1, <2>2, <2>3 DEF ReactorType
<1>4. \A f \in Fds : IsListed(f)' <=> IsListed(f) /\ f \notin F
  BY <1>2, FdFacts DEF IsListed
<1>5. \A c \in Clients, f \in Fds : Owner(c, f)' <=> Owner(c, f)
  BY DEF Owner
<1>6. \A f \in Fds : IsStreamed(f)' <=> IsStreamed(f)
  BY <1>5 DEF IsStreamed
<1>7. \A f \in Fds : kern'[f] = IF f \in F THEN "free" ELSE kern[f]
  OBVIOUS
<1>8. Owned'
  <2> SUFFICES ASSUME NEW f \in Fds
               PROVE  /\ kern'[f] = "listen" => f = Listener
                      /\ kern'[f] \in Clients <=> IsListed(f)' \/ IsStreamed(f)'
                      /\ ~(IsListed(f)' /\ IsStreamed(f)')
    BY DEF Owned
  <2>1. CASE f \in F
    BY <1>1, <1>4, <1>6, <1>7, <2>1, FdFacts
  <2>2. CASE f \notin F
    BY <1>0, <1>4, <1>6, <1>7, <2>2 DEF Owned
  <2> QED
    BY <2>1, <2>2
<1>9. \A f \in Fds : kern'[f] \in Clients => f \notin F /\ kern'[f] = kern[f]
  BY <1>7, FdFacts
<1>10. \A f \in Fds : kern'[f] \in Clients => client'[kern[f]] = client[kern[f]]
  <2> SUFFICES ASSUME NEW f \in Fds, kern'[f] \in Clients PROVE client'[kern[f]] = client[kern[f]]
    OBVIOUS
  <2>1. \A g \in F : kern[g] # kern[f]
    BY <1>0, <1>9 DEF OnePeer
  <2> QED
    BY <1>9, <2>1
<1>11. OnePeer'
  <2>1. \A f \in Fds : kern'[f] \in Clients => client'[kern'[f]].state \in {"open", "hungup"}
    BY <1>0, <1>9, <1>10 DEF OnePeer
  <2>2. \A f, g \in Fds : kern'[f] = kern'[g] /\ kern'[f] \in Clients => f = g
    BY <1>0, <1>9 DEF OnePeer
  <2>3. \A c \in Clients, f \in Fds : Owner(c, f)' => kern'[f] = c
    <3> SUFFICES ASSUME NEW c \in Clients, NEW f \in Fds, Owner(c, f) PROVE kern'[f] = c
      BY <1>5
    <3>1. f \notin F
      BY <1>1 DEF IsStreamed
    <3> QED
      BY <1>0, <1>7, <3>1 DEF OnePeer
  <2>4. \A c \in Clients : stream[c].pc = "closed" => client'[c].state = "gone"
    <3> SUFFICES ASSUME NEW c \in Clients, stream[c].pc = "closed" PROVE client'[c].state = "gone"
      OBVIOUS
    <3>1. client[c].state = "gone"
      BY <1>0 DEF OnePeer
    <3>2. \A f \in F : kern[f] # c
      BY <1>0, <1>1, <3>1 DEF OnePeer
    <3> QED
      BY <3>1, <3>2
  <2> QED
    BY <1>0, <2>1, <2>2, <2>3, <2>4 DEF OnePeer
<1>12. Turn'
  <2>1. \A f \in task'.batch : f \in Fds /\ f \notin F /\ (f = Listener \/ conn[f].phase # "none")
    BY <1>0 DEF Turn, Tasks
  <2>2. \A f \in task'.batch : f # NoFd /\ (f = Listener \/ conn'[f].phase # "none")
    BY <2>1, FdFacts
  <2> QED
    BY <2>2 DEF Turn
<1>13. Streaming' = Streaming
  BY DEF Streaming
<1>14. CountExact'
  <2>1. Held' = Held \ F /\ F \subseteq Held
    BY <1>1, <1>4 DEF Held
  <2>2. Cardinality(Held \ F) = Cardinality(Held) - Cardinality(Held \cap F)
    BY HeldFacts, FS_Difference
  <2>3. Held \cap F = F
    BY <2>1
  <2>4. Cardinality(Streaming) \in Nat /\ Cardinality(F) \in Nat
    BY <1>0, FdFacts, FS_Subset, FS_CardinalityType
  <2>5. active = Cardinality(Held) + Cardinality(Streaming)
    BY <1>0, HeldFacts DEF CountExact, Streaming
  <2>6. active' = Cardinality(Held') + Cardinality(Streaming')
    <3>1. Cardinality(Held') = Cardinality(Held) - Cardinality(F)
      BY <2>1, <2>2, <2>3
    <3>2. Cardinality(Held) \in Nat
      BY HeldFacts
    <3> QED
      BY <1>13, <2>4, <2>5, <3>1, <3>2
  <2> QED
    BY <2>6, HeldFacts DEF CountExact, Streaming
<1> QED
  BY <1>0, <1>3, <1>8, <1>11, <1>12, <1>13, <1>14 DEF ReactorInv

\* The states of a client.
States == {"new", "queued", "open", "hungup", "failed", "gone"}

\* A client changes its state.
LEMMA StateStep ==
  ASSUME client \in [Clients -> Peers], NEW c \in Clients, NEW s \in States
  PROVE  /\ [client EXCEPT ![c].state = s] \in [Clients -> Peers]
         /\ \A d \in Clients :
              /\ [client EXCEPT ![c].state = s][d].state = IF d = c THEN s ELSE client[d].state
              /\ d # c => [client EXCEPT ![c].state = s][d] = client[d]
<1>1. [client EXCEPT ![c].state = s] \in [Clients -> Peers]
  BY DEF Peers, States
<1>2. ASSUME NEW d \in Clients
      PROVE  /\ [client EXCEPT ![c].state = s][d].state = IF d = c THEN s ELSE client[d].state
             /\ d # c => [client EXCEPT ![c].state = s][d] = client[d]
  BY DEF Peers
<1> QED
  BY <1>1, <1>2

\* A client has sent more, or what it sent was read.
LEMMA SentStep ==
  ASSUME client \in [Clients -> Peers], NEW c \in Clients,
         NEW w \in {"nothing", "part", "read", "all"}
  PROVE  LET d == [client EXCEPT ![c].sent = w]
         IN d \in [Clients -> Peers] /\ \A e \in Clients : d[e].state = client[e].state
<1>1. [client EXCEPT ![c].sent = w] \in [Clients -> Peers]
  BY DEF Peers
<1>2. \A e \in Clients : [client EXCEPT ![c].sent = w][e].state = client[e].state
  BY DEF Peers
<1> QED
  BY <1>1, <1>2

\* A connection that goes on.
LEMMA ConnSteps ==
  ASSUME conn \in [Fds -> Conns], NEW f \in Fds, conn[f].phase # "none",
         NEW n \in Nat, NEW b \in BOOLEAN
  PROVE  /\ LET d == [conn EXCEPT ![f].idle = b]
            IN d \in [Fds -> Conns] /\ \A g \in Fds : d[g].phase = conn[g].phase
         /\ LET d == [conn EXCEPT ![f] = [phase |-> "reply", out |-> n, idle |-> b]]
            IN d \in [Fds -> Conns]
               /\ \A g \in Fds : d[g].phase = "none" <=> conn[g].phase = "none"
<1>1. LET d == [conn EXCEPT ![f].idle = b]
      IN d \in [Fds -> Conns] /\ \A g \in Fds : d[g].phase = conn[g].phase
  BY DEF Conns
<1>2. LET d == [conn EXCEPT ![f] = [phase |-> "reply", out |-> n, idle |-> b]]
      IN d \in [Fds -> Conns]
         /\ \A g \in Fds : d[g].phase = "none" <=> conn[g].phase = "none"
  BY DEF Conns
<1> QED
  BY <1>1, <1>2

\* The turn of the reactor stays while no connection comes or goes.
LEMMA TurnStays ==
  ASSUME ReactorInv, task' = task,
         \A f \in Fds : conn'[f].phase = "none" <=> conn[f].phase = "none"
  PROVE  Turn' /\ task' \in Tasks
<1>1. task \in Tasks /\ Turn
  BY DEF ReactorInv, ReactorType
<1>2. task.batch \subseteq Fds
  BY <1>1 DEF Tasks
<1> QED
  BY <1>1, <1>2 DEF Turn

\* What holds when the reactor turns to an event.
LEMMA EventFacts ==
  ASSUME ReactorInv, NEW f \in Fds, Event(f)
  PROVE  /\ task.fd = NoFd /\ task.pc = "next"
         /\ conn[f].phase # "none" =>
              IsListed(f) /\ kern[f] \in Clients /\ Peer(f) \in Peers /\ conn[f] \in Conns
<1>1. task.fd = NoFd /\ task.pc = "next"
  BY DEF ReactorInv, Turn, Event
<1>2. ASSUME conn[f].phase # "none"
      PROVE  IsListed(f) /\ kern[f] \in Clients /\ Peer(f) \in Peers /\ conn[f] \in Conns
  <2>1. IsListed(f)
    BY <1>1, <1>2, FdFacts DEF IsListed
  <2>2. kern[f] \in Clients
    BY <2>1 DEF ReactorInv, Owned
  <2> QED
    BY <2>1, <2>2 DEF ReactorInv, ReactorType, Peer
<1> QED
  BY <1>1, <1>2

\* An event that was handled is taken off the batch.
LEMMA HandledFacts ==
  ASSUME ReactorInv, NEW f \in Fds, Event(f), Handled(f)
  PROVE  /\ task' \in Tasks /\ task'.fd = NoFd /\ task'.pc = "next"
         /\ task'.batch = task.batch \ {f}
<1>1. task \in Tasks /\ task.fd = NoFd /\ task.pc = "next"
  BY EventFacts DEF ReactorInv, ReactorType
<1>2. task' = [task EXCEPT !.batch = task.batch \ {f}]
  BY DEF Handled
<1> QED
  BY <1>1, <1>2 DEF Tasks

\* The other events of the batch stay valid while no connection is closed.
LEMMA TurnHandled ==
  ASSUME ReactorInv, NEW f \in Fds, Event(f), Handled(f),
         \A g \in Fds : conn'[g].phase = "none" <=> conn[g].phase = "none"
  PROVE  Turn'
<1>1. task \in Tasks /\ Turn
  BY DEF ReactorInv, ReactorType
<1>2. task.batch \subseteq Fds
  BY <1>1 DEF Tasks
<1> QED
  BY <1>1, <1>2, HandledFacts, EventFacts DEF Turn

\* The types of the variables.
LEMMA TypeFacts ==
  ASSUME ReactorInv
  PROVE  /\ kern \in [Fds -> {"free", "listen"} \cup Clients]
         /\ conn \in [Fds -> Conns] /\ client \in [Clients -> Peers]
         /\ stream \in [Clients -> Threads] /\ task \in Tasks /\ active \in Int
         /\ hist \in Hists
BY DEF ReactorInv, ReactorType

-----------------------------------------------------------------------------
(* The steps *)

\* Clients connect, send and hang up.
LEMMA ConnectKeeps ==
  ASSUME ReactorInv, NEW c \in Clients, Connect(c)
  PROVE  ReactorInv'
<1>1. client' = [client EXCEPT ![c].state = "queued"] /\ client[c].state = "new"
  BY DEF Connect
<1>2. client' \in [Clients -> Peers]
  BY <1>1, TypeFacts, StateStep DEF States
<1>3. \A d \in Clients : client'[d].state = IF d = c THEN "queued" ELSE client[d].state
  BY <1>1, TypeFacts, StateStep DEF States
<1>4. UNCHANGED <<kern, conn, active, task, stream, hist>>
  BY DEF Connect
<1> QED
  BY <1>1, <1>2, <1>3, <1>4, TypeFacts, TurnStays, Kept

LEMMA HangUpKeeps ==
  ASSUME ReactorInv, NEW c \in Clients, HangUp(c)
  PROVE  ReactorInv'
<1>1. client' = [client EXCEPT ![c].state = "hungup"] /\ client[c].state = "open"
  BY DEF HangUp
<1>2. client' \in [Clients -> Peers]
  BY <1>1, TypeFacts, StateStep DEF States
<1>3. \A d \in Clients : client'[d].state = IF d = c THEN "hungup" ELSE client[d].state
  BY <1>1, TypeFacts, StateStep DEF States
<1>4. UNCHANGED <<kern, conn, active, task, stream, hist>>
  BY DEF HangUp
<1> QED
  BY <1>1, <1>2, <1>3, <1>4, TypeFacts, TurnStays, Kept

LEMMA SendKeeps ==
  ASSUME ReactorInv, NEW c \in Clients, NEW what \in {"part", "all"}, Send(c, what)
  PROVE  ReactorInv'
<1>1. client' = [client EXCEPT ![c].sent = what]
  BY DEF Send
<1>2. what \in {"nothing", "part", "read", "all"}
  OBVIOUS
<1>3. client' \in [Clients -> Peers] /\ \A d \in Clients : client'[d].state = client[d].state
  <2>1. client \in [Clients -> Peers]
    BY TypeFacts
  <2> QED
    BY <1>1, <1>2, <2>1 DEF Peers
<1>4. UNCHANGED <<kern, conn, active, task, stream, hist>>
  BY DEF Send
<1> QED
  BY <1>3, <1>4, TypeFacts, TurnStays, Kept

\* The reactor goes on, without a connection.
LEMMA LoopKeeps ==
  ASSUME ReactorInv, Wait \/ AcceptBegin \/ AcceptDone
  PROVE  ReactorInv'
<1>1. UNCHANGED <<kern, conn, active, stream, client, hist>>
  BY DEF Wait, AcceptBegin, AcceptDone
<1>2. task \in Tasks /\ Turn
  BY DEF ReactorInv, ReactorType
<1>3. task' \in Tasks /\ task'.fd = task.fd /\ task'.pc \in {"next", "accept"}
      /\ task.pc # "detach"
  <2>1. CASE Wait
    BY <1>2, <2>1 DEF Wait, Tasks
  <2>2. CASE AcceptBegin
    BY <1>2, <2>2 DEF AcceptBegin, Tasks
  <2>3. CASE AcceptDone
    BY <1>2, <2>3 DEF AcceptDone, Tasks
  <2> QED
    BY <2>1, <2>2, <2>3
<1>4. task.fd = NoFd
  BY <1>2, <1>3 DEF Turn
<1>5. \A f \in task'.batch : f \in Fds /\ (f = Listener \/ conn[f].phase # "none")
  <2>1. CASE Wait
    <3>1. task'.batch = {f \in Fds : Ready(f)}
      BY <1>2, <2>1 DEF Wait, Tasks
    <3> QED
      BY <3>1 DEF Ready, ReactorInv, Owned
  <2>2. CASE AcceptBegin \/ AcceptDone
    <3>1. task'.batch \subseteq task.batch /\ task.batch \subseteq Fds
      BY <1>2, <2>2 DEF AcceptBegin, AcceptDone, Tasks
    <3> QED
      BY <1>2, <3>1 DEF Turn
  <2> QED
    BY <2>1, <2>2
<1>6. Turn'
  BY <1>1, <1>3, <1>4, <1>5, FdFacts DEF Turn
<1> QED
  BY <1>1, <1>3, <1>6, TypeFacts, Kept

\* An event that closes no connection and hands none over.
LEMMA EventKept ==
  ASSUME ReactorInv, NEW f \in Fds, Event(f), Handled(f),
         UNCHANGED <<kern, active, stream, hist>>,
         conn' \in [Fds -> Conns],
         \A g \in Fds : conn'[g].phase = "none" <=> conn[g].phase = "none",
         client' \in [Clients -> Peers],
         \A c \in Clients : client'[c].state = client[c].state
  PROVE  ReactorInv'
<1>1. Turn' /\ task' \in Tasks /\ task'.fd = task.fd
  BY TurnHandled, HandledFacts, EventFacts
<1> QED
  BY <1>1, TypeFacts, Kept

\* An event of a connection that has gone.
LEMMA StaleKeeps ==
  ASSUME ReactorInv, NEW f \in Fds, Stale(f)
  PROVE  ReactorInv'
<1>1. Event(f) /\ Handled(f) /\ UNCHANGED <<kern, conn, active, stream, client, hist>>
  BY DEF Stale
<1> QED
  BY <1>1, TypeFacts, EventKept

\* Part of a request.
LEMMA ReadPartKeeps ==
  ASSUME ReactorInv, NEW f \in Fds, ReadPart(f)
  PROVE  ReactorInv'
<1>1. Event(f) /\ Handled(f) /\ conn[f].phase # "none"
      /\ UNCHANGED <<kern, active, stream, hist>>
  BY DEF ReadPart, Alive
<1>2. kern[f] \in Clients
  BY <1>1, EventFacts
<1>3. client' = [client EXCEPT ![kern[f]].sent = "read"]
      /\ conn' = [conn EXCEPT ![f].idle = FALSE]
  BY DEF ReadPart
<1>4. client' \in [Clients -> Peers] /\ \A d \in Clients : client'[d].state = client[d].state
  BY <1>2, <1>3, TypeFacts, SentStep
<1>5. conn' \in [Fds -> Conns] /\ \A g \in Fds : conn'[g].phase = conn[g].phase
  BY <1>1, <1>3, TypeFacts, ConnSteps
<1> QED
  BY <1>1, <1>4, <1>5, EventKept

\* What conn_close does to the clients and the history.
LEMMA CloseFacts ==
  ASSUME ReactorInv, task.fd = NoFd, NEW F \in SUBSET Fds,
         \A f \in F : conn[f].phase # "none", ClosedAll(F)
  PROVE  /\ client' \in [Clients -> Peers] /\ hist' \in Hists
         /\ \A c \in Clients : (\A f \in F : kern[f] # c) => client'[c] = client[c]
<1>1. \A f \in F : kern[f] \in Clients
  BY FdFacts DEF ReactorInv, Owned, IsListed
<1>2. hist' \in Hists
  <2>1. hist' = [hist EXCEPT !.foreign = hist.foreign \/ \E f \in F : kern[f] \notin Clients]
    BY DEF ClosedAll
  <2>2. hist.foreign = FALSE /\ ~\E f \in F : kern[f] \notin Clients
    BY <1>1, TypeFacts DEF Hists
  <2>3. hist' = [hist EXCEPT !.foreign = FALSE]
    BY <2>1, <2>2
  <2> QED
    BY <2>3, TypeFacts DEF Hists
<1>3. \A c \in Clients : client'[c] = IF \E f \in F : kern[f] = c
                                     THEN [client[c] EXCEPT !.state = "gone"] ELSE client[c]
  BY DEF ClosedAll
<1>4. client' \in [Clients -> Peers]
  <2>1. \A c \in Clients : client[c] \in Peers /\ [client[c] EXCEPT !.state = "gone"] \in Peers
    BY TypeFacts DEF Peers
  <2>2. client' = [c \in Clients |-> IF \E f \in F : kern[f] = c
                                     THEN [client[c] EXCEPT !.state = "gone"] ELSE client[c]]
    BY DEF ClosedAll
  <2> QED
    BY <2>1, <2>2
<1> QED
  BY <1>2, <1>3, <1>4

\* The response is complete, or the connection fails: one connection is let go.
LEMMA OneReleased ==
  ASSUME ReactorInv, NEW f \in Fds, Event(f), Handled(f), conn[f].phase # "none",
         NEW s \in {"gone", "failed"},
         kern' = [kern EXCEPT ![f] = "free"],
         client' = [client EXCEPT ![kern[f]].state = s],
         conn' = [conn EXCEPT ![f] = NoConn], active' = active - 1,
         stream' = stream, hist' \in Hists
  PROVE  ReactorInv'
<1>1. task.fd = NoFd /\ kern[f] \in Clients
  BY EventFacts
<1>2. kern' = [g \in Fds |-> IF g \in {f} THEN "free" ELSE kern[g]]
  BY TypeFacts
<1>3. conn' = [g \in Fds |-> IF g \in {f} THEN NoConn ELSE conn[g]]
  BY TypeFacts
<1>4. Cardinality({f}) = 1
  BY FS_Singleton
<1>5. client' \in [Clients -> Peers] /\ \A c \in Clients : c # kern[f] => client'[c] = client[c]
  <2>1. s \in States
    BY DEF States
  <2> QED
    BY <1>1, <2>1, TypeFacts, StateStep
<1>6. \A c \in Clients : (\A g \in {f} : kern[g] # c) => client'[c] = client[c]
  BY <1>5
<1>7. /\ task' \in Tasks /\ task'.fd = NoFd /\ task'.pc = "next"
      /\ task'.batch = task.batch \ {f}
  BY HandledFacts
<1>8. \A g \in {f} : conn[g].phase # "none"
  OBVIOUS
<1>9. {f} \in SUBSET Fds
  OBVIOUS
<1>10. active' = active - Cardinality({f})
  BY <1>4
<1> DEFINE F == {f}
<1> HIDE DEF F
<1> QED
  BY <1>1, <1>2, <1>3, <1>5, <1>6, <1>7, <1>8, <1>9, <1>10, Released DEF F

\* A response that is complete closes its connection.
LEMMA AnswerKeeps ==
  ASSUME ReactorInv, NEW f \in Fds, Event(f), Handled(f), conn[f].phase # "none",
         Answer(f), stream' = stream
  PROVE  ReactorInv'
<1>1. kern[f] \in Clients
  BY EventFacts
<1>2. hist' \in Hists
  BY <1>1, TypeFacts DEF Answer, Hists
<1> QED
  BY <1>2, OneReleased DEF Answer

\* A connection that fails is closed.
LEMMA ConnFailsKeeps ==
  ASSUME ReactorInv, NEW f \in Fds, ConnFails(f)
  PROVE  ReactorInv'
<1>1. Event(f) /\ Handled(f) /\ conn[f].phase # "none" /\ stream' = stream /\ hist' = hist
  BY DEF ConnFails, Alive
<1> QED
  BY <1>1, TypeFacts, OneReleased DEF ConnFails

\* A request is handled.
LEMMA RespondKeeps ==
  ASSUME ReactorInv, NEW f \in Fds, Respond(f)
  PROVE  ReactorInv'
<1>1. Event(f) /\ Handled(f) /\ conn[f].phase # "none" /\ stream' = stream
  BY DEF Respond, Alive
<1>2. PICK n \in 0 .. Pieces :
        IF n = 0 THEN Answer(f)
        ELSE /\ conn' = [conn EXCEPT ![f] = [phase |-> "reply", out |-> n, idle |-> FALSE]]
             /\ UNCHANGED <<kern, active, client, hist>>
  BY DEF Respond
<1>3. CASE n = 0
  BY <1>1, <1>2, <1>3, AnswerKeeps
<1>4. CASE n # 0
  <2>1. n \in Nat
    BY HttpAssumption
  <2>2. conn' \in [Fds -> Conns] /\ \A g \in Fds : conn'[g].phase = "none" <=> conn[g].phase = "none"
    <3>1. LET d == [conn EXCEPT ![f] = [phase |-> "reply", out |-> n, idle |-> FALSE]]
          IN d \in [Fds -> Conns]
             /\ \A g \in Fds : d[g].phase = "none" <=> conn[g].phase = "none"
      BY <1>1, <2>1, TypeFacts, ConnSteps
    <3> QED
      BY <1>2, <1>4, <3>1
  <2> QED
    BY <1>1, <1>2, <1>4, <2>2, TypeFacts, EventKept
<1> QED
  BY <1>3, <1>4

\* More of a response is written.
LEMMA DrainKeeps ==
  ASSUME ReactorInv, NEW f \in Fds, Drain(f)
  PROVE  ReactorInv'
<1>1. Event(f) /\ Handled(f) /\ conn[f].phase # "none" /\ stream' = stream
  BY DEF Drain, Alive
<1>2. PICK n \in 0 .. conn[f].out - 1 :
        IF n = 0 THEN Answer(f)
        ELSE /\ conn' = [conn EXCEPT ![f].out = n, ![f].idle = FALSE]
             /\ UNCHANGED <<kern, active, client, hist>>
  BY DEF Drain
<1>3. CASE n = 0
  BY <1>1, <1>2, <1>3, AnswerKeeps
<1>4. CASE n # 0
  <2>1. n \in Nat
    <3>1. conn[f].out \in Nat
      BY TypeFacts DEF Conns
    <3> QED
      BY <3>1
  <2>2. conn' \in [Fds -> Conns] /\ \A g \in Fds : conn'[g].phase = conn[g].phase
    <3>1. conn \in [Fds -> Conns]
      BY TypeFacts
    <3>2. conn' = [conn EXCEPT ![f].out = n, ![f].idle = FALSE]
      BY <1>2, <1>4
    <3> QED
      BY <2>1, <3>1, <3>2 DEF Conns
  <2> QED
    BY <1>1, <1>2, <1>4, <2>2, TypeFacts, EventKept
<1> QED
  BY <1>3, <1>4

\* The peer has gone.
LEMMA HungUpKeeps ==
  ASSUME ReactorInv, NEW f \in Fds, HungUp(f)
  PROVE  ReactorInv'
<1> DEFINE F == {f}
<1>1. Event(f) /\ Handled(f) /\ conn[f].phase # "none" /\ stream' = stream
  BY DEF HungUp
<1>2. task.fd = NoFd
  BY <1>1, EventFacts
<1>3. F \in SUBSET Fds /\ \A g \in F : conn[g].phase # "none"
  BY <1>1
<1>4. /\ ClosedAll(F) /\ active' = active - Cardinality(F)
      /\ conn' = [g \in Fds |-> IF g \in F THEN NoConn ELSE conn[g]]
      /\ kern' = [g \in Fds |-> IF g \in F THEN "free" ELSE kern[g]]
  BY DEF HungUp, CloseConns, ClosedAll
<1>5. /\ task' \in Tasks /\ task'.fd = NoFd /\ task'.pc = "next"
      /\ task'.batch = task.batch \ F
  BY <1>1, HandledFacts
<1> HIDE DEF F
<1>6. /\ client' \in [Clients -> Peers] /\ hist' \in Hists
      /\ \A c \in Clients : (\A g \in F : kern[g] # c) => client'[c] = client[c]
  BY <1>2, <1>3, <1>4, CloseFacts
<1> QED
  BY <1>1, <1>2, <1>3, <1>4, <1>5, <1>6, Released

\* Idle connections are closed between two batches, and all when the loop ends.
LEMMA SweepKeeps ==
  ASSUME ReactorInv, Sweep \/ Exit
  PROVE  ReactorInv'
<1>1. PICK F \in SUBSET Listed : CloseConns(F)
  BY DEF Sweep, Exit
<1>2. F \in SUBSET Fds /\ \A g \in F : conn[g].phase # "none"
  BY <1>1 DEF Listed
<1>3. task \in Tasks /\ Turn /\ stream' = stream
  BY TypeFacts DEF ReactorInv, Sweep, Exit
<1>4. task.fd = NoFd /\ task.batch = {}
  BY <1>3 DEF Turn, Sweep, Exit
<1>5. task' \in Tasks /\ task'.fd = NoFd /\ task'.batch = {} /\ task'.pc \in {"wait", "exit"}
  <2>1. CASE Sweep
    BY <1>3, <1>4, <2>1 DEF Sweep, Tasks
  <2>2. CASE Exit
    BY <1>3, <1>4, <2>2 DEF Exit, Tasks
  <2> QED
    BY <2>1, <2>2
<1>6. /\ ClosedAll(F) /\ active' = active - Cardinality(F)
      /\ conn' = [g \in Fds |-> IF g \in F THEN NoConn ELSE conn[g]]
      /\ kern' = [g \in Fds |-> IF g \in F THEN "free" ELSE kern[g]]
  BY <1>1 DEF CloseConns, ClosedAll
<1>7. /\ client' \in [Clients -> Peers] /\ hist' \in Hists
      /\ \A c \in Clients : (\A g \in F : kern[g] # c) => client'[c] = client[c]
  BY <1>2, <1>4, <1>6, CloseFacts
<1> QED
  BY <1>2, <1>3, <1>4, <1>5, <1>6, <1>7, Released

\* Time passes.
LEMMA TickKeeps ==
  ASSUME ReactorInv, Tick
  PROVE  ReactorInv'
<1>1. UNCHANGED <<kern, active, task, stream, client, hist>>
  BY DEF Tick
<1>2. conn' = [f \in Fds |-> IF f \in Listed THEN [conn[f] EXCEPT !.idle = TRUE] ELSE conn[f]]
  BY DEF Tick
<1>3. \A f \in Fds : /\ conn[f] \in Conns
                     /\ [conn[f] EXCEPT !.idle = TRUE] \in Conns
                     /\ [conn[f] EXCEPT !.idle = TRUE].phase = conn[f].phase
  BY TypeFacts DEF Conns
<1>4. conn' \in [Fds -> Conns] /\ \A f \in Fds : conn'[f].phase = conn[f].phase
  BY <1>2, <1>3
<1> QED
  BY <1>1, <1>4, TypeFacts, TurnStays, Kept

\* Steps that touch no connection.
LEMMA StopKeeps ==
  ASSUME ReactorInv, UNCHANGED <<kern, conn, active, task, stream, client, hist>>
  PROVE  ReactorInv'
BY TypeFacts, TurnStays, Kept

\* A client is accepted, or turned away at the limit.
LEMMA AcceptKeeps ==
  ASSUME ReactorInv, Accept
  PROVE  ReactorInv'
<1>1. UNCHANGED <<task, stream, hist>> /\ task.fd = NoFd
  BY DEF Accept, ReactorInv, Turn
<1>2. PICK c \in Queued, f \in Fds :
        /\ Unused(f)
        /\ \/ /\ client' = [client EXCEPT ![c].state = "gone"]
              /\ UNCHANGED <<kern, conn, active>>
           \/ /\ active < MaxConn
              /\ kern' = [kern EXCEPT ![f] = c]
              /\ client' = [client EXCEPT ![c].state = "open"]
              /\ conn' = [conn EXCEPT ![f] = [phase |-> "head", out |-> 0, idle |-> FALSE]]
              /\ active' = active + 1
  BY DEF Accept
<1>3. c \in Clients /\ client[c].state = "queued" /\ kern[f] = "free"
  BY <1>2 DEF Queued, Unused
<1>4. CASE /\ client' = [client EXCEPT ![c].state = "gone"]
           /\ UNCHANGED <<kern, conn, active>>
  <2>1. client' \in [Clients -> Peers]
        /\ \A d \in Clients : client'[d].state = IF d = c THEN "gone" ELSE client[d].state
    BY <1>3, <1>4, TypeFacts, StateStep DEF States
  <2> QED
    BY <1>1, <1>3, <1>4, <2>1, TypeFacts, TurnStays, Kept
<1>5. CASE /\ kern' = [kern EXCEPT ![f] = c]
           /\ client' = [client EXCEPT ![c].state = "open"]
           /\ conn' = [conn EXCEPT ![f] = [phase |-> "head", out |-> 0, idle |-> FALSE]]
           /\ active' = active + 1
  <2>0. Owned /\ OnePeer /\ Turn /\ IsFiniteSet(Streaming) /\ CountExact
    BY DEF ReactorInv
  <2>1. client' \in [Clients -> Peers]
        /\ \A d \in Clients : client'[d].state = IF d = c THEN "open" ELSE client[d].state
    BY <1>3, <1>5, TypeFacts, StateStep DEF States
  <2>2. /\ conn' \in [Fds -> Conns]
        /\ \A g \in Fds : g # f => conn'[g] = conn[g]
        /\ conn'[f].phase = "head"
    <3>1. [phase |-> "head", out |-> 0, idle |-> FALSE] \in Conns
      BY DEF Conns
    <3>2. conn \in [Fds -> Conns]
      BY TypeFacts
    <3> QED
      BY <1>5, <3>1, <3>2
  <2>3. kern' \in [Fds -> {"free", "listen"} \cup Clients]
        /\ \A g \in Fds : kern'[g] = IF g = f THEN c ELSE kern[g]
    <3>1. kern \in [Fds -> {"free", "listen"} \cup Clients]
      BY TypeFacts
    <3> QED
      BY <1>3, <1>5, <3>1
  <2>4. ReactorType'
    <3>1. active' \in Int
      BY <1>5, TypeFacts
    <3>2. task' \in Tasks /\ stream' \in [Clients -> Threads] /\ hist' \in Hists
      BY <1>1, TypeFacts
    <3>3. client' \in [Clients -> Peers]
      BY <2>1
    <3>4. conn' \in [Fds -> Conns]
      BY <2>2
    <3>5. kern' \in [Fds -> {"free", "listen"} \cup Clients]
      BY <2>3
    <3> QED
      BY <3>1, <3>2, <3>3, <3>4, <3>5 DEF ReactorType
  <2>5. ~IsListed(f) /\ ~IsStreamed(f)
    BY <1>3, <2>0, FdFacts DEF Owned
  <2>6. \A g \in Fds : IsListed(g)' <=> g = f \/ IsListed(g)
    <3>1. IsListed(f)'
      <4>1. task'.fd = NoFd /\ NoFd # f
        BY <1>1, FdFacts
      <4>2. conn'[f].phase # "none"
        BY <2>2
      <4> QED
        BY <4>1, <4>2 DEF IsListed
    <3>2. \A g \in Fds : g # f => (IsListed(g)' <=> IsListed(g))
      BY <1>1, <2>2 DEF IsListed
    <3> QED
      BY <3>1, <3>2
  <2>7. \A d \in Clients, g \in Fds : Owner(d, g)' <=> Owner(d, g)
    BY <1>1 DEF Owner
  <2>8. \A g \in Fds : IsStreamed(g)' <=> IsStreamed(g)
    BY <2>7 DEF IsStreamed
  <2>9. Owned'
    <3> SUFFICES ASSUME NEW g \in Fds
                 PROVE  /\ kern'[g] = "listen" => g = Listener
                        /\ kern'[g] \in Clients <=> IsListed(g)' \/ IsStreamed(g)'
                        /\ ~(IsListed(g)' /\ IsStreamed(g)')
      BY DEF Owned
    <3>1. CASE g = f
      BY <1>3, <2>3, <2>5, <2>6, <2>8, <3>1, FdFacts
    <3>2. CASE g # f
      BY <2>0, <2>3, <2>6, <2>8, <3>2 DEF Owned
    <3> QED
      BY <3>1, <3>2
  <2>10. \A g \in Fds : kern[g] # c
    BY <1>3, <2>0 DEF OnePeer
  <2>11. OnePeer'
    <3>1. \A g \in Fds : kern'[g] \in Clients => client'[kern'[g]].state \in {"open", "hungup"}
      BY <1>3, <2>0, <2>1, <2>3 DEF OnePeer
    <3>2. \A g, h \in Fds : kern'[g] = kern'[h] /\ kern'[g] \in Clients => g = h
      BY <2>0, <2>3, <2>10 DEF OnePeer
    <3>3. \A d \in Clients, g \in Fds : Owner(d, g)' => kern'[g] = d
      BY <2>0, <2>3, <2>5, <2>7 DEF OnePeer, IsStreamed
    <3>4. \A d \in Clients : stream[d].pc = "closed" => client'[d].state = "gone"
      BY <1>3, <2>0, <2>1 DEF OnePeer
    <3> QED
      BY <1>1, <2>0, <3>1, <3>2, <3>3, <3>4 DEF OnePeer
  <2>12. Turn'
    <3>1. task.batch \subseteq Fds
      BY TypeFacts DEF Tasks
    <3> QED
      BY <1>1, <2>0, <2>2, <3>1, FdFacts DEF Turn
  <2>13. Streaming' = Streaming
    BY <1>1 DEF Streaming
  <2>14. CountExact'
    <3>1. Held' = Held \cup {f} /\ f \notin Held
      BY <2>5, <2>6 DEF Held
    <3>2. Cardinality(Held \cup {f})
          = IF f \in Held THEN Cardinality(Held) ELSE Cardinality(Held) + 1
      BY HeldFacts, FS_AddElement
    <3>3. Cardinality(Streaming) \in Nat /\ Cardinality(Held) \in Nat
      BY <2>0, HeldFacts, FS_CardinalityType
    <3>4. active = Cardinality(Held) + Cardinality(Streaming)
      BY <2>0, HeldFacts DEF CountExact, Streaming
    <3>5. Cardinality(Held') = Cardinality(Held) + 1
      BY <3>1, <3>2
    <3>6. active' = Cardinality(Held') + Cardinality(Streaming')
      BY <1>5, <2>13, <3>3, <3>4, <3>5
    <3> QED
      BY <3>6, HeldFacts DEF CountExact, Streaming
  <2> QED
    BY <2>0, <2>4, <2>9, <2>11, <2>12, <2>13, <2>14 DEF ReactorInv
<1> QED
  BY <1>2, <1>4, <1>5

\* The descriptor is handed to a thread of its own.
LEMMA StartStreamKeeps ==
  ASSUME ReactorInv, NEW f \in Fds, StartStream(f)
  PROVE  ReactorInv'
<1>0. Owned /\ OnePeer /\ Turn /\ IsFiniteSet(Streaming) /\ CountExact
  BY DEF ReactorInv
<1>1. Event(f) /\ conn[f].phase # "none" /\ UNCHANGED <<kern, conn, active, client, hist>>
  BY DEF StartStream, Alive
<1>2. task.fd = NoFd /\ task.pc = "next" /\ IsListed(f) /\ kern[f] \in Clients
  BY <1>1, EventFacts
<1> DEFINE c == kern[f]
<1>3. c \in Clients /\ ~IsStreamed(f) /\ client[c].state \in {"open", "hungup"}
  BY <1>0, <1>2 DEF Owned, OnePeer
<1>4. stream' = [stream EXCEPT ![c] = [pc |-> "on", fd |-> f]]
  BY DEF StartStream
<1>5. kern[f] = c
  OBVIOUS
<1> HIDE DEF c
<1>6. stream[c].pc = "none"
  <2>1. stream[c].pc \in {"none", "on", "leaving", "closed"}
    BY <1>3, TypeFacts DEF Threads
  <2>2. stream[c].pc # "closed"
    BY <1>0, <1>3 DEF OnePeer
  <2>3. ASSUME stream[c].pc \in {"on", "leaving"} PROVE FALSE
    <3>1. stream[c].fd \in Fds /\ Owner(c, stream[c].fd)
      BY <1>0, <1>3, <2>3 DEF OnePeer, Owner
    <3>2. kern[stream[c].fd] = c
      BY <1>0, <1>3, <3>1 DEF OnePeer
    <3>3. stream[c].fd = f
      BY <1>0, <1>3, <1>5, <3>1, <3>2 DEF OnePeer
    <3> QED
      BY <1>3, <3>1, <3>3 DEF IsStreamed
  <2> QED
    BY <2>1, <2>2, <2>3
<1>7. task' \in Tasks /\ task'.pc = "detach" /\ task'.fd = f /\ task'.batch = task.batch \ {f}
  <2>1. task \in Tasks
    BY TypeFacts
  <2>2. task' = [task EXCEPT !.pc = "detach", !.fd = f, !.batch = task.batch \ {f}]
    BY DEF StartStream
  <2> QED
    BY <2>1, <2>2 DEF Tasks
<1>8. /\ stream' \in [Clients -> Threads]
      /\ \A d \in Clients : d # c => stream'[d] = stream[d]
      /\ stream'[c].pc = "on" /\ stream'[c].fd = f
  <2>1. stream \in [Clients -> Threads]
    BY TypeFacts
  <2>2. [pc |-> "on", fd |-> f] \in Threads
    BY DEF Threads
  <2> QED
    BY <1>3, <1>4, <2>1, <2>2
<1>9. ReactorType'
  BY <1>1, <1>7, <1>8, TypeFacts DEF ReactorType
<1>10. \A g \in Fds : IsListed(g)' <=> IsListed(g) /\ g # f
  BY <1>1, <1>2, <1>7, FdFacts DEF IsListed
<1>11. \A d \in Clients, g \in Fds : Owner(d, g)' <=> Owner(d, g) \/ (d = c /\ g = f)
  BY <1>6, <1>8 DEF Owner
<1>12. \A g \in Fds : IsStreamed(g)' <=> IsStreamed(g) \/ g = f
  BY <1>3, <1>11 DEF IsStreamed
<1>13. Owned'
  <2> SUFFICES ASSUME NEW g \in Fds
               PROVE  /\ kern[g] = "listen" => g = Listener
                      /\ kern[g] \in Clients <=> IsListed(g)' \/ IsStreamed(g)'
                      /\ ~(IsListed(g)' /\ IsStreamed(g)')
    BY <1>1 DEF Owned
  <2> QED
    BY <1>0, <1>2, <1>3, <1>10, <1>12 DEF Owned
<1>14. OnePeer'
  <2>1. \A d \in Clients, g \in Fds : Owner(d, g)' => kern[g] = d
    BY <1>0, <1>5, <1>11 DEF OnePeer
  <2>2. \A d \in Clients : stream'[d].pc = "closed" => client[d].state = "gone"
    BY <1>0, <1>8 DEF OnePeer
  <2>3. \A d \in Clients : stream'[d].pc \in {"on", "leaving"} => stream'[d].fd \in Fds
    BY <1>0, <1>8 DEF OnePeer
  <2> QED
    BY <1>0, <1>1, <2>1, <2>2, <2>3 DEF OnePeer
<1>15. Turn'
  BY <1>0, <1>1, <1>7 DEF Turn
<1>16. Streaming' = Streaming \cup {c} /\ c \notin Streaming
  BY <1>3, <1>6, <1>8 DEF Streaming
<1>17. IsFiniteSet(Streaming') /\ Cardinality(Streaming') = Cardinality(Streaming) + 1
  <2>1. /\ IsFiniteSet(Streaming \cup {c})
        /\ Cardinality(Streaming \cup {c})
           = IF c \in Streaming THEN Cardinality(Streaming) ELSE Cardinality(Streaming) + 1
    BY <1>0, FS_AddElement
  <2> QED
    BY <1>16, <2>1
<1>18. CountExact'
  <2>1. Held' = Held \ {f} /\ f \in Held
    BY <1>2, <1>10 DEF Held
  <2>2. Cardinality(Held \ {f})
        = IF f \in Held THEN Cardinality(Held) - 1 ELSE Cardinality(Held)
    BY HeldFacts, FS_RemoveElement
  <2>3. Cardinality(Held') = Cardinality(Held) - 1
    BY <2>1, <2>2
  <2>4. Cardinality(Streaming) \in Nat /\ Cardinality(Held) \in Nat
    BY <1>0, HeldFacts, FS_CardinalityType
  <2>5. active = Cardinality(Held) + Cardinality(Streaming)
    BY <1>0, HeldFacts DEF CountExact, Streaming
  <2>6. active' = Cardinality(Held') + Cardinality(Streaming')
    BY <1>1, <1>17, <2>3, <2>4, <2>5
  <2> QED
    BY <2>6, HeldFacts DEF CountExact, Streaming
<1> QED
  BY <1>9, <1>13, <1>14, <1>15, <1>17, <1>18 DEF ReactorInv

\* The connection is taken off the list; its place goes with the descriptor.
LEMMA DetachKeeps ==
  ASSUME ReactorInv, Detach
  PROVE  ReactorInv'
<1>0. Owned /\ OnePeer /\ Turn /\ IsFiniteSet(Streaming) /\ CountExact
  BY DEF ReactorInv
<1>1. task.fd \in Fds /\ UNCHANGED <<kern, active, stream, client, hist>>
  BY <1>0 DEF Detach, Turn
<1>2. /\ conn' \in [Fds -> Conns]
      /\ \A g \in Fds : conn'[g] = IF g = task.fd THEN NoConn ELSE conn[g]
  <2>1. NoConn \in Conns
    BY DEF NoConn, Conns
  <2>2. conn \in [Fds -> Conns] /\ conn' = [conn EXCEPT ![task.fd] = NoConn]
    BY TypeFacts DEF Detach
  <2> QED
    BY <1>1, <2>1, <2>2
<1>3. task' \in Tasks /\ task'.pc = "next" /\ task'.fd = NoFd /\ task'.batch = task.batch
  BY TypeFacts DEF Detach, Tasks
<1>4. ReactorType'
  BY <1>1, <1>2, <1>3, TypeFacts DEF ReactorType
<1>5. NoConn.phase = "none"
  BY DEF NoConn
<1>6. \A g \in Fds : IsListed(g)' <=> IsListed(g)
  BY <1>2, <1>3, <1>5, FdFacts DEF IsListed
<1>7. \A d \in Clients, g \in Fds : Owner(d, g)' <=> Owner(d, g)
  BY <1>1 DEF Owner
<1>8. Owned'
  BY <1>0, <1>1, <1>6, <1>7 DEF Owned, IsStreamed
<1>9. OnePeer'
  BY <1>0, <1>1, <1>7 DEF OnePeer
<1>10. Turn'
  <2>1. task.batch \subseteq Fds
    BY TypeFacts DEF Tasks
  <2> QED
    BY <1>0, <1>2, <1>3, <2>1, FdFacts DEF Turn
<1>11. Streaming' = Streaming /\ Held' = Held
  BY <1>1, <1>6 DEF Streaming, Held
<1>12. CountExact'
  BY <1>0, <1>1, <1>11, HeldFacts DEF CountExact, Streaming
<1> QED
  BY <1>0, <1>4, <1>8, <1>9, <1>10, <1>11, <1>12 DEF ReactorInv

\* The video thread is about to close its descriptor.
LEMMA StreamLeavesKeeps ==
  ASSUME ReactorInv, NEW c \in Clients, StreamLeaves(c) \/ StreamFails(c)
  PROVE  ReactorInv'
<1>0. Owned /\ OnePeer /\ Turn /\ IsFiniteSet(Streaming) /\ CountExact
  BY DEF ReactorInv
<1>1. /\ stream[c].pc = "on" /\ stream' = [stream EXCEPT ![c].pc = "leaving"]
      /\ UNCHANGED <<kern, conn, active, task, client, hist>>
  BY DEF StreamLeaves, StreamFails
<1>2. /\ stream' \in [Clients -> Threads]
      /\ \A d \in Clients : stream'[d].fd = stream[d].fd
      /\ \A d \in Clients : stream'[d].pc = IF d = c THEN "leaving" ELSE stream[d].pc
  <2>1. stream \in [Clients -> Threads]
    BY TypeFacts
  <2> QED
    BY <1>1, <2>1 DEF Threads
<1>3. ReactorType'
  BY <1>1, <1>2, TypeFacts DEF ReactorType
<1>4. \A d \in Clients, g \in Fds : Owner(d, g)' <=> Owner(d, g)
  BY <1>1, <1>2 DEF Owner
<1>5. \A g \in Fds : IsListed(g)' <=> IsListed(g)
  BY <1>1 DEF IsListed
<1>6. Owned'
  BY <1>0, <1>1, <1>4, <1>5 DEF Owned, IsStreamed
<1>7. OnePeer'
  BY <1>0, <1>1, <1>2, <1>4 DEF OnePeer
<1>8. Turn'
  BY <1>0, <1>1 DEF Turn
<1>9. Streaming' = Streaming /\ Held' = Held
  BY <1>1, <1>2, <1>5 DEF Streaming, Held
<1>10. CountExact'
  BY <1>0, <1>1, <1>9, HeldFacts DEF CountExact, Streaming
<1> QED
  BY <1>0, <1>3, <1>6, <1>7, <1>8, <1>9, <1>10 DEF ReactorInv

\* It closes the descriptor, which is its own.
LEMMA StreamCloseKeeps ==
  ASSUME ReactorInv, NEW c \in Clients, StreamClose(c)
  PROVE  ReactorInv'
<1>0. Owned /\ OnePeer /\ Turn /\ IsFiniteSet(Streaming) /\ CountExact
  BY DEF ReactorInv
<1> DEFINE f == stream[c].fd
<1>1. /\ stream[c].pc = "leaving"
      /\ kern' = [kern EXCEPT ![f] = "free"]
      /\ client' = [client EXCEPT ![c].state = "gone"]
      /\ hist' = [hist EXCEPT !.foreign = hist.foreign \/ kern[f] # c]
      /\ stream' = [stream EXCEPT ![c] = [pc |-> "closed", fd |-> NoFd]]
      /\ UNCHANGED <<conn, active, task>>
  BY DEF StreamClose
<1>2. f \in Fds /\ Owner(c, f) /\ kern[f] = c
  BY <1>0, <1>1 DEF OnePeer, Owner
<1>20. \A g \in Fds : Owner(c, g) => g = f
  BY DEF Owner
<1> HIDE DEF f
<1>3. /\ stream' \in [Clients -> Threads]
      /\ \A d \in Clients : d # c => stream'[d] = stream[d]
      /\ stream'[c].pc = "closed"
  <2>1. stream \in [Clients -> Threads]
    BY TypeFacts
  <2>2. [pc |-> "closed", fd |-> NoFd] \in Threads
    BY DEF Threads
  <2> QED
    BY <1>1, <2>1, <2>2
<1>4. client' \in [Clients -> Peers]
      /\ \A d \in Clients : client'[d].state = IF d = c THEN "gone" ELSE client[d].state
  BY <1>1, TypeFacts, StateStep DEF States
<1>5. hist' \in Hists
  <2>1. hist.foreign = FALSE
    BY TypeFacts DEF Hists
  <2>2. hist' = [hist EXCEPT !.foreign = FALSE]
    BY <1>1, <1>2, <2>1
  <2> QED
    BY <2>2, TypeFacts DEF Hists
<1>6. kern' \in [Fds -> {"free", "listen"} \cup Clients]
      /\ \A g \in Fds : kern'[g] = IF g = f THEN "free" ELSE kern[g]
  BY <1>1, <1>2, TypeFacts
<1>7. ReactorType'
  <2>1. conn' \in [Fds -> Conns] /\ task' \in Tasks /\ active' \in Int
    BY <1>1, TypeFacts
  <2> QED
    BY <1>3, <1>4, <1>5, <1>6, <2>1 DEF ReactorType
<1>8. \A d \in Clients, g \in Fds : Owner(d, g)' <=> Owner(d, g) /\ d # c
  BY <1>3 DEF Owner
<1>9. \A g \in Fds : IsListed(g)' <=> IsListed(g)
  BY <1>1 DEF IsListed
<1>10. \A d \in Clients, g \in Fds : Owner(d, g) => kern[g] = d
  BY <1>0 DEF OnePeer
<1>11. \A g \in Fds : IsStreamed(g)' <=> IsStreamed(g) /\ g # f
  BY <1>2, <1>20, <1>8, <1>10 DEF IsStreamed
<1>12. IsStreamed(f) /\ ~IsListed(f)
  BY <1>0, <1>2 DEF Owned, IsStreamed
<1>13. Owned'
  <2> SUFFICES ASSUME NEW g \in Fds
               PROVE  /\ kern'[g] = "listen" => g = Listener
                      /\ kern'[g] \in Clients <=> IsListed(g)' \/ IsStreamed(g)'
                      /\ ~(IsListed(g)' /\ IsStreamed(g)')
    BY DEF Owned
  <2>1. CASE g = f
    BY <1>6, <1>9, <1>11, <1>12, <2>1, FdFacts
  <2>2. CASE g # f
    BY <1>0, <1>6, <1>9, <1>11, <2>2 DEF Owned
  <2> QED
    BY <2>1, <2>2
<1>14. \A g \in Fds : g # f => kern[g] # c
  BY <1>0, <1>2 DEF OnePeer
<1>15. OnePeer'
  <2>1. \A g \in Fds : kern'[g] \in Clients => client'[kern'[g]].state \in {"open", "hungup"}
    BY <1>0, <1>4, <1>6, <1>14, FdFacts DEF OnePeer
  <2>2. \A g, h \in Fds : kern'[g] = kern'[h] /\ kern'[g] \in Clients => g = h
    <3>1. \A g \in Fds : kern'[g] \in Clients => kern'[g] = kern[g]
      BY <1>6, FdFacts
    <3> QED
      BY <1>0, <3>1 DEF OnePeer
  <2>3. \A d \in Clients, g \in Fds : Owner(d, g)' => kern'[g] = d
    BY <1>2, <1>6, <1>8, <1>10
  <2>4. \A d \in Clients : stream'[d].pc = "closed" => client'[d].state = "gone"
    BY <1>0, <1>3, <1>4 DEF OnePeer
  <2>5. \A d \in Clients : stream'[d].pc \in {"on", "leaving"} => stream'[d].fd \in Fds
    BY <1>0, <1>3 DEF OnePeer
  <2> QED
    BY <2>1, <2>2, <2>3, <2>4, <2>5 DEF OnePeer
<1>16. Turn'
  BY <1>0, <1>1 DEF Turn
<1>17. Streaming' = Streaming /\ Held' = Held
  BY <1>1, <1>3, <1>9 DEF Streaming, Held
<1>18. CountExact'
  BY <1>0, <1>1, <1>17, HeldFacts DEF CountExact, Streaming
<1> QED
  BY <1>0, <1>7, <1>13, <1>15, <1>16, <1>17, <1>18 DEF ReactorInv

\* ... and gives its place back.
LEMMA StreamEndKeeps ==
  ASSUME ReactorInv, NEW c \in Clients, StreamEnd(c)
  PROVE  ReactorInv'
<1>0. Owned /\ OnePeer /\ Turn /\ IsFiniteSet(Streaming) /\ CountExact
  BY DEF ReactorInv
<1>1. /\ stream[c].pc = "closed" /\ stream' = [stream EXCEPT ![c].pc = "none"]
      /\ active' = active - 1
      /\ UNCHANGED <<kern, conn, task, client, hist>>
  BY DEF StreamEnd
<1>2. /\ stream' \in [Clients -> Threads]
      /\ \A d \in Clients : stream'[d].fd = stream[d].fd
      /\ \A d \in Clients : stream'[d].pc = IF d = c THEN "none" ELSE stream[d].pc
  <2>1. stream \in [Clients -> Threads]
    BY TypeFacts
  <2> QED
    BY <1>1, <2>1 DEF Threads
<1>3. ReactorType'
  <2>1. active' \in Int
    BY <1>1, TypeFacts
  <2> QED
    BY <1>1, <1>2, <2>1, TypeFacts DEF ReactorType
<1>4. \A d \in Clients, g \in Fds : Owner(d, g)' <=> Owner(d, g)
  BY <1>1, <1>2 DEF Owner
<1>5. \A g \in Fds : IsListed(g)' <=> IsListed(g)
  BY <1>1 DEF IsListed
<1>6. Owned'
  BY <1>0, <1>1, <1>4, <1>5 DEF Owned, IsStreamed
<1>7. OnePeer'
  BY <1>0, <1>1, <1>2, <1>4 DEF OnePeer
<1>8. Turn'
  BY <1>0, <1>1 DEF Turn
<1>9. Streaming' = Streaming \ {c} /\ c \in Streaming /\ Held' = Held
  BY <1>1, <1>2, <1>5 DEF Streaming, Held
<1>10. IsFiniteSet(Streaming') /\ Cardinality(Streaming') = Cardinality(Streaming) - 1
  <2>1. /\ IsFiniteSet(Streaming \ {c})
        /\ Cardinality(Streaming \ {c})
           = IF c \in Streaming THEN Cardinality(Streaming) - 1 ELSE Cardinality(Streaming)
    BY <1>0, FS_RemoveElement
  <2> QED
    BY <1>9, <2>1
<1>11. CountExact'
  <2>1. Cardinality(Streaming) \in Nat /\ Cardinality(Held) \in Nat
    BY <1>0, HeldFacts, FS_CardinalityType
  <2>2. active = Cardinality(Held) + Cardinality(Streaming)
    BY <1>0, HeldFacts DEF CountExact, Streaming
  <2>3. active' = Cardinality(Held') + Cardinality(Streaming')
    BY <1>1, <1>9, <1>10, <2>1, <2>2
  <2> QED
    BY <2>3, HeldFacts DEF CountExact, Streaming
<1> QED
  BY <1>3, <1>6, <1>7, <1>8, <1>10, <1>11 DEF ReactorInv

\* The listening socket is closed once, by whichever thread comes first.
LEMMA ListenerKeeps ==
  ASSUME ReactorInv, ExitListener \/ ServerStop
  PROVE  ReactorInv'
<1>0. Owned /\ OnePeer /\ Turn /\ IsFiniteSet(Streaming) /\ CountExact
  BY DEF ReactorInv
<1>1. UNCHANGED <<conn, active, stream, hist>>
  BY DEF ExitListener, ServerStop
<1>2. task' \in Tasks /\ task'.fd = task.fd /\ task'.batch = task.batch
      /\ (task'.pc = task.pc \/ (task.pc = "exit" /\ task'.pc = "end"))
  <2>1. task \in Tasks
    BY TypeFacts
  <2>2. CASE ExitListener
    BY <2>1, <2>2 DEF ExitListener, Tasks
  <2>3. CASE ServerStop
    BY <2>1, <2>3 DEF ServerStop
  <2> QED
    BY <2>2, <2>3
<1>3. Turn'
  BY <1>0, <1>1, <1>2 DEF Turn
<1>4. CASE UNCHANGED <<kern, client>>
  BY <1>1, <1>2, <1>3, <1>4, TypeFacts, Kept
<1>5. CASE CloseListener
  <2>1. kern[Listener] = "listen"
        /\ kern' \in [Fds -> {"free", "listen"} \cup Clients]
        /\ \A g \in Fds : kern'[g] = IF g = Listener THEN "free" ELSE kern[g]
    BY <1>5, FdFacts, TypeFacts DEF CloseListener
  <2>2. client' \in [Clients -> Peers]
        /\ \A c \in Clients : client[c].state # "queued" => client'[c] = client[c]
    <3>1. \A c \in Clients : client[c] \in Peers /\ [client[c] EXCEPT !.state = "gone"] \in Peers
      BY TypeFacts DEF Peers
    <3>2. client' = [c \in Clients |->
                  IF c \in Queued THEN [client[c] EXCEPT !.state = "gone"] ELSE client[c]]
      BY <1>5 DEF CloseListener
    <3> QED
      BY <3>1, <3>2 DEF Queued
  <2>3. ReactorType'
    <3>1. conn' \in [Fds -> Conns] /\ stream' \in [Clients -> Threads] /\ active' \in Int
          /\ hist' \in Hists
      BY <1>1, TypeFacts
    <3> QED
      BY <1>2, <2>1, <2>2, <3>1 DEF ReactorType
  <2>4. \A d \in Clients, g \in Fds : Owner(d, g)' <=> Owner(d, g)
    BY <1>1 DEF Owner
  <2>5. \A g \in Fds : IsListed(g)' <=> IsListed(g)
    BY <1>1, <1>2 DEF IsListed
  <2>6. \A g \in Fds : kern'[g] \in Clients <=> kern[g] \in Clients
    BY <2>1, FdFacts
  <2>7. \A g \in Fds : kern'[g] \in Clients => kern'[g] = kern[g]
    BY <2>1, FdFacts
  <2>8. Owned'
    BY <1>0, <2>1, <2>4, <2>5, <2>6 DEF Owned, IsStreamed
  <2>9. OnePeer'
    <3>1. \A g \in Fds : kern'[g] \in Clients => client'[kern'[g]].state \in {"open", "hungup"}
      BY <1>0, <2>2, <2>6, <2>7 DEF OnePeer
    <3>2. \A g, h \in Fds : kern'[g] = kern'[h] /\ kern'[g] \in Clients => g = h
      BY <1>0, <2>7 DEF OnePeer
    <3>3. \A d \in Clients, g \in Fds : Owner(d, g)' => kern'[g] = d
      BY <1>0, <2>1, <2>4, FdFacts DEF OnePeer
    <3>4. \A d \in Clients : stream'[d].pc = "closed" => client'[d].state = "gone"
      BY <1>0, <1>1, <2>2 DEF OnePeer
    <3> QED
      BY <1>0, <1>1, <3>1, <3>2, <3>3, <3>4 DEF OnePeer
  <2>10. Streaming' = Streaming /\ Held' = Held
    BY <1>1, <2>5 DEF Streaming, Held
  <2>11. CountExact'
    BY <1>0, <1>1, <2>10, HeldFacts DEF CountExact, Streaming
  <2> QED
    BY <1>0, <1>3, <2>3, <2>8, <2>9, <2>10, <2>11 DEF ReactorInv
<1> QED
  BY <1>4, <1>5 DEF ExitListener, ServerStop

\* The server when it has begun to listen.
LEMMA InitReactor == Init => ReactorInv
<1> SUFFICES ASSUME Init PROVE ReactorInv
  OBVIOUS
<1>0. \A f \in Fds : kern[f] = IF f = Listener THEN "listen" ELSE "free"
  BY DEF Init
<1>1. ReactorType
  <2>1. NoConn \in Conns /\ [pc |-> "wait", batch |-> {}, fd |-> NoFd] \in Tasks
        /\ [pc |-> "none", fd |-> NoFd] \in Threads
        /\ [state |-> "new", sent |-> "nothing"] \in Peers
        /\ [foreign |-> FALSE, answered |-> {}] \in Hists
    BY DEF NoConn, Conns, Tasks, Threads, Peers, Hists
  <2> QED
    BY <2>1 DEF Init, ReactorType
<1>2. \A f \in Fds : ~IsListed(f) /\ ~IsStreamed(f)
  BY DEF Init, IsListed, IsStreamed, Owner, NoConn
<1>3. Owned
  BY <1>0, <1>2, FdFacts DEF Owned
<1>4. OnePeer
  BY <1>0, FdFacts DEF OnePeer, Init, Owner
<1>5. Turn
  BY DEF Turn, Init
<1>6. Streaming = {} /\ Held = {}
  BY <1>2 DEF Streaming, Held, Init
<1>7. IsFiniteSet(Streaming)
  BY <1>6, FS_EmptySet
<1>8. CountExact
  <2>1. active = 0 /\ Cardinality(Held) = 0 /\ Cardinality(Streaming) = 0
    BY <1>6, FS_EmptySet DEF Init
  <2>2. active = Cardinality(Held) + Cardinality(Streaming)
    BY <2>1
  <2> QED
    BY <2>2, HeldFacts DEF CountExact, Streaming
<1> QED
  BY <1>1, <1>3, <1>4, <1>5, <1>7, <1>8 DEF ReactorInv

-----------------------------------------------------------------------------
\* In every reachable state of the HTTP server its invariant holds.
THEOREM ReactorCorrect == Spec => []ReactorInv
<1>1. ReactorInv /\ [Next]_vars => ReactorInv'
  <2> SUFFICES ASSUME ReactorInv, [Next]_vars PROVE ReactorInv'
    OBVIOUS
  <2>1. CASE UNCHANGED vars
    BY <2>1, StopKeeps DEF vars
  <2>2. CASE \E c \in Clients :
               Connect(c) \/ HangUp(c) \/ \E what \in {"part", "all"} : Send(c, what)
    BY <2>2, ConnectKeeps, HangUpKeeps, SendKeeps
  <2>3. CASE Task
    <3>1. ASSUME NEW f \in Fds, Handle(f) PROVE ReactorInv'
      BY <3>1, StaleKeeps, HungUpKeeps, ReadPartKeeps, RespondKeeps, ConnFailsKeeps,
         DrainKeeps, StartStreamKeeps DEF Handle
    <3> QED
      BY <2>3, <3>1, LoopKeeps, AcceptKeeps, DetachKeeps, SweepKeeps, ListenerKeeps DEF Task
  <2>4. CASE Streams
    BY <2>4, StreamLeavesKeeps, StreamCloseKeeps, StreamEndKeeps DEF Streams
  <2>5. CASE Tick
    BY <2>5, TickKeeps
  <2>6. CASE Stop
    BY <2>6, StopKeeps DEF Stop
  <2>7. CASE ServerStop
    BY <2>7, ListenerKeeps
  <2>8. CASE \E c \in Clients : StreamFails(c)
    BY <2>8, StreamLeavesKeeps
  <2> QED
    BY <2>1, <2>2, <2>3, <2>4, <2>5, <2>6, <2>7, <2>8 DEF Next
<1> QED
  BY <1>1, InitReactor, PTL DEF Spec

\* A connection or a descriptor of a video thread is counted once, from accept to
\* the close, whichever thread lets go of it first (g_http_active), for any number
\* of clients and any HTTP_MAX_CONN.
THEOREM CountExactCorrect == Spec => []CountExact
<1>1. ReactorInv => CountExact
  BY DEF ReactorInv
<1> QED
  BY <1>1, ReactorCorrect, PTL

\* Each descriptor is closed once, by the thread that has it, and an event is handled
\* on the connection it was reported for (conn_close, conn_detach,
\* http_video_client_closed), for any number of clients and descriptors.
THEOREM DescriptorsOwnCorrect == Spec => []DescriptorsOwn
<1>1. ReactorInv => DescriptorsOwn
  <2> SUFFICES ASSUME ReactorInv PROVE DescriptorsOwn
    OBVIOUS
  <2>1. ~hist.foreign
    <3>1. hist.foreign = FALSE
      BY TypeFacts DEF Hists
    <3> QED
      BY <3>1
  <2>2. \A f \in Fds :
          LET listed == conn[f].phase # "none" /\ task.fd # f
              streamed == \E c \in Clients :
                            stream[c].pc \in {"on", "leaving"} /\ stream[c].fd = f
          IN /\ kern[f] \in Clients <=> listed \/ streamed
             /\ ~(listed /\ streamed)
    BY DEF ReactorInv, Owned, IsListed, IsStreamed, Owner
  <2>3. \A f \in task.batch : f = Listener \/ conn[f].phase # "none"
    BY DEF ReactorInv, Turn
  <2> QED
    BY <2>1, <2>2, <2>3 DEF DescriptorsOwn
<1> QED
  BY <1>1, ReactorCorrect, PTL
===============================================================================
