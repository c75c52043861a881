----------------------------- MODULE HttpReactor -----------------------------
(***************************************************************************)
(* The HTTP server (source/http/http.c).  One thread accepts connections,  *)
(* reads requests, handles them and writes the responses, on events of an  *)
(* epoll taken in batches; a request for live video hands the descriptor   *)
(* to a thread of its own, which closes it through a callback.  The main   *)
(* thread closes the listening socket when the process shuts down.         *)
(*                                                                         *)
(* A handler is one step, except where another thread comes in between:    *)
(* the video thread may end before the reactor has let go of the connection*)
(* (http.c:611-616).  Abstracted: a request is what has come of it, its    *)
(* response a number of pieces; authentication and the handlers of the API *)
(* are in the choice of the response.  HTTP_CONN_IDLE is a clock tick.     *)
(***************************************************************************)
EXTENDS Naturals, FiniteSets

CONSTANTS
  Clients,   \* connections that clients may make
  Stalled,   \* the clients that send, but do not read what they get
  MaxConn,   \* HTTP_MAX_CONN
  NFds,      \* bound: descriptors
  Pieces     \* bound: the pieces a response takes to be written

ASSUME HttpAssumption ==
  /\ Stalled \subseteq Clients /\ {"free", "listen"} \cap Clients = {}
  /\ MaxConn \in Nat \ {0} /\ NFds \in Nat \ {0} /\ Pieces \in Nat \ {0}

Fds == 1 .. NFds
Listener == 1    \* g_listen_fd
NoFd == 0
NoConn == [phase |-> "none", out |-> 0, idle |-> FALSE]

VARIABLES
  kern,     \* what each descriptor is: "free", "listen", or a client's connection
  conn,     \* the http_conn_t of each descriptor; out: what wbuf and src still hold
  active,   \* g_http_active
  task,     \* http_server_task
  stream,   \* the video thread of each client, and the descriptor it was given
  client,   \* each client: its connection, what it has sent
  running,  \* app->running
  hist      \* closes of a descriptor by one that does not own it; answers

vars == <<kern, conn, active, task, stream, client, running, hist>>

Init ==
  /\ kern = [f \in Fds |-> IF f = Listener THEN "listen" ELSE "free"]
  /\ conn = [f \in Fds |-> NoConn]
  /\ active = 0
  /\ task = [pc |-> "wait", batch |-> {}, fd |-> NoFd]
  /\ stream = [c \in Clients |-> [pc |-> "none", fd |-> NoFd]]
  /\ client = [c \in Clients |-> [state |-> "new", sent |-> "nothing"]]
  /\ running = TRUE
  /\ hist = [foreign |-> FALSE, answered |-> {}]

-----------------------------------------------------------------------------
(* Clients *)

Connect(c) ==
  /\ client[c].state = "new" /\ kern[Listener] = "listen"
  /\ client' = [client EXCEPT ![c].state = "queued"]
  /\ UNCHANGED <<kern, conn, active, task, stream, running, hist>>

\* Part of a request, or all that was missing.
Send(c, what) ==
  /\ client[c].state = "open"
  /\ \/ client[c].sent = "nothing" /\ what \in {"part", "all"}
     \/ client[c].sent \in {"part", "read"} /\ what = "all"
  /\ client' = [client EXCEPT ![c].sent = what]
  /\ UNCHANGED <<kern, conn, active, task, stream, running, hist>>

HangUp(c) ==
  /\ client[c].state = "open"
  /\ client' = [client EXCEPT ![c].state = "hungup"]
  /\ UNCHANGED <<kern, conn, active, task, stream, running, hist>>

-----------------------------------------------------------------------------
(* Descriptors and connections *)

Queued == {c \in Clients : client[c].state = "queued"}
Unused(f) == kern[f] = "free" /\ \A g \in Fds : g < f => kern[g] # "free"
Listed == {f \in Fds : conn[f].phase # "none"}

\* The client at the other end of a descriptor.
Peer(f) == client[kern[f]]

\* What epoll_wait reports: a peer that has gone, input, and room for what is
\* still to be written (conn_update_events).
Unread(f) == conn[f].phase = "head" /\ Peer(f).sent \in {"part", "all"}

Writable(f) == conn[f].out > 0 /\ kern[f] \notin Stalled

\* Mutant: EPOLLOUT is not asked for.
Unwritable(f) == FALSE

Reported(f) == Writable(f)

Ready(f) ==
  \/ kern[f] = "listen" /\ Queued # {}
  \/ /\ conn[f].phase # "none" /\ kern[f] \in Clients
     /\ Peer(f).state = "hungup" \/ Unread(f) \/ Reported(f)

\* close() of descriptors by a thread for which they are connections.
ClosedAll(F) ==
  /\ kern' = [f \in Fds |-> IF f \in F THEN "free" ELSE kern[f]]
  /\ client' = [c \in Clients |-> IF \E f \in F : kern[f] = c
                                  THEN [client[c] EXCEPT !.state = "gone"] ELSE client[c]]
  /\ hist' = [hist EXCEPT !.foreign = @ \/ \E f \in F : kern[f] \notin Clients]

\* conn_close of the connections in F.
CloseConns(F) ==
  /\ ClosedAll(F)
  /\ conn' = [f \in Fds |-> IF f \in F THEN NoConn ELSE conn[f]]
  /\ active' = active - Cardinality(F)

\* The connection is taken off the list; its response is complete.
Answer(f) ==
  /\ kern' = [kern EXCEPT ![f] = "free"]
  /\ client' = [client EXCEPT ![kern[f]].state = "gone"]
  /\ hist' = [hist EXCEPT !.answered = @ \cup {kern[f]}]
  /\ conn' = [conn EXCEPT ![f] = NoConn]
  /\ active' = active - 1

-----------------------------------------------------------------------------
(* http_server_task *)

Wait ==
  /\ task.pc = "wait" /\ running
  /\ task' = [task EXCEPT !.pc = "next", !.batch = {f \in Fds : Ready(f)}]
  /\ UNCHANGED <<kern, conn, active, stream, client, running, hist>>

AcceptBegin ==
  /\ task.pc = "next"
  /\ \E f \in task.batch : kern[f] = "listen"
                           /\ task' = [task EXCEPT !.pc = "accept", !.batch = @ \ {f}]
  /\ UNCHANGED <<kern, conn, active, stream, client, running, hist>>

\* The counter is raised first; at the limit, and when the connection cannot be
\* allocated, it is lowered and the client closed.
Accept ==
  /\ task.pc = "accept" /\ kern[Listener] = "listen"
  /\ \E c \in Queued, f \in Fds :
       /\ Unused(f)
       /\ \/ /\ client' = [client EXCEPT ![c].state = "gone"]
             /\ UNCHANGED <<kern, conn, active>>
          \/ /\ active < MaxConn
             /\ kern' = [kern EXCEPT ![f] = c]
             /\ client' = [client EXCEPT ![c].state = "open"]
             /\ conn' = [conn EXCEPT ![f] = [phase |-> "head", out |-> 0, idle |-> FALSE]]
             /\ active' = active + 1
  /\ UNCHANGED <<task, stream, running, hist>>

AcceptDone ==
  /\ task.pc = "accept"
  /\ kern[Listener] # "listen" \/ Queued = {} \/ \A f \in Fds : kern[f] # "free"
  /\ task' = [task EXCEPT !.pc = "next"]
  /\ UNCHANGED <<kern, conn, active, stream, client, running, hist>>

\* One event of the batch; its connection is the one that has the number now.
Event(f) == task.pc = "next" /\ f \in task.batch /\ kern[f] # "listen"
Handled(f) == task' = [task EXCEPT !.batch = @ \ {f}]

Stale(f) ==
  /\ Event(f) /\ conn[f].phase = "none"
  /\ Handled(f)
  /\ UNCHANGED <<kern, conn, active, stream, client, running, hist>>

\* EPOLLHUP, EPOLLRDHUP: a request that came with the end of the stream is dropped.
HungUp(f) ==
  /\ Event(f) /\ conn[f].phase # "none" /\ Peer(f).state = "hungup"
  /\ CloseConns({f}) /\ Handled(f)
  /\ UNCHANGED <<stream, running>>

Alive(f) == Event(f) /\ conn[f].phase # "none" /\ Peer(f).state # "hungup"

ReadPart(f) ==
  /\ Alive(f) /\ conn[f].phase = "head" /\ Peer(f).sent = "part"
  /\ conn' = [conn EXCEPT ![f].idle = FALSE]
  /\ client' = [client EXCEPT ![kern[f]].sent = "read"]
  /\ Handled(f)
  /\ UNCHANGED <<kern, active, stream, running, hist>>

\* The request is complete: http_process_request puts a response of n pieces into
\* wbuf and src, and conn_drain writes as much as the socket takes.
Respond(f) ==
  /\ Alive(f) /\ conn[f].phase = "head" /\ Peer(f).sent = "all"
  /\ \E n \in 0 .. Pieces :
       IF n = 0 THEN Answer(f)
       ELSE /\ conn' = [conn EXCEPT ![f] = [phase |-> "reply", out |-> n, idle |-> FALSE]]
            /\ UNCHANGED <<kern, active, client, hist>>
  /\ Handled(f)
  /\ UNCHANGED <<stream, running>>

\* A failed read or write, a failed allocation, a response over HTTP_WBUF_MAX.
ConnFails(f) ==
  /\ Alive(f)
  /\ Handled(f)
  /\ kern' = [kern EXCEPT ![f] = "free"]
  /\ client' = [client EXCEPT ![kern[f]].state = "failed"]
  /\ conn' = [conn EXCEPT ![f] = NoConn]
  /\ active' = active - 1
  /\ UNCHANGED <<stream, running, hist>>

\* EPOLLOUT: conn_drain.
Drain(f) ==
  /\ Alive(f) /\ conn[f].phase = "reply" /\ Writable(f)
  /\ \E n \in 0 .. conn[f].out - 1 :
       IF n = 0 THEN Answer(f)
       ELSE /\ conn' = [conn EXCEPT ![f].out = n, ![f].idle = FALSE]
            /\ UNCHANGED <<kern, active, client, hist>>
  /\ Handled(f)
  /\ UNCHANGED <<stream, running>>

\* A request for live video: the thread has the descriptor before it is detached.
StartStream(f) ==
  /\ Alive(f) /\ conn[f].phase = "head" /\ Peer(f).sent = "all"
  /\ stream' = [stream EXCEPT ![kern[f]] = [pc |-> "on", fd |-> f]]
  /\ task' = [task EXCEPT !.pc = "detach", !.fd = f, !.batch = @ \ {f}]
  /\ UNCHANGED <<kern, conn, active, client, running, hist>>

\* Mutant: the connection is closed after its descriptor was handed over.
DetachClosed ==
  /\ task.pc = "detach"
  /\ ClosedAll({task.fd})
  /\ conn' = [conn EXCEPT ![task.fd] = NoConn]
  /\ task' = [task EXCEPT !.pc = "next", !.fd = NoFd]
  /\ UNCHANGED <<active, stream, running>>

Detach ==
  /\ task.pc = "detach"
  /\ conn' = [conn EXCEPT ![task.fd] = NoConn]
  /\ task' = [task EXCEPT !.pc = "next", !.fd = NoFd]
  /\ UNCHANGED <<kern, active, stream, client, running, hist>>

\* Mutant: no connection is ever found idle.
NeverSwept ==
  /\ task.pc = "next" /\ task.batch = {}
  /\ task' = [task EXCEPT !.pc = "wait"]
  /\ UNCHANGED <<kern, conn, active, client, hist, stream, running>>

\* conn_sweep, conn_reap
Sweep ==
  /\ task.pc = "next" /\ task.batch = {}
  /\ CloseConns({f \in Listed : conn[f].idle})
  /\ task' = [task EXCEPT !.pc = "wait"]
  /\ UNCHANGED <<stream, running>>

\* 30 seconds pass; in that time the reactor handles what is ready.
Tick ==
  /\ \A f \in Fds : ~Ready(f)
  /\ task.pc = "wait" /\ \E f \in Listed : ~conn[f].idle
  /\ conn' = [f \in Fds |-> IF f \in Listed THEN [conn[f] EXCEPT !.idle = TRUE] ELSE conn[f]]
  /\ UNCHANGED <<kern, active, task, stream, client, running, hist>>

\* The loop ends: the connections are closed, then the listening socket, unless
\* http_server_stop has closed it.
Exit ==
  /\ task.pc = "wait" /\ ~running
  /\ CloseConns(Listed)
  /\ task' = [task EXCEPT !.pc = "exit"]
  /\ UNCHANGED <<stream, running>>

CloseListener ==
  /\ kern[Listener] = "listen"
  /\ kern' = [kern EXCEPT ![Listener] = "free"]
  /\ client' = [c \in Clients |->
                  IF c \in Queued THEN [client[c] EXCEPT !.state = "gone"] ELSE client[c]]

ExitListener ==
  /\ task.pc = "exit"
  /\ IF kern[Listener] = "listen" THEN CloseListener ELSE UNCHANGED <<kern, client>>
  /\ task' = [task EXCEPT !.pc = "end"]
  /\ UNCHANGED <<conn, active, stream, running, hist>>

-----------------------------------------------------------------------------
(* The other threads *)

\* video_stream_client_task, h264_stream_client_task: the client has gone or does
\* not read for 30 s, or the program ends.
StreamLeaves(c) ==
  /\ stream[c].pc = "on"
  /\ client[c].state = "hungup" \/ c \in Stalled \/ ~running
  /\ stream' = [stream EXCEPT ![c].pc = "leaving"]
  /\ UNCHANGED <<kern, conn, active, task, client, running, hist>>

\* ... or there is no AI to draw on the picture, or a write fails.
StreamFails(c) ==
  /\ stream[c].pc = "on"
  /\ stream' = [stream EXCEPT ![c].pc = "leaving"]
  /\ UNCHANGED <<kern, conn, active, task, client, running, hist>>

\* http_video_client_closed, which closes the descriptor and then gives the place
\* back.
StreamClose(c) ==
  /\ stream[c].pc = "leaving"
  /\ kern' = [kern EXCEPT ![stream[c].fd] = "free"]
  /\ client' = [client EXCEPT ![c].state = "gone"]
  /\ hist' = [hist EXCEPT !.foreign = @ \/ kern[stream[c].fd] # c]
  /\ stream' = [stream EXCEPT ![c] = [pc |-> "closed", fd |-> NoFd]]
  /\ UNCHANGED <<conn, active, task, running>>

\* Mutant: the video thread does not give the place back.
StreamKeepsPlace(c) ==
  /\ stream[c].pc = "closed"
  /\ stream' = [stream EXCEPT ![c].pc = "none"]
  /\ UNCHANGED <<kern, conn, active, task, client, running, hist>>

StreamEnd(c) ==
  /\ stream[c].pc = "closed"
  /\ active' = active - 1
  /\ stream' = [stream EXCEPT ![c].pc = "none"]
  /\ UNCHANGED <<kern, conn, task, client, running, hist>>

Stop ==
  /\ running
  /\ running' = FALSE
  /\ UNCHANGED <<kern, conn, active, task, stream, client, hist>>

ServerStop ==
  /\ ~running /\ CloseListener
  /\ UNCHANGED <<conn, active, task, stream, running, hist>>

-----------------------------------------------------------------------------
Handle(f) ==
  \/ Stale(f) \/ HungUp(f) \/ ReadPart(f) \/ Respond(f) \/ ConnFails(f)
  \/ Drain(f) \/ StartStream(f)

Task ==
  \/ Wait \/ AcceptBegin \/ Accept \/ AcceptDone \/ Detach \/ Sweep
  \/ Exit \/ ExitListener
  \/ \E f \in Fds : Handle(f)

Streams == \E c \in Clients : StreamLeaves(c) \/ StreamClose(c) \/ StreamEnd(c)

Next ==
  \/ \E c \in Clients : Connect(c) \/ HangUp(c) \/ \E what \in {"part", "all"} : Send(c, what)
  \/ Task \/ Streams \/ Tick \/ Stop \/ ServerStop
  \/ \E c \in Clients : StreamFails(c)

Spec == Init /\ [][Next]_vars

\* The reactor and the video threads run, and time passes.
FairSpec ==
  /\ Spec
  /\ WF_vars(Task) /\ SF_vars(Tick) /\ WF_vars(Streams)

-----------------------------------------------------------------------------
(* Properties *)

\* A connection or a descriptor of a video thread is counted once, from accept to
\* the close, whichever of the two threads lets go of it first: no place under
\* HTTP_MAX_CONN is lost or given twice (g_http_active).
CountExact ==
  active = Cardinality(Listed \ {task.fd})
           + Cardinality({c \in Clients : stream[c].pc # "none"})

\* Each descriptor is closed once, by the thread that has it: a close never hits a
\* number that another connection has got in the meantime, and an event of a batch
\* is handled on the connection it was reported for (conn_close, conn_detach,
\* http_video_client_closed, http_server_stop).
DescriptorsOwn ==
  /\ ~hist.foreign
  /\ \A f \in Fds :
       LET listed == conn[f].phase # "none" /\ task.fd # f
           streamed == \E c \in Clients : stream[c].pc \in {"on", "leaving"} /\ stream[c].fd = f
       IN /\ kern[f] \in Clients <=> listed \/ streamed
          /\ ~(listed /\ streamed)
  /\ \A f \in task.batch : f = Listener \/ conn[f].phase # "none"

\* No client holds a connection for ever: silent, or unwilling to read, it is
\* closed after the idle time, and its place is free; nor does one that has live
\* video hold it when it has gone or does not read (conn_sweep,
\* video_stream_client_task).
Reclaimed ==
  /\ \A f \in Fds : conn[f].phase # "none" ~> conn[f].phase = "none"
  /\ \A c \in Clients :
       stream[c].pc = "on" /\ (client[c].state = "hungup" \/ c \in Stalled)
         ~> stream[c].pc = "none"

\* A complete request of a client that stays and reads gets its whole response, or
\* its live video, unless the connection fails or had idled out before: the reactor
\* does not lose sight of it (conn_read, conn_drain, conn_update_events).
Settled ==
  \A c \in Clients :
    /\ client[c].state = "open" /\ client[c].sent = "all" /\ c \notin Stalled
    /\ \E f \in Fds : kern[f] = c /\ ~conn[f].idle
    ~>
      \/ client[c].state \in {"hungup", "failed"} \/ ~running
      \/ c \in hist.answered
      \/ stream[c].pc # "none"
=============================================================================
