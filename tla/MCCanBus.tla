------------------------------ MODULE MCCanBus ------------------------------
(***************************************************************************)
(* The buses and the database that decodes their frames.  The queues do not*)
(* look into a frame, and the database looks at nothing else, so that each *)
(* is explored with the other at rest.                                     *)
(***************************************************************************)
EXTENDS CanBus, Dbc

MCFds == 1 .. 2

\* Signals within a byte, over one border and over two, of a whole word, of nothing and
\* of more than a word, in a frame of three bytes of two bits and beyond it.
MCSignals ==
  [start : {0, 1, 5}, length : {1, 3, 4}, order : {"intel"}, signed : BOOLEAN]
    \cup [start : {0}, length : {0, 5}, order : {"intel"}, signed : {FALSE}]
    \cup [start : {0, 3}, length : {1, 3}, order : {"motorola"}, signed : {FALSE}]

MCInit == Init /\ DbcInit

Bus(A) == text = <<>> /\ A /\ UNCHANGED dbcVars

\* No interface is up, and nothing has happened.
BusAtRest ==
  /\ epoll.recv = {} /\ http.pc = "idle" /\ send.pc = "wait"
  /\ hist.of = <<>> /\ hist.configs = 0 /\ hist.errors = 0

Database == BusAtRest /\ DbcNext /\ UNCHANGED vars

MCSpec ==
  /\ MCInit
  /\ [][Bus(Next) \/ Database]_<<vars, dbcVars>>
  /\ WF_vars(Bus(Http)) /\ WF_vars(Bus(SendWake)) /\ SF_vars(Bus(SendLock))
  /\ WF_vars(Bus(SendScan \/ SendPop \/ SendRead \/ SendStore))
  /\ WF_vars(Bus(SendScanned \/ SendUpdate \/ SendUnlock))
  /\ SF_vars(Bus(SendOk))
=============================================================================
