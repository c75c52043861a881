---------------------------- MODULE MCTcpServer ----------------------------
(***************************************************************************)
(* The TCP server, and the values of the configuration, its port among     *)
(* them.  What becomes of a value does not depend on the connections, nor  *)
(* they on its size, so that each is explored with the other at rest.      *)
(***************************************************************************)
EXTENDS TcpServer, ConfigValues

\* Every hundredth, and numbers on either side of the ranges.
MCAsked == (-1 .. 101) \cup {6666, 65535, 65536, 70000}

MCInit == Init /\ ValuesInit

Serving(A) == posts = 0 /\ conf = Default /\ file = Default /\ A /\ UNCHANGED valuesVars

\* The listener is heard, and nothing has happened.
ServerAtRest ==
  /\ ~deaf /\ http.pc = "idle" /\ moves = 0
  /\ tcp.max = MaxClients /\ \A c \in Conns : peer[c] = "new"

Values == ServerAtRest /\ ValuesNext /\ UNCHANGED vars

MCSpec ==
  /\ MCInit
  /\ [][Serving(Next) \/ Values]_<<vars, valuesVars>>
  /\ WF_vars(Serving(Task /\ UNCHANGED deaf))
  /\ WF_vars(Serving((Http /\ UNCHANGED deaf) \/ Listen))
=============================================================================
