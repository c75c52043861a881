------------------------------ MODULE CanQueue ------------------------------
(***************************************************************************)
(* The frame queue of a CAN interface (source/can/can_queue.c): an array   *)
(* with a head and a tail, two semaphores that count the used and the free *)
(* cells, and a mutex that producers try and never wait for.  The consumer *)
(* takes no lock.                                                          *)
(*                                                                         *)
(* A push is Claimed (trylock, sem_trywait(free)) and then Stored (the     *)
(* cell, head, sem_post(used), unlock); a pop is Reserved                  *)
(* (sem_trywait(used)) and then Released (the cell, tail, sem_post(free)). *)
(***************************************************************************)
EXTENDS Naturals

CONSTANT Cap    \* CAN_QUEUE_MAX_SLOTS

ASSUME CapAssumption == Cap \in Nat \ {0}

Index == 0 .. Cap - 1

NoFrame == 0

EmptyQueue ==
  [cell |-> [k \in Index |-> NoFrame], head |-> 0, tail |-> 0,
   used |-> 0, free |-> Cap, pusher |-> "none"]

Advanced(k) == (k + 1) % Cap

\* A push is refused when the queue is full or another thread is pushing.
Refuses(q) == q.pusher # "none" \/ q.free = 0

Claimed(q, who) == [q EXCEPT !.pusher = who, !.free = @ - 1]

\* Mutant: the head stays.
StoredInPlace(q, f) ==
  [q EXCEPT !.cell[q.head] = f, !.used = @ + 1, !.pusher = "none"]

Stored(q, f) ==
  [q EXCEPT !.cell[q.head] = f, !.head = Advanced(@), !.used = @ + 1, !.pusher = "none"]

Reserved(q) == [q EXCEPT !.used = @ - 1]

Front(q) == q.cell[q.tail]

Released(q) == [q EXCEPT !.tail = Advanced(@), !.free = @ + 1]

\* The frames in the array, oldest first, the one being popped included.
Contents(q) ==
  [k \in 1 .. Cap - q.free - (IF q.pusher = "none" THEN 0 ELSE 1) |->
     q.cell[(q.tail + k - 1) % Cap]]
=============================================================================
