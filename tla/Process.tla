------------------------------- MODULE Process -------------------------------
(***************************************************************************)
(* The life of the process: main starts the modules, waits, and takes them *)
(* down (source/core/main.c); the watchdog thread looks for threads that do*)
(* not feed it (source/watchdog/watchdog.c); systemd restarts the service  *)
(* when it fails (rk3588-edge-gateway.service, external).  The HTTP thread *)
(* saves the configuration (ConfigStore), main loads it.                   *)
(*                                                                         *)
(* Time is abstracted.  A Period is the time after which a thread that did *)
(* not feed counts as late; a thread that runs feeds many times within it, *)
(* one that is slow (in a long call, or blocked for good) not at all, and  *)
(* one that has ended is gone.  The five seconds that main waits are over  *)
(* when only slow threads are left, and WatchdogSec when the watchdog      *)
(* thread is not at work.                                                  *)
(***************************************************************************)
EXTENDS ConfigStore, FiniteSets

CONSTANTS
  NMods,      \* the modules with a thread, in the order of g_modules
  Dog,        \* the one of the watchdog
  MaxMiss,    \* max_miss of the threads; main's is 1
  MaxSlow,    \* bound: how often threads get slow
  MaxErrors,  \* bound: threads that end by an error, modules that do not start,
              \*        and losses of the way to systemd
  MaxStarts   \* bound: processes

ASSUME ProcessAssumption ==
  /\ NMods \in Nat /\ Dog \in 1 .. NMods
  /\ MaxMiss \in Nat \ {0} /\ MaxStarts \in Nat \ {0}
  /\ MaxSlow \in Nat /\ MaxErrors \in Nat

Mods == 1 .. NMods
Main == 0
Ids == {Main} \cup Mods
Http == 1          \* the thread that saves the configuration
Rec == NMods       \* the recorder's, which gives up on a silent AI
Free == -1         \* a slot that is not in use

VARIABLES
  main,    \* where main is, the module it is at, whether it failed to start
  thr,     \* each thread: "none", "run", "slow", "stalled", "ended", "left", "gone"
  count,   \* threads_running
  slots,   \* g_wd_slots: how often each registered thread was late
  app,     \* app->running, app->fatal
  unit,    \* systemd: "active", "stopping", "failed" (to be restarted), "stopped"
  hist     \* what has happened, for the properties and the bounds

life == <<main, thr, count, slots, app, unit, hist>>
vars == <<life, store>>

NewMain == [pc |-> "init", at |-> 1, failed |-> FALSE]
NewThr == [t \in Mods |-> "none"]
NewSlots == [t \in Ids |-> Free]
NewApp == [running |-> TRUE, fatal |-> FALSE]
NewHist(n) ==
  [starts |-> n, slow |-> 0, errors |-> 0, alarm |-> "none", late |-> {}, over |-> {}]

Init ==
  /\ main = NewMain /\ thr = NewThr /\ count = 0 /\ slots = NewSlots
  /\ app = NewApp /\ unit = "active" /\ hist = NewHist(1)
  /\ StoreInit

-----------------------------------------------------------------------------
(* main *)

Erring == /\ hist.errors < MaxErrors
          /\ hist' = [hist EXCEPT !.errors = @ + 1]

\* Mutant: the thread is not counted.
StartUncounted ==
  /\ main.pc = "init"
  /\ thr' = [thr EXCEPT ![main.at] = "run"]
  /\ main' = [main EXCEPT !.pc = "register"]
  /\ UNCHANGED <<count, slots, app, unit, hist>>

\* The module is initialised; its thread is counted, then created.
Start ==
  /\ main.pc = "init"
  /\ count' = count + 1
  /\ thr' = [thr EXCEPT ![main.at] = "run"]
  /\ main' = [main EXCEPT !.pc = "register"]
  /\ UNCHANGED <<slots, app, unit, hist>>

\* init or pthread_create fails: what was started is taken down.
StartFails ==
  /\ main.pc = "init" /\ Erring
  /\ main' = [main EXCEPT !.pc = "wait", !.failed = TRUE]
  /\ app' = [app EXCEPT !.running = FALSE]
  /\ UNCHANGED <<thr, count, slots, unit>>

Onward == main' = IF main.at < NMods THEN [main EXCEPT !.pc = "init", !.at = @ + 1]
                  ELSE [main EXCEPT !.pc = "self"]

\* watchdog_register_thread, by main, when the thread runs already.
Register ==
  /\ main.pc = "register"
  /\ slots' = IF main.at = Dog THEN slots ELSE [slots EXCEPT ![main.at] = 0]
  /\ hist' = [hist EXCEPT !.late = IF thr[main.at] \in {"left", "gone"} /\ main.at # Dog
                                   THEN @ \cup {main.at} ELSE @]
  /\ Onward
  /\ UNCHANGED <<thr, count, app, unit>>

RegisterSelf ==
  /\ main.pc = "self"
  /\ slots' = [slots EXCEPT ![Main] = 0]
  /\ main' = [main EXCEPT !.pc = "loop"]
  /\ UNCHANGED <<thr, count, app, unit, hist>>

LoopEnds ==
  /\ main.pc = "loop" /\ ~app.running
  /\ slots' = [slots EXCEPT ![Main] = Free]
  /\ main' = [main EXCEPT !.pc = "wait"]
  /\ UNCHANGED <<thr, count, app, unit, hist>>

\* wait_threads_exit: all are gone, or five seconds are over.
Waited ==
  /\ main.pc = "wait"
  /\ count <= 0 \/ \A t \in Mods : thr[t] \in {"none", "slow", "gone"}
  /\ hist' = [hist EXCEPT !.over = IF count <= 0 THEN {} ELSE {t \in Mods : thr[t] = "slow"}]
  /\ main' = [main EXCEPT !.pc = "dtor", !.at = NMods]
  /\ UNCHANGED <<thr, count, slots, app, unit>>

Destroy ==
  /\ main.pc = "dtor"
  /\ main' = IF main.at > 1 THEN [main EXCEPT !.at = @ - 1] ELSE [main EXCEPT !.pc = "exit"]
  /\ UNCHANGED <<thr, count, slots, app, unit, hist>>

Alive == unit \in {"active", "stopping"}

\* Restart=on-failure does not restart a unit that is being stopped.
Fail == unit' = IF unit = "stopping" THEN "stopped" ELSE "failed"

\* The exit status tells systemd whether the service failed.
Exit ==
  /\ main.pc = "exit" /\ Alive
  /\ IF main.failed \/ app.fatal THEN Fail ELSE unit' = "stopped"
  /\ UNCHANGED <<main, thr, count, slots, app, hist>>

-----------------------------------------------------------------------------
(* The threads *)

\* A task returns when it sees that the program is to end.
TaskReturns(t) ==
  /\ Alive /\ thr[t] = "run" /\ ~app.running
  /\ thr' = [thr EXCEPT ![t] = "ended"]
  /\ UNCHANGED <<main, count, slots, app, unit, hist>>

\* ... or when something it needs fails.
TaskFails(t) ==
  /\ Alive /\ thr[t] = "run" /\ Erring
  /\ thr' = [thr EXCEPT ![t] = "ended"]
  /\ UNCHANGED <<main, count, slots, app, unit>>

\* Mutant: a thread that ends is not unregistered.
LeaveRegistered(t) ==
  /\ Alive /\ thr[t] = "ended"
  /\ thr' = [thr EXCEPT ![t] = "left"]
  /\ UNCHANGED <<main, count, slots, app, unit, hist>>

\* thread_wrapper: watchdog_unregister_self, then the thread is no longer counted.
Leave(t) ==
  /\ Alive /\ thr[t] = "ended"
  /\ thr' = [thr EXCEPT ![t] = "left"]
  /\ slots' = [slots EXCEPT ![t] = Free]
  /\ UNCHANGED <<main, count, app, unit, hist>>

Uncount(t) ==
  /\ Alive /\ thr[t] = "left"
  /\ thr' = [thr EXCEPT ![t] = "gone"]
  /\ count' = count - 1
  /\ UNCHANGED <<main, slots, app, unit, hist>>

GetSlow(t) ==
  /\ Alive /\ thr[t] = "run" /\ hist.slow < MaxSlow
  /\ thr' = [thr EXCEPT ![t] = "slow"]
  /\ hist' = [hist EXCEPT !.slow = @ + 1]
  /\ UNCHANGED <<main, count, slots, app, unit>>

Recover(t) ==
  /\ Alive /\ thr[t] = "slow"
  /\ thr' = [thr EXCEPT ![t] = "run"]
  /\ UNCHANGED <<main, count, slots, app, unit, hist>>

\* The recorder sees that the program runs, and then that the AI has stalled.
FindStall ==
  /\ Alive /\ thr[Rec] = "run" /\ app.running
  /\ thr' = [thr EXCEPT ![Rec] = "stalled"]
  /\ UNCHANGED <<main, count, slots, app, unit, hist>>

\* Mutant: the program is not told to end.
GiveUpAndRun ==
  /\ Alive /\ thr[Rec] = "stalled"
  /\ thr' = [thr EXCEPT ![Rec] = "run"]
  /\ app' = [app EXCEPT !.fatal = TRUE]
  /\ UNCHANGED <<main, count, slots, unit, hist>>

\* It gives up, whatever has become of the program meanwhile.
GiveUp ==
  /\ Alive /\ thr[Rec] = "stalled"
  /\ thr' = [thr EXCEPT ![Rec] = "run"]
  /\ app' = [running |-> FALSE, fatal |-> TRUE]
  /\ UNCHANGED <<main, count, slots, unit, hist>>

\* Mutant: a slow thread counts as feeding.
AnyFeeding(t) == TRUE

\* watchdog_task: each registered thread that runs has fed, the others are late once
\* more; the first that is late for the last time ends the program.
Feeding(t) == t = Main \/ thr[t] \in {"run", "stalled"}
Late(t) == slots[t] # Free /\ ~Feeding(t)
Stuck == {t \in Ids : Late(t) /\ slots[t] + 1 >= MaxMiss}
Cause(t) == IF t \in hist.late THEN "never fed" ELSE IF thr[t] = "slow" THEN "slow" ELSE "ended"

Period ==
  /\ Alive /\ thr[Dog] = "run" /\ app.running
  /\ \A t \in Mods : thr[t] # "ended"
  /\ \E t \in Ids : slots[t] # Free /\ (Late(t) \/ slots[t] # 0)
  /\ slots' = [t \in Ids |-> IF slots[t] = Free THEN Free
                             ELSE IF Late(t) THEN slots[t] + 1 ELSE 0]
  /\ IF Stuck = {}
     THEN UNCHANGED <<thr, app, hist>>
     ELSE /\ app' = [app EXCEPT !.running = FALSE]
          /\ thr' = [thr EXCEPT ![Dog] = "ended"]
          /\ hist' = [hist EXCEPT !.alarm = Cause(CHOOSE t \in Stuck : \A u \in Stuck : t <= u)]
  /\ UNCHANGED <<main, count, unit>>

\* watchdog_task finds for the third time in a row that it cannot notify systemd: that
\* ends the program, too, and no thread need be late.
NotifyFails ==
  /\ Alive /\ thr[Dog] = "run" /\ app.running
  /\ hist.errors < MaxErrors
  /\ app' = [app EXCEPT !.running = FALSE]
  /\ thr' = [thr EXCEPT ![Dog] = "ended"]
  /\ hist' = [hist EXCEPT !.errors = @ + 1, !.alarm = "unheard"]
  /\ UNCHANGED <<main, count, slots, unit>>

-----------------------------------------------------------------------------
(* systemd, and whoever stops or kills the process *)

\* systemd stops the service.
StopUnit ==
  /\ unit = "active"
  /\ unit' = "stopping"
  /\ app' = [app EXCEPT !.running = FALSE]
  /\ UNCHANGED <<main, thr, count, slots, hist>>

\* SIGTERM or SIGINT from someone else.
Signal ==
  /\ Alive /\ app.running
  /\ app' = [app EXCEPT !.running = FALSE]
  /\ UNCHANGED <<main, thr, count, slots, unit, hist>>

\* Nobody notifies systemd, of the start (TimeoutStartSec) or later (WatchdogSec), or
\* the stop takes too long (TimeoutStopSec).
NotifyTimeout ==
  /\ Alive /\ (thr[Dog] # "run" \/ unit = "stopping")
  /\ Fail
  /\ UNCHANGED <<main, thr, count, slots, app, hist>>

Crash ==
  /\ Alive
  /\ Fail
  /\ UNCHANGED <<main, thr, count, slots, app, hist>>

\* Restart=on-failure.
Restart ==
  /\ unit = "failed" /\ hist.starts < MaxStarts
  /\ main' = NewMain /\ thr' = NewThr /\ count' = 0 /\ slots' = NewSlots
  /\ app' = NewApp /\ unit' = "active" /\ hist' = NewHist(hist.starts + 1)
  /\ Load

-----------------------------------------------------------------------------
MainStep ==
  \/ Start \/ StartFails \/ Register \/ RegisterSelf \/ LoopEnds \/ Waited \/ Exit
  \/ Destroy

ThreadStep(t) == TaskReturns(t) \/ Leave(t) \/ Uncount(t)

Live ==
  \/ Alive /\ MainStep
  \/ Period \/ NotifyFails \/ FindStall \/ GiveUp
  \/ StopUnit \/ Signal \/ NotifyTimeout \/ Crash
  \/ \E t \in Mods : ThreadStep(t) \/ TaskFails(t) \/ GetSlow(t) \/ Recover(t)

Next ==
  \/ Live /\ UNCHANGED store
  \/ Alive /\ thr[Http] = "run" /\ StoreNext /\ UNCHANGED life
  \/ Restart

Spec == Init /\ [][Next]_vars

\* Threads that are not slow run; main runs, but a destructor may wait for ever for
\* a thread that has not ended; time passes, for the watchdog and for systemd.
FairSpec ==
  /\ Spec
  /\ WF_vars(Alive /\ MainStep /\ (main.pc = "dtor" => hist.over = {}) /\ UNCHANGED store)
  /\ \A t \in Mods : WF_vars(ThreadStep(t) /\ UNCHANGED store)
  /\ WF_vars(GiveUp /\ UNCHANGED store)
  /\ WF_vars(Period /\ UNCHANGED store)
  /\ WF_vars(NotifyTimeout /\ UNCHANGED store)

-----------------------------------------------------------------------------
(* Properties *)

\* When the watchdog ends the program for a thread, that thread did not feed it for
\* all its time, or it ended before main had registered it, and nobody feeds its slot
\* (main.c:297-318).  The other reason to end the program is that systemd cannot be
\* notified, which says nothing of the threads (watchdog.c:202-205).
NoFalseAlarm == hist.alarm \in {"none", "slow", "never fed", "unheard"}

\* The destructors find no thread at work, but those that were slow for the whole
\* time that main waits (wait_threads_exit, threads_running).
DestroyedAlone ==
  main.pc \in {"dtor", "exit"} => \A t \in Mods : thr[t] \in {"none", "gone"} \/ t \in hist.over

\* Whatever kills the process, the next one finds a whole configuration: the one
\* that was saved last, or the one before if a save was under way (config_save).
ConfigWhole ==
  /\ disk # Torn
  /\ save = "none" \/ disk < mem

\* A thread that stays slow is noticed: the process ends, by itself or through
\* systemd, whatever the destructors wait for.
SlowIsNoticed ==
  \A t \in Mods \ {Dog} :
    thr[t] = "slow" /\ slots[t] # Free ~> thr[t] # "slow" \/ ~Alive

\* After a fatal error the service is restarted, also when a signal or the watchdog
\* ended the program at the same time and when threads do not end (main.c:329-331,
\* README.md:68), unless systemd itself is stopping it.
FatalRestarts == app.fatal /\ Alive ~> unit \in {"failed", "stopping"}
=============================================================================
