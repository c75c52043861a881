---------------------------- MODULE Process_proofs ----------------------------
(***************************************************************************)
(* The configuration file over the whole life of the service: kills,       *)
(* restarts and failed writes included; and the threads of each process:   *)
(* whom the watchdog accuses, and whom the destructors meet.               *)
(***************************************************************************)
EXTENDS Process, FiniteSetTheorems, TLAPS

\* What makes ConfigWhole inductive: the file is never newer than what is in
\* memory, it is older while a save is under way, and what a save is about to
\* rename is the whole of the new configuration.
StoreInv ==
  /\ mem \in Versions /\ disk \in Versions /\ disk <= mem
  /\ save \in {"none", "tmp", "rename"}
  /\ save # "none" => disk < mem
  /\ save = "rename" => tmp = mem

\* The steps of config_save keep the invariant.
LEMMA SaveKeeps ==
  ASSUME StoreInv, StoreNext
  PROVE  StoreInv'
<1> USE StoreAssumption DEF StoreInv, Versions
<1>1. CASE SaveBegin
  BY <1>1 DEF SaveBegin
<1>2. CASE SaveWritten
  BY <1>2 DEF SaveWritten
<1>3. CASE SaveFails
  BY <1>3 DEF SaveFails
<1>4. CASE SaveRename
  BY <1>4 DEF SaveRename
<1> QED
  BY <1>1, <1>2, <1>3, <1>4 DEF StoreNext

\* config_load in the next process takes what the file has.
LEMMA LoadKeeps ==
  ASSUME StoreInv, Load
  PROVE  StoreInv'
BY StoreAssumption DEF StoreInv, Versions, Load

\* In every reachable state StoreInv holds, wherever the process was killed.
THEOREM StoreCorrect == Spec => []StoreInv
<1>1. Init => StoreInv
  BY StoreAssumption DEF Init, StoreInit, StoreInv, Versions
<1>2. StoreInv /\ [Next]_vars => StoreInv'
  <2> SUFFICES ASSUME StoreInv, [Next]_vars PROVE StoreInv'
    OBVIOUS
  <2>1. CASE UNCHANGED store
    BY <2>1 DEF StoreInv, store
  <2>2. CASE StoreNext
    BY <2>2, SaveKeeps
  <2>3. CASE Restart
    BY <2>3, LoadKeeps DEF Restart
  <2> QED
    BY <2>1, <2>2, <2>3 DEF Next, vars
<1> QED
  BY <1>1, <1>2, PTL DEF Spec

\* Whatever kills the process, the next one finds a whole configuration, the one
\* saved last or the one before (config_save, config_load), for any number of
\* saves, restarts and failures.
THEOREM ConfigWholeCorrect == Spec => []ConfigWhole
<1>1. StoreInv => ConfigWhole
  BY StoreAssumption DEF StoreInv, ConfigWhole, Versions, Torn
<1> QED
  BY <1>1, StoreCorrect, PTL

-----------------------------------------------------------------------------
(* The threads: what keeps the watchdog from a false alarm and the          *)
(* destructors from a thread that is at work.                               *)

States == {"none", "run", "slow", "stalled", "ended", "left", "gone"}

\* The states in which a thread is counted: from Start to Uncount.
Busy == {"run", "slow", "stalled", "ended", "left"}
Points == {"init", "register", "self", "loop", "wait", "dtor", "exit"}

Mains == [pc : Points, at : Mods, failed : BOOLEAN]
Hists == [starts : Nat, slow : Nat, errors : Nat,
          alarm : {"none", "slow", "never fed", "unheard"},
          late : SUBSET Mods, over : SUBSET Mods]

\* The values of the variables of Process.
LifeType ==
  /\ main \in Mains /\ hist \in Hists
  /\ thr \in [Mods -> States]
  /\ slots \in [Ids -> Int]

\* A slot belongs to a thread that was created; one that left while it had a slot
\* left before main had registered it.
Watched ==
  /\ main.pc = "register" => thr[main.at] # "none"
  /\ \A t \in Mods :
       slots[t] # Free => thr[t] # "none" /\ (thr[t] \in {"left", "gone"} => t \in hist.late)

\* main creates each thread once, in the order of g_modules.
Uncreated ==
  \A t \in Mods :
    (main.pc = "init" /\ t >= main.at) \/ (main.pc = "register" /\ t > main.at) =>
      thr[t] = "none"

Working == {t \in Mods : thr[t] \in Busy}
\* threads_running is the number of the threads that have not yet gone.
Counted == count = Cardinality(Working)

LifeInv == LifeType /\ Watched /\ Uncreated /\ Counted /\ DestroyedAlone

\* A set of natural numbers has a least element.
LEMMA Least ==
  ASSUME NEW S \in SUBSET Nat, S # {}
  PROVE  \E m \in S : \A k \in S : m <= k
<1> DEFINE R == StrictSubsetOrdering(Nat)
           T == {0 .. n : n \in S}
<1>1. IsWellFoundedOn(R, FiniteSubsetsOf(Nat))
  BY FS_StrictSubsetOrderingWellFounded
<1>2. T \subseteq FiniteSubsetsOf(Nat) /\ T # {}
  <2>1. \A n \in S : 0 .. n \in SUBSET Nat /\ IsFiniteSet(0 .. n)
    BY FS_Interval
  <2> QED
    BY <2>1 DEF FiniteSubsetsOf
<1>3. PICK I \in T : \A J \in T : ~(<<J, I>> \in R)
  <2> HIDE DEF R, T
  <2> QED BY <1>1, <1>2, WFMin
<1>4. PICK m \in S : I = 0 .. m
  OBVIOUS
<1>5. ASSUME NEW k \in S, k < m PROVE FALSE
  <2>1. 0 .. k \subseteq 0 .. m /\ 0 .. k # 0 .. m
    BY <1>5
  <2>2. <<0 .. k, 0 .. m>> \in R
    BY <2>1 DEF StrictSubsetOrdering
  <2> QED
    BY <2>2, <1>3, <1>4
<1> QED
  BY <1>5

\* There are finitely many threads.
LEMMA WorkingFinite == IsFiniteSet(Working)
<1>1. IsFiniteSet(Mods)
  BY FS_Interval, ProcessAssumption DEF Mods
<1> QED
  BY <1>1, FS_Subset DEF Working

\* A thread that stays at work stays counted.
LEMMA SameWorking ==
  ASSUME LifeType, NEW t \in Mods, NEW s \in Busy, thr[t] \in Busy, thr' = [thr EXCEPT ![t] = s]
  PROVE  Working' = Working /\ thr' \in [Mods -> States]
BY DEF LifeType, Working, Busy, States

\* What the steps do to the history.
LEMMA HistSteps ==
  ASSUME hist \in Hists, NEW n \in Nat, NEW L \in SUBSET Mods
  PROVE  /\ hist.starts + 1 \in Nat /\ hist.slow + 1 \in Nat /\ hist.errors + 1 \in Nat
         /\ LET h == [hist EXCEPT !.slow = n]
            IN h \in Hists /\ h.late = hist.late /\ h.over = hist.over
         /\ LET h == [hist EXCEPT !.errors = n]
            IN h \in Hists /\ h.late = hist.late /\ h.over = hist.over
         /\ LET h == [hist EXCEPT !.late = L] IN h \in Hists /\ h.late = L
<1>1. hist.starts \in Nat /\ hist.slow \in Nat /\ hist.errors \in Nat
  BY DEF Hists
<1>2. /\ LET h == [hist EXCEPT !.slow = n]
         IN h \in Hists /\ h.late = hist.late /\ h.over = hist.over
      /\ LET h == [hist EXCEPT !.errors = n]
         IN h \in Hists /\ h.late = hist.late /\ h.over = hist.over
  BY DEF Hists
<1>3. LET h == [hist EXCEPT !.late = L] IN h \in Hists /\ h.late = L
  BY DEF Hists
<1> QED
  BY <1>1, <1>2, <1>3

\* A thread is counted when it is created.
LEMMA StartKeeps ==
  ASSUME LifeInv, Start
  PROVE  LifeInv'
<1>0. LifeType /\ Watched /\ Uncreated /\ Counted
  BY DEF LifeInv
<1>1. main \in Mains /\ main.at \in Mods /\ main.at \in Int
  BY <1>0, ProcessAssumption DEF LifeType, Mains, Mods
<1>2. main.pc = "init" /\ main' \in Mains /\ main'.pc = "register" /\ main'.at = main.at
  BY <1>1 DEF Start, Mains, Points
<1>3. thr[main.at] = "none"
  <2>1. main.at >= main.at
    BY <1>1
  <2> QED
    BY <1>0, <1>1, <1>2, <2>1 DEF Uncreated
<1>4. \A u \in Mods : thr'[u] = IF u = main.at THEN "run" ELSE thr[u]
  BY <1>0 DEF LifeType, Start
<1>5. LifeType'
  BY <1>0, <1>2 DEF LifeType, Start, States
<1>6. Watched'
  BY <1>0, <1>1, <1>2, <1>4 DEF Watched, Start
<1>7. Uncreated'
  <2> SUFFICES ASSUME NEW t \in Mods, t > main.at PROVE thr'[t] = "none"
    BY <1>2 DEF Uncreated
  <2>1. t >= main.at /\ t # main.at
    BY <1>1, ProcessAssumption DEF Mods
  <2> QED
    BY <1>0, <1>2, <1>4, <2>1 DEF Uncreated
<1>8. Counted'
  <2>1. Working' = Working \cup {main.at} /\ main.at \notin Working
    BY <1>1, <1>3, <1>4 DEF Working, Busy
  <2>2. Cardinality(Working \cup {main.at})
        = IF main.at \in Working THEN Cardinality(Working) ELSE Cardinality(Working) + 1
    BY WorkingFinite, FS_AddElement
  <2> QED
    BY <1>0, <2>1, <2>2 DEF Counted, Start
<1>9. DestroyedAlone'
  BY <1>2 DEF DestroyedAlone
<1> QED
  BY <1>5, <1>6, <1>7, <1>8, <1>9 DEF LifeInv

\* The steps of main that start and end no thread.
LEMMA MainKeeps ==
  ASSUME LifeInv, MainStep, ~Start
  PROVE  LifeInv'
<1>0. LifeType /\ Watched /\ Uncreated /\ Counted /\ DestroyedAlone
  BY DEF LifeInv
<1>1. UNCHANGED <<thr, count>>
  BY DEF MainStep, StartFails, Register, RegisterSelf, LoopEnds, Waited, Exit, Destroy
<1>2. Working' = Working /\ Counted'
  BY <1>0, <1>1 DEF Working, Counted
<1>3. /\ main \in Mains /\ main.at \in Mods /\ main.at \in Int
      /\ NMods \in Mods /\ \A m \in Mods : m > 1 => m - 1 \in Mods
      /\ \A m \in Mods : m < NMods => m + 1 \in Mods
  BY <1>0, ProcessAssumption DEF LifeType, Mains, Mods
<1>4. Main \in Ids /\ Mods \subseteq Ids /\ \A t \in Mods : t # Main
  BY DEF Ids, Main, Mods
<1>5. CASE StartFails
  <2>1. main' \in Mains /\ main'.pc = "wait"
    BY <1>3, <1>5 DEF StartFails, Mains, Points
  <2>2. hist' \in Hists /\ hist'.late = hist.late
    <3>1. hist \in Hists
      BY <1>0 DEF LifeType
    <3>2. hist.errors + 1 \in Nat
      BY <3>1, HistSteps
    <3>3. hist' = [hist EXCEPT !.errors = hist.errors + 1]
      BY <1>5 DEF StartFails, Erring
    <3> QED
      BY <3>1, <3>2, <3>3, HistSteps
  <2>3. LifeType' /\ Watched'
    BY <1>0, <1>5, <2>1, <2>2 DEF LifeType, StartFails, Watched
  <2> QED
    BY <1>2, <2>1, <2>3 DEF LifeInv, Uncreated, DestroyedAlone
<1>6. CASE Register
  <2>1. main' \in Mains /\ main'.pc \in {"init", "self"}
        /\ (main'.pc = "init" => main'.at = main.at + 1)
    <3>1. CASE main.at < NMods
      BY <1>3, <1>6, <3>1 DEF Register, Onward, Mains, Points
    <3>2. CASE ~(main.at < NMods)
      BY <1>3, <1>6, <3>2 DEF Register, Onward, Mains, Points
    <3> QED
      BY <3>1, <3>2
  <2>2. hist' \in Hists
        /\ hist'.late = IF thr[main.at] \in {"left", "gone"} /\ main.at # Dog
                       THEN hist.late \cup {main.at} ELSE hist.late
    <3> DEFINE L == IF thr[main.at] \in {"left", "gone"} /\ main.at # Dog
                    THEN hist.late \cup {main.at} ELSE hist.late
    <3>1. hist \in Hists /\ hist.late \in SUBSET Mods
      BY <1>0 DEF LifeType, Hists
    <3>2. L \in SUBSET Mods
      BY <1>3, <3>1
    <3>3. hist' = [hist EXCEPT !.late = L]
      BY <1>6 DEF Register
    <3> HIDE DEF L
    <3>4. hist' \in Hists
      BY <3>1, <3>2, <3>3, HistSteps
    <3>5. hist'.late = L
      BY <3>1, <3>3, HistSteps
    <3> QED
      BY <3>4, <3>5 DEF L
  <2>3. slots' \in [Ids -> Int]
        /\ \A t \in Mods : slots'[t] # slots[t] => t = main.at /\ t # Dog
    <3>1. slots \in [Ids -> Int] /\ main.at \in Ids
      BY <1>0, <1>3, <1>4 DEF LifeType
    <3>2. CASE main.at = Dog
      BY <1>4, <1>6, <3>1, <3>2 DEF Register
    <3>3. CASE main.at # Dog
      <4>1. slots' = [slots EXCEPT ![main.at] = 0]
        BY <1>6, <3>3 DEF Register
      <4> QED
        BY <1>4, <3>1, <3>3, <4>1
    <3> QED
      BY <3>2, <3>3
  <2>4. LifeType'
    BY <1>0, <1>1, <2>1, <2>2, <2>3 DEF LifeType
  <2>5. Watched'
    <3> SUFFICES ASSUME NEW t \in Mods, slots'[t] # Free
                 PROVE  thr[t] # "none" /\ (thr[t] \in {"left", "gone"} => t \in hist'.late)
      BY <1>1, <2>1 DEF Watched
    <3>1. CASE t = main.at /\ t # Dog
      BY <1>0, <1>6, <2>2, <3>1 DEF Watched, Register
    <3>2. CASE slots'[t] = slots[t]
      BY <1>0, <2>2, <3>2 DEF Watched
    <3> QED
      BY <2>3, <3>1, <3>2
  <2>6. Uncreated'
    <3> SUFFICES ASSUME NEW t \in Mods, main'.pc = "init", t >= main'.at
                 PROVE  thr[t] = "none"
      BY <1>1, <2>1 DEF Uncreated
    <3>1. main.pc = "register" /\ t > main.at
      BY <1>3, <1>6, <2>1, ProcessAssumption DEF Register, Mods
    <3> QED
      BY <1>0, <3>1 DEF Uncreated
  <2> QED
    BY <1>2, <2>1, <2>4, <2>5, <2>6 DEF LifeInv, DestroyedAlone
<1>7. CASE RegisterSelf \/ LoopEnds
  <2>1. main' \in Mains /\ main'.pc \in {"loop", "wait"}
    BY <1>3, <1>7 DEF RegisterSelf, LoopEnds, Mains, Points
  <2>2. slots' \in [Ids -> Int] /\ \A t \in Mods : slots'[t] = slots[t]
    <3>1. PICK v \in Int : slots' = [slots EXCEPT ![Main] = v]
      BY <1>7 DEF RegisterSelf, LoopEnds, Free
    <3> QED
      BY <1>0, <1>4, <3>1 DEF LifeType
  <2>3. hist' = hist
    BY <1>7 DEF RegisterSelf, LoopEnds
  <2>4. LifeType'
    BY <1>0, <1>1, <2>1, <2>2, <2>3 DEF LifeType
  <2> QED
    BY <1>0, <1>1, <1>2, <2>1, <2>2, <2>3, <2>4 DEF LifeInv, Watched, Uncreated, DestroyedAlone
<1>8. CASE Waited
  <2>1. main' \in Mains /\ main'.pc = "dtor"
    BY <1>3, <1>8 DEF Waited, Mains, Points
  <2>2. hist' \in Hists /\ hist'.late = hist.late
        /\ hist'.over = IF count <= 0 THEN {} ELSE {t \in Mods : thr[t] = "slow"}
    BY <1>0, <1>8 DEF LifeType, Hists, Waited
  <2>3. DestroyedAlone'
    <3>1. CASE count <= 0
      <4>1. Cardinality(Working) = 0
        BY <1>0, <3>1, WorkingFinite, FS_CardinalityType DEF Counted
      <4>2. Working = {}
        BY <4>1, WorkingFinite, FS_EmptySet
      <4>3. \A t \in Mods : thr[t] \in States
        BY <1>0 DEF LifeType
      <4> QED
        BY <1>1, <4>2, <4>3 DEF DestroyedAlone, Working, Busy, States
    <3>2. CASE ~(count <= 0)
      BY <1>1, <1>8, <2>2, <3>2 DEF DestroyedAlone, Waited
    <3> QED
      BY <3>1, <3>2
  <2>4. LifeType' /\ Watched'
    BY <1>0, <1>1, <1>8, <2>1, <2>2 DEF LifeType, Watched, Waited
  <2> QED
    BY <1>2, <2>1, <2>3, <2>4 DEF LifeInv, Uncreated
<1>9. CASE Exit
  BY <1>0, <1>2, <1>9 DEF Exit, LifeInv, LifeType, Watched, Uncreated, DestroyedAlone
<1>10. CASE Destroy
  <2>1. main' \in Mains /\ main.pc = "dtor" /\ main'.pc \in {"dtor", "exit"}
    <3>1. CASE main.at > 1
      BY <1>3, <1>10, <3>1 DEF Destroy, Mains, Points
    <3>2. CASE ~(main.at > 1)
      BY <1>3, <1>10, <3>2 DEF Destroy, Mains, Points
    <3> QED
      BY <3>1, <3>2
  <2>2. UNCHANGED <<thr, slots, hist>>
    BY <1>10 DEF Destroy
  <2>3. LifeType'
    BY <1>0, <2>1, <2>2 DEF LifeType
  <2> QED
    BY <1>0, <1>2, <2>1, <2>2, <2>3 DEF LifeInv, Watched, Uncreated, DestroyedAlone
<1> QED
  BY <1>5, <1>6, <1>7, <1>8, <1>9, <1>10 DEF MainStep

\* A thread that goes on, slower or faster, or whose task returns, is still counted;
\* so is the recorder that finds the AI stalled and gives up.
LEMMA ThreadOnKeeps ==
  ASSUME LifeInv, NEW t \in Mods,
         \/ TaskReturns(t) \/ TaskFails(t) \/ GetSlow(t) \/ Recover(t)
         \/ t = Rec /\ (FindStall \/ GiveUp)
  PROVE  LifeInv'
<1> USE DEF LifeInv
<1>1. PICK s \in {"run", "slow", "stalled", "ended"} : thr' = [thr EXCEPT ![t] = s]
  BY DEF TaskReturns, TaskFails, GetSlow, Recover, FindStall, GiveUp
<1>2. thr[t] \in {"run", "slow", "stalled"} /\ UNCHANGED <<main, count, slots>>
  BY DEF TaskReturns, TaskFails, GetSlow, Recover, FindStall, GiveUp
<1>3. hist' \in Hists
      /\ hist'.late = hist.late /\ hist'.over = hist.over
  <2>1. hist \in Hists
    BY DEF LifeType
  <2>2. CASE UNCHANGED hist
    BY <2>1, <2>2
  <2>3. CASE GetSlow(t)
    <3>1. hist.slow + 1 \in Nat /\ hist' = [hist EXCEPT !.slow = hist.slow + 1]
      BY <2>1, <2>3, HistSteps DEF GetSlow
    <3> QED
      BY <2>1, <3>1, HistSteps
  <2>4. CASE TaskFails(t)
    <3>1. hist.errors + 1 \in Nat /\ hist' = [hist EXCEPT !.errors = hist.errors + 1]
      BY <2>1, <2>4, HistSteps DEF TaskFails, Erring
    <3> QED
      BY <2>1, <3>1, HistSteps
  <2> QED
    BY <2>2, <2>3, <2>4 DEF TaskReturns, Recover, FindStall, GiveUp
<1>4. Working' = Working /\ thr' \in [Mods -> States]
  BY <1>1, <1>2, SameWorking DEF Busy
<1>5. LifeType'
  BY <1>2, <1>3, <1>4 DEF LifeType
<1>6. Counted'
  BY <1>2, <1>4 DEF Counted
<1>7. \A u \in Mods : thr'[u] = IF u = t THEN s ELSE thr[u]
  BY <1>1 DEF LifeType
<1>8. Watched'
  <2>1. main.at \in Mods
    BY DEF LifeType, Mains
  <2> QED
    BY <1>2, <1>3, <1>7, <2>1 DEF Watched
<1>9. Uncreated'
  BY <1>2, <1>7 DEF Uncreated
<1>10. DestroyedAlone'
  BY <1>2, <1>3, <1>7 DEF DestroyedAlone
<1> QED
  BY <1>5, <1>6, <1>8, <1>9, <1>10

\* A thread that ends gives its slot back before it is no longer counted.
LEMMA LeaveKeeps ==
  ASSUME LifeInv, NEW t \in Mods, Leave(t)
  PROVE  LifeInv'
<1> USE DEF LifeInv
<1>1. Working' = Working /\ thr' \in [Mods -> States]
  <2>1. thr[t] \in Busy /\ thr' = [thr EXCEPT ![t] = "left"]
    BY DEF Leave, Busy
  <2> QED
    BY <2>1, SameWorking DEF Busy
<1>2. LifeType'
  <2>1. slots' \in [Ids -> Int]
    <3>1. Free \in Int
      BY DEF Free
    <3> QED
      BY <3>1 DEF LifeType, Leave
  <2> QED
    BY <1>1, <2>1 DEF LifeType, Leave
<1>3. Counted'
  BY <1>1 DEF Counted, Leave
<1>4. /\ \A u \in Mods : thr'[u] = IF u = t THEN "left" ELSE thr[u]
      /\ \A u \in Mods : slots'[u] = IF u = t THEN Free ELSE slots[u]
  BY DEF LifeType, Leave, Ids
<1>5. thr[t] = "ended" /\ UNCHANGED <<main, hist>>
  BY DEF Leave
<1>6. Watched'
  <2>1. main.at \in Mods
    BY DEF LifeType, Mains
  <2> QED
    BY <1>4, <1>5, <2>1 DEF Watched
<1>7. Uncreated'
  BY <1>4, <1>5 DEF Uncreated
<1>8. DestroyedAlone'
  BY <1>4, <1>5 DEF DestroyedAlone
<1> QED
  BY <1>2, <1>3, <1>6, <1>7, <1>8

\* ... and is then no longer counted.
LEMMA UncountKeeps ==
  ASSUME LifeInv, NEW t \in Mods, Uncount(t)
  PROVE  LifeInv'
<1> USE DEF LifeInv
<1>1. LifeType'
  BY DEF LifeType, Uncount, States
<1>2. Counted'
  <2>1. Working' = Working \ {t} /\ t \in Working
    BY DEF Working, LifeType, Uncount, Busy
  <2>2. Cardinality(Working \ {t})
        = IF t \in Working THEN Cardinality(Working) - 1 ELSE Cardinality(Working)
    BY WorkingFinite, FS_RemoveElement
  <2> QED
    BY <2>1, <2>2 DEF Counted, Uncount
<1>3. \A u \in Mods : thr'[u] = IF u = t THEN "gone" ELSE thr[u]
  BY DEF LifeType, Uncount
<1>4. thr[t] = "left" /\ UNCHANGED <<main, slots, hist>>
  BY DEF Uncount
<1>5. Watched'
  <2>1. main.at \in Mods
    BY DEF LifeType, Mains
  <2> QED
    BY <1>3, <1>4, <2>1 DEF Watched
<1>6. Uncreated'
  BY <1>3, <1>4 DEF Uncreated
<1>7. DestroyedAlone'
  BY <1>3, <1>4 DEF DestroyedAlone
<1> QED
  BY <1>1, <1>2, <1>5, <1>6, <1>7

\* The thread for which the watchdog ends the program was slow, or was never fed.
LEMMA CauseTrue ==
  ASSUME LifeInv, \A t \in Mods : thr[t] # "ended", Stuck # {}
  PROVE  Cause(CHOOSE t \in Stuck : \A u \in Stuck : t <= u) \in {"slow", "never fed"}
<1> DEFINE first == CHOOSE t \in Stuck : \A u \in Stuck : t <= u
<1>1. Stuck \in SUBSET Nat
  BY ProcessAssumption DEF Stuck, Ids, Mods, Main
<1>2. first \in Stuck
  BY <1>1, Least
<1> HIDE DEF first
<1>3. first \in Mods /\ slots[first] # Free /\ thr[first] \notin {"run", "stalled"}
  BY <1>2 DEF Stuck, Late, Feeding, Ids
<1>4. thr[first] = "slow" \/ first \in hist.late
  BY <1>3 DEF LifeInv, LifeType, Watched, States
<1>5. Cause(first) \in {"slow", "never fed"}
  BY <1>4 DEF Cause
<1> QED
  BY <1>5 DEF first

\* A pass of the watchdog over its slots.
LEMMA PeriodKeeps ==
  ASSUME LifeInv, Period
  PROVE  LifeInv'
<1> USE DEF LifeInv
<1>1. slots' \in [Ids -> Int] /\ \A t \in Mods : slots'[t] # Free => slots[t] # Free
  <2>1. slots' = [t \in Ids |-> IF slots[t] = Free THEN Free
                                ELSE IF Late(t) THEN slots[t] + 1 ELSE 0]
    BY DEF Period
  <2>2. slots \in [Ids -> Int] /\ Mods \subseteq Ids
    BY DEF LifeType, Ids
  <2>3. \A t \in Ids : slots'[t] \in Int /\ (slots'[t] # Free => slots[t] # Free)
    BY <2>1, <2>2 DEF Free
  <2> QED
    BY <2>1, <2>2, <2>3
<1>2. UNCHANGED <<main, count>>
  BY DEF Period
<1>3. CASE Stuck = {}
  <2>1. UNCHANGED <<thr, hist>>
    BY <1>3 DEF Period
  <2>2. Working' = Working
    BY <2>1 DEF Working
  <2>3. LifeType'
    BY <1>1, <1>2, <2>1 DEF LifeType
  <2>4. Watched'
    BY <1>1, <1>2, <2>1 DEF Watched
  <2>5. Uncreated' /\ DestroyedAlone' /\ Counted'
    BY <1>2, <2>1, <2>2 DEF Uncreated, DestroyedAlone, Counted
  <2> QED
    BY <2>3, <2>4, <2>5
<1>4. CASE Stuck # {}
  <2>1. Cause(CHOOSE t \in Stuck : \A u \in Stuck : t <= u) \in {"slow", "never fed"}
    BY <1>4, CauseTrue DEF Period
  <2>2. hist' = [hist EXCEPT !.alarm = Cause(CHOOSE t \in Stuck : \A u \in Stuck : t <= u)]
    BY <1>4 DEF Period
  <2>3. hist' \in Hists
        /\ hist'.late = hist.late /\ hist'.over = hist.over
    BY <2>1, <2>2 DEF LifeType, Hists
  <2>4. thr[Dog] = "run" /\ thr' = [thr EXCEPT ![Dog] = "ended"] /\ Dog \in Mods
    BY <1>4, ProcessAssumption DEF Period, Mods
  <2>5. Working' = Working /\ thr' \in [Mods -> States]
    BY <2>4, SameWorking DEF Busy
  <2>6. \A u \in Mods : thr'[u] = IF u = Dog THEN "ended" ELSE thr[u]
    BY <2>4 DEF LifeType
  <2>7. LifeType'
    BY <1>1, <1>2, <2>3, <2>5 DEF LifeType
  <2>8. Watched'
    BY <1>1, <1>2, <2>3, <2>4, <2>6 DEF Watched, LifeType
  <2>9. Uncreated'
    BY <1>2, <2>4, <2>6 DEF Uncreated
  <2>10. DestroyedAlone'
    BY <1>2, <2>3, <2>4, <2>6 DEF DestroyedAlone
  <2>11. Counted'
    BY <1>2, <2>5 DEF Counted
  <2> QED
    BY <2>7, <2>8, <2>9, <2>10, <2>11
<1> QED
  BY <1>3, <1>4

\* The watchdog's thread ends because nobody hears it.
LEMMA UnheardKeeps ==
  ASSUME LifeInv, NotifyFails
  PROVE  LifeInv'
<1> USE DEF LifeInv
<1>1. thr[Dog] = "run" /\ thr' = [thr EXCEPT ![Dog] = "ended"] /\ Dog \in Mods
      /\ UNCHANGED <<main, count, slots>>
  BY ProcessAssumption DEF NotifyFails, Mods
<1>2. hist' \in Hists /\ hist'.late = hist.late /\ hist'.over = hist.over
  <2> DEFINE n == hist.errors + 1
  <2>1. hist \in Hists /\ n \in Nat
    BY HistSteps DEF LifeType
  <2>2. hist' = [hist EXCEPT !.errors = n, !.alarm = "unheard"]
    BY DEF NotifyFails
  <2> HIDE DEF n
  <2> QED
    BY <2>1, <2>2 DEF Hists
<1>3. Working' = Working /\ thr' \in [Mods -> States]
  BY <1>1, SameWorking DEF Busy
<1>4. \A u \in Mods : thr'[u] = IF u = Dog THEN "ended" ELSE thr[u]
  BY <1>1 DEF LifeType
<1>5. LifeType' /\ Counted'
  BY <1>1, <1>2, <1>3 DEF LifeType, Counted
<1>6. Watched'
  <2>1. main.at \in Mods
    BY DEF LifeType, Mains
  <2> QED
    BY <1>1, <1>2, <1>4, <2>1 DEF Watched
<1>7. Uncreated' /\ DestroyedAlone'
  BY <1>1, <1>2, <1>4 DEF Uncreated, DestroyedAlone
<1> QED
  BY <1>5, <1>6, <1>7

\* A process that starts.
LEMMA FreshLife ==
  ASSUME NEW n \in Nat, main = NewMain, thr = NewThr, count = 0, slots = NewSlots,
         hist = NewHist(n)
  PROVE  LifeInv
<1>1. LifeType
  BY ProcessAssumption
     DEF LifeType, Mains, Hists, NewMain, NewThr, NewSlots, NewHist, Points, States, Mods, Free
<1>2. Watched /\ Uncreated /\ DestroyedAlone
  BY DEF Watched, Uncreated, DestroyedAlone, NewMain, NewThr, NewSlots, Ids
<1>3. Working = {}
  BY DEF Working, NewThr, Busy
<1>4. Counted
  BY <1>3, FS_EmptySet DEF Counted
<1> QED
  BY <1>1, <1>2, <1>4 DEF LifeInv

\* The process that systemd starts anew.
LEMMA RestartKeeps ==
  ASSUME LifeInv, Restart
  PROVE  LifeInv'
<1>0. hist.starts + 1 \in Nat
  <2>1. hist \in Hists
    BY DEF LifeInv, LifeType
  <2> QED
    BY <2>1, HistSteps
<1>1. LifeType'
  BY <1>0, ProcessAssumption
     DEF LifeType, Mains, Hists, Restart, NewMain, NewThr, NewSlots, NewHist, Points, States, Mods, Free
<1>2. Watched' /\ Uncreated' /\ DestroyedAlone'
  BY DEF Watched, Uncreated, DestroyedAlone, Restart, NewMain, NewThr, NewSlots, Ids
<1>3. Working' = {}
  BY DEF Working, Restart, NewThr, Busy
<1>4. Counted'
  BY <1>3, FS_EmptySet DEF Counted, Restart
<1> QED
  BY <1>1, <1>2, <1>4 DEF LifeInv

\* Steps that leave main and the threads as they are.
LEMMA AsideKeeps ==
  ASSUME LifeInv, UNCHANGED <<main, thr, count, slots, hist>>
  PROVE  LifeInv'
BY DEF LifeInv, LifeType, Watched, Uncreated, Counted, Working, DestroyedAlone

\* In every reachable state, in every process of the service, the invariant of the
\* threads holds.
THEOREM LifeCorrect == Spec => []LifeInv
<1>1. Init => LifeInv
  BY FreshLife DEF Init
<1>2. LifeInv /\ [Next]_vars => LifeInv'
  <2> SUFFICES ASSUME LifeInv, [Next]_vars PROVE LifeInv'
    OBVIOUS
  <2>1. CASE UNCHANGED life
    BY <2>1, AsideKeeps DEF life
  <2>2. CASE Live
    <3>1. CASE MainStep
      BY <3>1, StartKeeps, MainKeeps
    <3>2. CASE Period
      BY <3>2, PeriodKeeps
    <3>3. CASE StopUnit \/ Signal \/ NotifyTimeout \/ Crash
      BY <3>3, AsideKeeps DEF StopUnit, Signal, NotifyTimeout, Crash
    <3>4. CASE \E t \in Mods : ThreadStep(t) \/ TaskFails(t) \/ GetSlow(t) \/ Recover(t)
      BY <3>4, ThreadOnKeeps, LeaveKeeps, UncountKeeps DEF ThreadStep
    <3>5. CASE FindStall \/ GiveUp
      <4>1. Rec \in Mods
        BY ProcessAssumption DEF Rec, Mods
      <4> QED
        BY <3>5, <4>1, ThreadOnKeeps
    <3>6. CASE NotifyFails
      BY <3>6, UnheardKeeps
    <3> QED
      BY <2>2, <3>1, <3>2, <3>3, <3>4, <3>5, <3>6 DEF Live
  <2>3. CASE Restart
    BY <2>3, RestartKeeps
  <2> QED
    BY <2>1, <2>2, <2>3 DEF Next, vars
<1> QED
  BY <1>1, <1>2, PTL DEF Spec

\* The thread for which the watchdog ends the program was slow for its whole time, or
\* it ended before main had registered it; the watchdog ends it for no thread only
\* when systemd cannot be notified (watchdog_task, main), for any number of threads,
\* periods and restarts.
THEOREM NoFalseAlarmCorrect == Spec => []NoFalseAlarm
<1>1. LifeInv => NoFalseAlarm
  BY DEF LifeInv, LifeType, Hists, NoFalseAlarm
<1> QED
  BY <1>1, LifeCorrect, PTL

\* The destructors find no thread at work but those that were slow for the whole
\* time that main waits (wait_threads_exit), for any number of threads.
THEOREM DestroyedAloneCorrect == Spec => []DestroyedAlone
<1>1. LifeInv => DestroyedAlone
  BY DEF LifeInv
<1> QED
  BY <1>1, LifeCorrect, PTL
=============================================================================
