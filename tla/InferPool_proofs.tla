-------------------------- MODULE InferPool_proofs --------------------------
(***************************************************************************)
(* The inference pool: the array of the queue is a ring whose cells hold   *)
(* the jobs that wait, and each job is in one place until it is released.  *)
(***************************************************************************)
EXTENDS InferPool, FiniteSetTheorems, TLAPS

\* The values of the variables of InferPool.
Items == 0 .. MaxJobs   \* a job, or none
Pools == [running : BOOLEAN, created : SUBSET (Workers \cup {"composer"}),
          pc : {"down", "up", "q_not_empty", "q_not_full", "r_not_full", "join", "purge"},
          at : 0 .. Cap, stops : Nat]
Queues == [cells : [Cells -> Items], head : Cells, tail : Cells, count : Nat]
Ais == [pc : {"get", "push", "full", "waiting", "store"}, job : Items]
Wks == [pc : {"gone", "pop", "empty", "sleeping", "infer", "result", "crowded", "stuck"},
        job : Items]
Hists == [made : Items, released : [Jobs -> Nat], missed : SUBSET (Workers \cup {"ai"}),
          raced : BOOLEAN]

PoolType ==
  /\ pool \in Pools
  /\ q \in Queues
  /\ ai \in Ais
  /\ wk \in [Workers -> Wks]
  /\ hist \in Hists

\* The workers are gone while the queue is purged and while the pool is down.
Phases ==
  /\ pool.running <=> pool.pc = "up"
  /\ pool.pc \in {"purge", "down"} => \A w \in Workers : wk[w].pc = "gone"
  /\ pool.pc # "purge" => pool.at = 0

\* The place of a cell in the queue, counted from the head.
Offset(i) == IF q.head <= i THEN i - q.head ELSE i + Cap - q.head

\* The cells between head and tail hold the jobs that wait, the others none, nor do
\* those that were purged; there is room for a push that has looked.
Ring ==
  /\ q.count <= Cap
  /\ Offset(q.tail) = IF q.count = Cap THEN 0 ELSE q.count
  /\ \A i \in Cells : q.cells[i] # 0 <=> Offset(i) < q.count /\ pool.at <= i
  /\ ai.pc = "store" => q.count < Cap /\ pool.at = 0

\* The job a worker holds the claim of.
Hand == [w \in Workers |-> IF wk[w].pc = "infer" THEN wk[w].job ELSE 0]

\* Each job that was made is in one cell, or in one hand, or was released once.
Kept(j, a, cells, hand) ==
  a = j \/ (\E i \in Cells : cells[i] = j) \/ (\E w \in Workers : hand[w] = j)

\* ... never in two.
Apart(j, a, cells, hand) ==
  /\ \A i, k \in Cells : cells[i] = j /\ cells[k] = j => i = k
  /\ \A v, w \in Workers : hand[v] = j /\ hand[w] = j => v = w
  /\ \A i \in Cells : cells[i] = j => a # j /\ \A w \in Workers : hand[w] # j
  /\ \A w \in Workers : hand[w] = j => a # j

\* So it is with every job.
OnceOf(a, cells, hand, made, released) ==
  \A j \in Jobs :
    /\ Kept(j, a, cells, hand) => j <= made
    /\ released[j] = IF j <= made /\ ~Kept(j, a, cells, hand) THEN 1 ELSE 0
    /\ Apart(j, a, cells, hand)

Once ==
  /\ ai.pc = "get" <=> ai.job = 0
  /\ OnceOf(ai.job, q.cells, Hand, hist.made, hist.released)

\* The inductive invariant of the pool.
PoolInv == PoolType /\ Phases /\ (hist.raced \/ (Ring /\ Once))

\* The index after the last cell is the first.
LEMMA NextCell ==
  ASSUME NEW x \in Cells
  PROVE  (x + 1) % Cap = IF x + 1 = Cap THEN 0 ELSE x + 1
<1>1. Cap \in Nat \ {0} /\ x \in Nat /\ x < Cap
  BY PoolAssumption DEF Cells
<1> QED
  BY <1>1

\* The count of the releases when a hand lets go of what it has.
Given(released, j) == IF j = 0 THEN released ELSE [released EXCEPT ![j] = @ + 1]

\* A claim becomes a job; the job goes from hand to hand, and is released by whoever
\* has it.
LEMMA JobMade ==
  ASSUME NEW cells \in [Cells -> Items], NEW hand \in [Workers -> Items],
         NEW made \in Nat, NEW released \in [Jobs -> Nat], made < MaxJobs,
         OnceOf(0, cells, hand, made, released)
  PROVE  OnceOf(made + 1, cells, hand, made + 1, released)
BY PoolAssumption DEF OnceOf, Kept, Apart, Jobs, Items

LEMMA DroppedByAi ==
  ASSUME NEW a \in Items, NEW cells \in [Cells -> Items], NEW hand \in [Workers -> Items],
         NEW made \in Nat, NEW released \in [Jobs -> Nat],
         OnceOf(a, cells, hand, made, released)
  PROVE  OnceOf(0, cells, hand, made, Given(released, a))
BY PoolAssumption DEF OnceOf, Kept, Apart, Jobs, Items, Given

LEMMA DroppedByWorker ==
  ASSUME NEW a \in Items, NEW cells \in [Cells -> Items], NEW hand \in [Workers -> Items],
         NEW made \in Nat, NEW released \in [Jobs -> Nat], NEW w \in Workers,
         OnceOf(a, cells, hand, made, released)
  PROVE  OnceOf(a, cells, [hand EXCEPT ![w] = 0], made, Given(released, hand[w]))
BY PoolAssumption DEF OnceOf, Kept, Apart, Jobs, Items, Given

LEMMA DroppedFromCell ==
  ASSUME NEW a \in Items, NEW cells \in [Cells -> Items], NEW hand \in [Workers -> Items],
         NEW made \in Nat, NEW released \in [Jobs -> Nat], NEW c \in Cells,
         OnceOf(a, cells, hand, made, released)
  PROVE  OnceOf(a, [cells EXCEPT ![c] = 0], hand, made, Given(released, cells[c]))
BY PoolAssumption DEF OnceOf, Kept, Apart, Jobs, Items, Given

LEMMA PutIntoCell ==
  ASSUME NEW a \in Items, NEW cells \in [Cells -> Items], NEW hand \in [Workers -> Items],
         NEW made \in Nat, NEW released \in [Jobs -> Nat], NEW c \in Cells, cells[c] = 0,
         OnceOf(a, cells, hand, made, released)
  PROVE  OnceOf(0, [cells EXCEPT ![c] = a], hand, made, released)
BY PoolAssumption DEF OnceOf, Kept, Apart, Jobs, Items

LEMMA TakenFromCell ==
  ASSUME NEW a \in Items, NEW cells \in [Cells -> Items], NEW hand \in [Workers -> Items],
         NEW made \in Nat, NEW released \in [Jobs -> Nat], NEW c \in Cells,
         NEW w \in Workers, hand[w] = 0,
         OnceOf(a, cells, hand, made, released)
  PROVE  OnceOf(a, [cells EXCEPT ![c] = 0], [hand EXCEPT ![w] = cells[c]], made, released)
BY PoolAssumption DEF OnceOf, Kept, Apart, Jobs, Items

\* A release is counted for a job, and for nothing else.
LEMMA HistReleased ==
  ASSUME NEW h \in Hists, NEW j \in Items
  PROVE  /\ Released(h, j) \in Hists
         /\ Released(h, j).made = h.made /\ Released(h, j).raced = h.raced
         /\ Released(h, j).released = Given(h.released, j)
<1> DEFINE r == [h.released EXCEPT ![j] = @ + 1]
<1>1. CASE j = 0
  BY <1>1 DEF Released, Given
<1>2. CASE j # 0
  <2>1. Released(h, j) = [h EXCEPT !.released = r]
    BY <1>2 DEF Released
  <2>2. r \in [Jobs -> Nat]
    <3>1. h.released \in [Jobs -> Nat] /\ j \in Jobs
      BY <1>2, PoolAssumption DEF Hists, Items, Jobs
    <3> QED
      BY <3>1
  <2>3. Given(h.released, j) = r
    BY <1>2 DEF Given
  <2> HIDE DEF r
  <2> QED
    BY <2>1, <2>2, <2>3 DEF Hists
<1> QED
  BY <1>1, <1>2

\* What the fields of the variables hold.
LEMMA HandType ==
  ASSUME wk \in [Workers -> Wks]
  PROVE  Hand \in [Workers -> Items]
<1>1. \A w \in Workers : wk[w].job \in Items
  BY DEF Wks
<1>2. 0 \in Items
  BY PoolAssumption DEF Items
<1> QED
  BY <1>1, <1>2 DEF Hand

\* A worker that is woken.
LEMMA SignalFacts ==
  ASSUME wk \in [Workers -> Wks], NEW from \in {"sleeping", "stuck"}, NEW to \in {"pop", "result"},
         wk' \in Signal(wk, from, to)
  PROVE  /\ wk' \in [Workers -> Wks] /\ Hand' = Hand
         /\ \A w \in Workers : wk'[w].pc = "gone" <=> wk[w].pc = "gone"
<1> DEFINE S == {w \in Workers : wk[w].pc = from}
<1>1. CASE S = {}
  BY <1>1 DEF Signal, Hand
<1>2. ASSUME NEW v \in Workers, wk[v].pc = from, wk' = [wk EXCEPT ![v].pc = to]
      PROVE  /\ wk' \in [Workers -> Wks] /\ Hand' = Hand
             /\ \A w \in Workers : wk'[w].pc = "gone" <=> wk[w].pc = "gone"
  <2>1. wk' \in [Workers -> Wks]
    BY <1>2 DEF Wks
  <2>2. \A w \in Workers : IF w = v THEN wk'[w].pc = to ELSE wk'[w] = wk[w]
    BY <1>2 DEF Wks
  <2>3. \A w \in Workers : (wk'[w].pc = "infer" <=> wk[w].pc = "infer")
                           /\ (wk'[w].pc = "gone" <=> wk[w].pc = "gone")
                           /\ (wk[w].pc = "infer" => wk'[w] = wk[w])
    BY <1>2, <2>2
  <2> QED
    BY <2>1, <2>3 DEF Hand
<1> QED
  BY <1>1, <1>2 DEF Signal

\* A worker goes on.
LEMMA WorkerStep ==
  ASSUME wk \in [Workers -> Wks], NEW w \in Workers, NEW u \in Wks,
         wk' = [wk EXCEPT ![w] = u]
  PROVE  /\ wk' \in [Workers -> Wks]
         /\ Hand' = [Hand EXCEPT ![w] = IF u.pc = "infer" THEN u.job ELSE 0]
         /\ \A v \in Workers : v # w => wk'[v] = wk[v]
         /\ wk'[w] = u
<1>1. \A v \in Workers : wk'[v] = IF v = w THEN u ELSE wk[v]
  OBVIOUS
<1>2. Hand' = [Hand EXCEPT ![w] = IF u.pc = "infer" THEN u.job ELSE 0]
  BY <1>1 DEF Hand
<1> QED
  BY <1>1, <1>2

\* ... to another point of its loop; the AI task likewise, or because it is woken.
LEMMA WorkerAt ==
  ASSUME wk \in [Workers -> Wks], NEW w \in Workers,
         NEW p \in {"gone", "pop", "empty", "sleeping", "infer", "result", "crowded", "stuck"}
  PROVE  /\ [wk[w] EXCEPT !.pc = p] \in Wks
         /\ [wk[w] EXCEPT !.pc = p].pc = p
         /\ [wk EXCEPT ![w].pc = p] = [wk EXCEPT ![w] = [wk[w] EXCEPT !.pc = p]]
BY DEF Wks

LEMMA AiStepType ==
  ASSUME NEW a \in Ais, NEW p \in {"get", "push", "full", "waiting", "store"}
  PROVE  LET b == [a EXCEPT !.pc = p] IN b \in Ais /\ b.pc = p /\ b.job = a.job
BY DEF Ais

LEMMA WokenAi ==
  ASSUME NEW a \in Ais
  PROVE  /\ WakeAi(a) \in Ais /\ WakeAi(a).job = a.job
         /\ WakeAi(a).pc = "get" <=> a.pc = "get"
         /\ WakeAi(a).pc = "store" <=> a.pc = "store"
BY DEF Ais, WakeAi

LEMMA PoolFields ==
  ASSUME NEW p \in Pools
  PROVE  p.at \in 0 .. Cap /\ p.running \in BOOLEAN
BY DEF Pools

LEMMA QueueFields ==
  ASSUME NEW r \in Queues
  PROVE  r.cells \in [Cells -> Items] /\ r.head \in Cells /\ r.tail \in Cells /\ r.count \in Nat
BY DEF Queues

LEMMA HistFields ==
  ASSUME NEW h \in Hists
  PROVE  h.made \in Items /\ h.made \in Nat /\ h.released \in [Jobs -> Nat] /\ h.raced \in BOOLEAN
BY PoolAssumption DEF Hists, Items

LEMMA Zero == 0 \in Items /\ 0 \in Cells /\ Items \subseteq Nat /\ Cells \subseteq Nat
BY PoolAssumption DEF Items, Cells

\* A step that moves no job.
LEMMA NoJobMoves ==
  ASSUME PoolInv, q' = q, pool' \in Pools, ai' \in Ais, wk' \in [Workers -> Wks], hist' \in Hists,
         Phases', pool'.at = pool.at,
         ai'.job = ai.job, ai'.pc = "get" <=> ai.pc = "get",
         ai'.pc = "store" => ai.pc = "store" \/ (q.count < Cap /\ pool.running),
         Hand' = Hand, hist'.made = hist.made, hist'.released = hist.released,
         hist'.raced = hist.raced
  PROVE  PoolInv'
<1>1. PoolType'
  BY DEF PoolInv, PoolType
<1>2. ASSUME ~hist.raced PROVE Ring' /\ Once'
  <2>1. Ring /\ Once
    BY <1>2 DEF PoolInv
  <2>2. pool.running => pool.at = 0
    BY DEF PoolInv, Phases
  <2> QED
    BY <2>1, <2>2 DEF Ring, Once, Offset
<1> QED
  BY <1>1, <1>2 DEF PoolInv

\* The AI task claims a frame.
LEMMA AiGetKeeps ==
  ASSUME PoolInv, AiGet
  PROVE  PoolInv'
<1>1. UNCHANGED <<pool, q, wk>> /\ ai.pc = "get" /\ pool.running
  BY DEF AiGet
<1>2. hist \in Hists /\ ai \in Ais /\ q \in Queues /\ wk \in [Workers -> Wks]
  BY DEF PoolInv, PoolType
<1> DEFINE made == hist.made + 1
<1>3. hist.made \in Nat /\ hist.made < MaxJobs /\ made \in Items /\ MaxJobs \in Nat
  BY <1>2, HistFields, PoolAssumption DEF AiGet, Items
<1>4. hist' = [hist EXCEPT !.made = made] /\ ai' = [pc |-> "push", job |-> made] /\ made # 0
  BY <1>3 DEF AiGet
<1> HIDE DEF made
<1>5. hist' \in Hists /\ hist'.made = made /\ hist'.raced = hist.raced
      /\ hist'.released = hist.released
  BY <1>2, <1>3, <1>4 DEF Hists
<1>6. ai' \in Ais /\ ai'.job = made /\ ai'.pc = "push"
  BY <1>3, <1>4 DEF Ais
<1>7. PoolType' /\ Phases'
  BY <1>1, <1>5, <1>6 DEF PoolInv, PoolType, Phases
<1>8. ASSUME ~hist.raced PROVE Ring' /\ Once'
  <2>1. Ring /\ Once
    BY <1>8 DEF PoolInv
  <2>2. Ring'
    BY <1>1, <1>6, <2>1 DEF Ring, Offset
  <2>3. ai.job = 0 /\ OnceOf(0, q.cells, Hand, hist.made, hist.released) /\ Hand' = Hand
    BY <1>1, <2>1 DEF Once, Hand
  <2>4. OnceOf(made, q.cells, Hand, made, hist.released)
    BY <1>2, <1>3, <2>3, JobMade, HandType, QueueFields, HistFields DEF made
  <2> QED
    BY <1>1, <1>4, <1>5, <1>6, <2>2, <2>3, <2>4 DEF Once
<1> QED
  BY <1>5, <1>7, <1>8 DEF PoolInv

\* A push is refused by a pool that stops; or there is room, or there is not.
LEMMA AiLookKeeps ==
  ASSUME PoolInv, AiLook
  PROVE  PoolInv'
<1>1. UNCHANGED <<pool, q, wk>> /\ ai.pc = "push"
  BY DEF AiLook
<1>2. /\ hist \in Hists /\ ai \in Ais /\ q \in Queues /\ wk \in [Workers -> Wks] /\ pool \in Pools
      /\ Hand' = Hand /\ Phases'
  BY <1>1 DEF PoolInv, PoolType, Hand, Phases
<1>3. CASE pool.running
  <2> DEFINE p == IF q.count >= Cap THEN "full" ELSE "store"
  <2>1. ai' = [ai EXCEPT !.pc = p] /\ UNCHANGED hist
    BY <1>3 DEF AiLook
  <2>2. p \in {"full", "store"} /\ (p = "store" => q.count < Cap)
    BY <1>2, QueueFields, PoolAssumption
  <2> HIDE DEF p
  <2>3. ai' \in Ais /\ ai'.job = ai.job /\ ai'.pc = p
    BY <1>2, <2>1, <2>2 DEF Ais
  <2> QED
    BY <1>1, <1>2, <1>3, <2>1, <2>2, <2>3, NoJobMoves
<1>4. CASE ~pool.running
  <2>1. ai' = [pc |-> "get", job |-> 0] /\ hist' = Released(hist, ai.job) /\ ai.job \in Items
    BY <1>2, <1>4 DEF AiLook, Ais
  <2>2. ai' \in Ais /\ ai'.pc = "get" /\ ai'.job = 0
    BY <2>1, Zero DEF Ais
  <2>3. /\ hist' \in Hists /\ hist'.made = hist.made /\ hist'.raced = hist.raced
        /\ hist'.released = Given(hist.released, ai.job)
    BY <1>2, <2>1, HistReleased
  <2>4. PoolType'
    BY <1>1, <2>2, <2>3 DEF PoolInv, PoolType
  <2>5. ASSUME ~hist.raced PROVE Ring' /\ Once'
    <3>1. Ring /\ Once
      BY <2>5 DEF PoolInv
    <3>2. Ring'
      BY <1>1, <2>2, <3>1 DEF Ring, Offset
    <3>3. OnceOf(0, q.cells, Hand, hist.made, Given(hist.released, ai.job))
      BY <1>2, <2>1, <3>1, DroppedByAi, HandType, QueueFields, HistFields DEF Once
    <3> QED
      BY <1>1, <1>2, <2>2, <2>3, <3>2, <3>3 DEF Once
  <2> QED
    BY <1>2, <2>3, <2>4, <2>5 DEF PoolInv
<1> QED
  BY <1>3, <1>4

\* It waits for room.
LEMMA AiWaitKeeps ==
  ASSUME PoolInv, AiWait
  PROVE  PoolInv'
<1>1. UNCHANGED <<pool, q, wk, hist>> /\ ai.pc = "full" /\ ai' = [ai EXCEPT !.pc = "waiting"]
  BY DEF AiWait
<1>2. /\ hist \in Hists /\ ai \in Ais /\ wk \in [Workers -> Wks] /\ pool \in Pools
      /\ Hand' = Hand /\ Phases'
  BY <1>1 DEF PoolInv, PoolType, Hand, Phases
<1>3. ai' \in Ais /\ ai'.job = ai.job /\ ai'.pc = "waiting"
  BY <1>1, <1>2, AiStepType
<1> QED
  BY <1>1, <1>2, <1>3, NoJobMoves

\* A push puts the job into the cell behind the others.
LEMMA AiStoreKeeps ==
  ASSUME PoolInv, AiStore
  PROVE  PoolInv'
<1>1. UNCHANGED <<pool, hist>> /\ ai.pc = "store" /\ ai' = [pc |-> "get", job |-> 0]
      /\ wk' \in Signal(wk, "sleeping", "pop")
  BY DEF AiStore
<1>2. hist \in Hists /\ ai \in Ais /\ q \in Queues /\ wk \in [Workers -> Wks] /\ pool \in Pools
  BY DEF PoolInv, PoolType
<1>3. /\ wk' \in [Workers -> Wks] /\ Hand' = Hand
      /\ \A w \in Workers : wk'[w].pc = "gone" <=> wk[w].pc = "gone"
  BY <1>1, <1>2, SignalFacts
<1>4. ai' \in Ais /\ ai'.pc = "get" /\ ai'.job = 0
  BY <1>1, Zero DEF Ais
<1> DEFINE t == IF q.tail + 1 = Cap THEN 0 ELSE q.tail + 1
           cells == [q.cells EXCEPT ![q.tail] = ai.job]
           n == q.count + 1
<1>5. /\ q.cells \in [Cells -> Items] /\ q.head \in Cells /\ q.tail \in Cells /\ q.count \in Nat
      /\ ai.job \in Items
  BY <1>2, QueueFields DEF Ais
<1>6. t \in Cells /\ cells \in [Cells -> Items] /\ n \in Nat /\ (q.tail + 1) % Cap = t
  BY <1>5, NextCell, PoolAssumption DEF Cells
<1>7. q' = [q EXCEPT !.cells = cells, !.tail = t, !.count = n]
  BY <1>6 DEF AiStore
<1> HIDE DEF t, cells, n
<1>8. q' \in Queues /\ q'.cells = cells /\ q'.tail = t /\ q'.count = n /\ q'.head = q.head
  BY <1>2, <1>6, <1>7 DEF Queues
<1>9. PoolType' /\ Phases'
  BY <1>1, <1>3, <1>4, <1>8 DEF PoolInv, PoolType, Phases
<1>10. ASSUME ~hist.raced PROVE Ring' /\ Once'
  <2>1. Ring /\ Once
    BY <1>10 DEF PoolInv
  <2>2. q.count < Cap /\ pool.at = 0 /\ ai.job # 0
    BY <1>1, <2>1 DEF Ring, Once
  <2>3. Offset(q.tail) = q.count /\ q.cells[q.tail] = 0
    <3>1. Offset(q.tail) = q.count
      BY <1>5, <2>1, <2>2, PoolAssumption DEF Ring
    <3>2. ~(q.cells[q.tail] # 0)
      BY <1>5, <2>1, <3>1 DEF Ring
    <3> QED
      BY <3>1, <3>2
  <2>4. \A i \in Cells : Offset(i)' = Offset(i)
    BY <1>8 DEF Offset
  <2>5. \A i \in Cells : cells[i] # 0 <=> Offset(i) < n
    <3> SUFFICES ASSUME NEW i \in Cells PROVE cells[i] # 0 <=> Offset(i) < n
      OBVIOUS
    <3>1. cells[i] = IF i = q.tail THEN ai.job ELSE q.cells[i]
      BY <1>5 DEF cells
    <3>2. Offset(i) = Offset(q.tail) => i = q.tail
      BY <1>5, PoolAssumption DEF Offset, Cells
    <3>3. q.cells[i] # 0 <=> Offset(i) < q.count
      BY <2>1, <2>2 DEF Ring, Cells
    <3>4. Offset(i) \in Int
      BY <1>5, PoolAssumption DEF Offset, Cells
    <3> QED
      BY <1>5, <2>2, <2>3, <3>1, <3>2, <3>3, <3>4 DEF n
  <2>6. n <= Cap /\ Offset(t) = IF n = Cap THEN 0 ELSE n
    <3>1. ASSUME NEW c \in Nat, c < Cap, NEW h \in Cells, NEW x \in Cells, NEW y \in Cells,
                 (IF h <= x THEN x - h ELSE x + Cap - h) = c,
                 y = IF x + 1 = Cap THEN 0 ELSE x + 1
          PROVE  /\ c + 1 <= Cap
                 /\ (IF h <= y THEN y - h ELSE y + Cap - h) = IF c + 1 = Cap THEN 0 ELSE c + 1
      BY <3>1, PoolAssumption DEF Cells
    <3> QED
      BY <1>5, <1>6, <2>2, <2>3, <3>1 DEF Offset, n, t
  <2>7. Ring'
    <3>1. pool'.at = 0 /\ \A i \in Cells : 0 <= i
      BY <1>1, <2>2 DEF Cells
    <3>2. \A i \in Cells : (q'.cells[i] # 0 <=> Offset(i)' < q'.count /\ pool'.at <= i)
      BY <1>8, <2>4, <2>5, <3>1
    <3>3. q'.count <= Cap /\ Offset(q.tail)' = IF q'.count = Cap THEN 0 ELSE q'.count
      <4>1. Offset(q.tail)' = Offset(t)
        BY <1>8 DEF Offset
      <4> QED
        BY <1>8, <2>6, <4>1
    <3> QED
      BY <1>4, <3>2, <3>3 DEF Ring
  <2>8. OnceOf(0, cells, Hand, hist.made, hist.released)
    BY <1>2, <1>5, <2>1, <2>3, PutIntoCell, HandType, HistFields DEF Once, cells
  <2> QED
    BY <1>1, <1>3, <1>4, <1>8, <2>7, <2>8 DEF Once
<1> QED
  BY <1>1, <1>9, <1>10 DEF PoolInv

\* A worker that goes on with the job it has, or without one.
LEMMA WorkerGoesOn ==
  ASSUME PoolInv, UNCHANGED <<pool, q, ai, hist>>, NEW w \in Workers, NEW u \in Wks,
         wk[w].pc \notin {"infer", "gone"}, u.pc # "infer",
         wk' = [wk EXCEPT ![w] = u]
  PROVE  PoolInv'
<1>1. /\ hist \in Hists /\ ai \in Ais /\ wk \in [Workers -> Wks] /\ pool \in Pools
      /\ Hand \in [Workers -> Items]
  BY HandType DEF PoolInv, PoolType
<1>2. /\ wk' \in [Workers -> Wks] /\ Hand' = [Hand EXCEPT ![w] = 0]
      /\ \A v \in Workers : v # w => wk'[v] = wk[v]
  BY <1>1, WorkerStep
<1>3. Hand' = Hand
  <2>1. Hand[w] = 0
    BY DEF Hand
  <2> QED
    BY <1>1, <1>2, <2>1
<1>4. Phases'
  <2>1. pool.pc \notin {"purge", "down"}
    BY DEF PoolInv, Phases
  <2> QED
    BY <2>1 DEF PoolInv, Phases
<1> QED
  BY <1>1, <1>2, <1>3, <1>4, NoJobMoves

\* A worker without a job, and one with a result.
LEMMA WkIdleKeeps ==
  ASSUME PoolInv, NEW w \in Workers, WkExit(w) \/ WkLook(w) \/ WkWait(w)
  PROVE  PoolInv'
<1>1. PICK p \in {"gone", "empty", "sleeping"} : wk' = [wk EXCEPT ![w].pc = p]
  BY DEF WkExit, WkLook, WkWait
<1>2. UNCHANGED <<pool, q, ai, hist>> /\ wk[w].pc \in {"pop", "empty"}
  BY DEF WkExit, WkLook, WkWait
<1>3. wk \in [Workers -> Wks]
  BY DEF PoolInv, PoolType
<1> DEFINE u == [wk[w] EXCEPT !.pc = p]
<1>4. u \in Wks /\ u.pc = p /\ wk' = [wk EXCEPT ![w] = u]
  BY <1>1, <1>3, WorkerAt
<1> HIDE DEF u
<1> QED
  BY <1>1, <1>2, <1>4, WorkerGoesOn

LEMMA WkResultKeeps ==
  ASSUME PoolInv, NEW w \in Workers, WkResult(w) \/ WkResultWait(w)
  PROVE  PoolInv'
<1>1. UNCHANGED <<pool, q, ai, hist>> /\ wk[w].pc \in {"result", "crowded"}
  BY DEF WkResult, WkResultWait
<1>2. wk \in [Workers -> Wks]
  BY DEF PoolInv, PoolType
<1>3. CASE wk' = [wk EXCEPT ![w] = [pc |-> "pop", job |-> 0]]
  <2> DEFINE u == [pc |-> "pop", job |-> 0]
  <2>1. u \in Wks /\ u.pc = "pop"
    BY Zero DEF Wks
  <2>2. wk' = [wk EXCEPT ![w] = u]
    BY <1>3
  <2> HIDE DEF u
  <2> QED
    BY <1>1, <2>1, <2>2, WorkerGoesOn
<1>4. ASSUME NEW p \in {"crowded", "stuck"}, wk' = [wk EXCEPT ![w].pc = p]
      PROVE  PoolInv'
  <2> DEFINE u == [wk[w] EXCEPT !.pc = p]
  <2>1. u \in Wks /\ u.pc = p /\ wk' = [wk EXCEPT ![w] = u]
    BY <1>2, <1>4, WorkerAt
  <2> HIDE DEF u
  <2> QED
    BY <1>1, <1>4, <2>1, WorkerGoesOn
<1> QED
  BY <1>3, <1>4 DEF WkResult, WkResultWait

\* A worker lets go of its job.
LEMMA WkReleaseKeeps ==
  ASSUME PoolInv, NEW w \in Workers, WkAbandon(w) \/ WkWrite(w)
  PROVE  PoolInv'
<1>1. /\ UNCHANGED <<pool, q, ai>> /\ wk[w].pc = "infer"
      /\ hist' = Released(hist, wk[w].job)
  BY DEF WkAbandon, WkWrite
<1>2. hist \in Hists /\ ai \in Ais /\ q \in Queues /\ wk \in [Workers -> Wks] /\ pool \in Pools
  BY DEF PoolInv, PoolType
<1>3. PICK u \in Wks : u.pc # "infer" /\ wk' = [wk EXCEPT ![w] = u]
  <2>1. CASE WkAbandon(w)
    <3>1. [pc |-> "pop", job |-> 0] \in Wks
      BY Zero DEF Wks
    <3> QED
      BY <2>1, <3>1 DEF WkAbandon
  <2>2. CASE WkWrite(w)
    BY <1>2, <2>2, WorkerAt DEF WkWrite
  <2> QED
    BY <2>1, <2>2
<1>4. /\ wk' \in [Workers -> Wks] /\ Hand' = [Hand EXCEPT ![w] = 0]
      /\ \A v \in Workers : v # w => wk'[v] = wk[v]
  BY <1>2, <1>3, WorkerStep
<1>5. Hand[w] = wk[w].job /\ wk[w].job \in Items /\ Hand \in [Workers -> Items]
  BY <1>1, <1>2, HandType DEF Hand, Wks
<1>6. /\ hist' \in Hists /\ hist'.made = hist.made /\ hist'.raced = hist.raced
      /\ hist'.released = Given(hist.released, Hand[w])
  BY <1>1, <1>2, <1>5, HistReleased
<1>7. PoolType'
  BY <1>1, <1>4, <1>6 DEF PoolInv, PoolType
<1>8. Phases'
  <2>1. pool.pc \notin {"purge", "down"}
    BY <1>1 DEF PoolInv, Phases
  <2> QED
    BY <1>1, <2>1 DEF PoolInv, Phases
<1>9. ASSUME ~hist.raced PROVE Ring' /\ Once'
  <2>1. Ring /\ Once
    BY <1>9 DEF PoolInv
  <2>2. Ring'
    BY <1>1, <2>1 DEF Ring, Offset
  <2>3. OnceOf(ai.job, q.cells, [Hand EXCEPT ![w] = 0], hist.made,
               Given(hist.released, Hand[w]))
    <3>1. ai.job \in Items
      BY <1>2 DEF Ais
    <3> QED
      BY <1>2, <1>5, <2>1, <3>1, DroppedByWorker, QueueFields, HistFields DEF Once
  <2> QED
    BY <1>1, <1>4, <1>6, <2>1, <2>2, <2>3 DEF Once
<1> QED
  BY <1>6, <1>7, <1>8, <1>9 DEF PoolInv

\* A worker takes the oldest job.
LEMMA WkTakeKeeps ==
  ASSUME PoolInv, NEW w \in Workers, WkTake(w)
  PROVE  PoolInv'
<1>1. /\ UNCHANGED <<pool, hist>> /\ wk[w].pc = "pop" /\ q.count > 0 /\ ai' = WakeAi(ai)
      /\ wk' = [wk EXCEPT ![w] = [pc |-> "infer", job |-> q.cells[q.head]]]
  BY DEF WkTake
<1>2. hist \in Hists /\ ai \in Ais /\ q \in Queues /\ wk \in [Workers -> Wks] /\ pool \in Pools
  BY DEF PoolInv, PoolType
<1> DEFINE h == IF q.head + 1 = Cap THEN 0 ELSE q.head + 1
           cells == [q.cells EXCEPT ![q.head] = 0]
           n == q.count - 1
           job == q.cells[q.head]
           u == [pc |-> "infer", job |-> job]
<1>3. /\ q.cells \in [Cells -> Items] /\ q.head \in Cells /\ q.tail \in Cells /\ q.count \in Nat
      /\ q.count > 0
  BY <1>1, <1>2, QueueFields
<1>4. h \in Cells /\ cells \in [Cells -> Items] /\ n \in Nat /\ (q.head + 1) % Cap = h
  <2>1. h \in Cells
    BY <1>3, PoolAssumption DEF Cells
  <2>2. cells \in [Cells -> Items]
    BY <1>3, Zero
  <2>3. n \in Nat
    BY <1>3
  <2> QED
    BY <1>3, <2>1, <2>2, <2>3, NextCell
<1>5. job \in Items
  BY <1>3
<1>6. q' = [q EXCEPT !.cells = cells, !.head = h, !.count = n]
  BY <1>4 DEF WkTake, Popped
<1> HIDE DEF h, cells, n, job
<1>7. q' \in Queues /\ q'.cells = cells /\ q'.head = h /\ q'.count = n /\ q'.tail = q.tail
  BY <1>2, <1>4, <1>6 DEF Queues
<1>8. u \in Wks /\ u.pc = "infer" /\ u.job = job /\ wk' = [wk EXCEPT ![w] = u]
  BY <1>1, <1>5 DEF Wks, job
<1> HIDE DEF u
<1>9. /\ wk' \in [Workers -> Wks] /\ Hand' = [Hand EXCEPT ![w] = job]
      /\ \A v \in Workers : v # w => wk'[v] = wk[v]
  BY <1>2, <1>8, WorkerStep
<1>10. /\ ai' \in Ais /\ ai'.job = ai.job
       /\ ai'.pc = "get" <=> ai.pc = "get"
  BY <1>1, <1>2, WokenAi
<1>11. ai'.pc = "store" <=> ai.pc = "store"
  BY <1>1, <1>2, WokenAi
<1>12. pool.pc \notin {"purge", "down"} /\ pool.at = 0
  BY <1>1 DEF PoolInv, Phases
<1>13. PoolType' /\ Phases'
  BY <1>1, <1>7, <1>9, <1>10, <1>12 DEF PoolInv, PoolType, Phases
<1>14. ASSUME ~hist.raced PROVE Ring' /\ Once'
  <2>1. Ring /\ Once
    BY <1>14 DEF PoolInv
  <2>2. ASSUME NEW i \in Cells
        PROVE  Offset(i) \in Nat /\ Offset(i) < Cap /\ (Offset(i) = 0 <=> i = q.head)
               /\ Offset(i)' = IF i = q.head THEN Cap - 1 ELSE Offset(i) - 1
    <3>1. Offset(i)' = IF h <= i THEN i - h ELSE i + Cap - h
      BY <1>7 DEF Offset
    <3>2. ASSUME NEW k \in Cells, NEW l, l = IF k + 1 = Cap THEN 0 ELSE k + 1,
                 NEW o, o = IF k <= i THEN i - k ELSE i + Cap - k
          PROVE  /\ o \in Nat /\ o < Cap /\ (o = 0 <=> i = k)
                 /\ (IF l <= i THEN i - l ELSE i + Cap - l) = IF i = k THEN Cap - 1 ELSE o - 1
      BY <3>2, PoolAssumption DEF Cells
    <3> QED
      BY <1>3, <3>1, <3>2 DEF Offset, h
  <2>3. q.count <= Cap /\ Offset(q.tail) = IF q.count = Cap THEN 0 ELSE q.count
    BY <2>1 DEF Ring
  <2>4. \A i \in Cells : q'.cells[i] # 0 <=> Offset(i)' < q'.count /\ pool'.at <= i
    <3> SUFFICES ASSUME NEW i \in Cells
                 PROVE  q'.cells[i] # 0 <=> Offset(i)' < q'.count /\ pool'.at <= i
      OBVIOUS
    <3>1. cells[i] = IF i = q.head THEN 0 ELSE q.cells[i]
      BY <1>3 DEF cells
    <3>2. q.cells[i] # 0 <=> Offset(i) < q.count
      BY <1>12, <2>1 DEF Ring, Cells
    <3>3. cells[i] # 0 <=> Offset(i)' < n
      BY <1>3, <2>2, <2>3, <3>1, <3>2, PoolAssumption DEF n
    <3>4. pool'.at <= i
      BY <1>1, <1>12 DEF Cells
    <3> QED
      BY <1>7, <3>3, <3>4
  <2>5. n <= Cap /\ Offset(q.tail)' = IF n = Cap THEN 0 ELSE n
    <3>1. Offset(q.tail)' = IF q.tail = q.head THEN Cap - 1 ELSE Offset(q.tail) - 1
      BY <1>3, <1>7, <2>2
    <3>2. Offset(q.tail) = 0 <=> q.tail = q.head
      BY <1>3, <2>2
    <3> QED
      BY <1>3, <2>3, <3>1, <3>2, PoolAssumption DEF n
  <2>6. ai'.pc = "store" => n < Cap /\ pool'.at = 0
    BY <1>1, <1>3, <1>12, <2>3, PoolAssumption DEF n
  <2>7. Ring'
    BY <1>7, <2>4, <2>5, <2>6 DEF Ring
  <2>8. OnceOf(ai.job, cells, [Hand EXCEPT ![w] = job], hist.made, hist.released)
    <3>1. ai.job \in Items /\ Hand[w] = 0 /\ Hand \in [Workers -> Items]
      BY <1>1, <1>2, HandType DEF Ais, Hand
    <3> QED
      BY <1>2, <1>3, <2>1, <3>1, TakenFromCell, HistFields DEF Once, cells, job
  <2> QED
    BY <1>1, <1>7, <1>9, <1>10, <2>1, <2>7, <2>8 DEF Once
<1> QED
  BY <1>1, <1>13, <1>14 DEF PoolInv

\* The composer moves no jobs.
LEMMA ComposerKeeps ==
  ASSUME PoolInv, CoStep
  PROVE  PoolInv'
<1>1. UNCHANGED <<pool, q, ai, hist>>
  BY DEF CoStep, CoTake, CoDraw, CoWait, CoTimeout, CoExit
<1>2. hist \in Hists /\ ai \in Ais /\ wk \in [Workers -> Wks] /\ pool \in Pools
  BY DEF PoolInv, PoolType
<1>3. /\ wk' \in [Workers -> Wks] /\ Hand' = Hand
      /\ \A w \in Workers : wk'[w].pc = "gone" <=> wk[w].pc = "gone"
  <2>1. CASE CoTake
    BY <1>2, <2>1, SignalFacts DEF CoTake
  <2>2. CASE CoDraw \/ CoWait \/ CoTimeout \/ CoExit
    BY <1>2, <2>2 DEF CoDraw, CoWait, CoTimeout, CoExit, Hand
  <2> QED
    BY <2>1, <2>2 DEF CoStep
<1>4. Phases'
  BY <1>1, <1>3 DEF PoolInv, Phases
<1> QED
  BY <1>1, <1>2, <1>3, <1>4, NoJobMoves

\* The pool goes on to its next phase.
LEMMA PhaseStep ==
  ASSUME NEW p \in Pools,
         NEW pc \in {"down", "up", "q_not_empty", "q_not_full", "r_not_full", "join", "purge"}
  PROVE  [p EXCEPT !.pc = pc] \in Pools /\ [p EXCEPT !.pc = pc].pc = pc
         /\ [p EXCEPT !.pc = pc].at = p.at /\ [p EXCEPT !.pc = pc].running = p.running
BY DEF Pools

\* The purge goes through the cells.
LEMMA PhaseAt ==
  ASSUME NEW p \in Pools, NEW d \in 0 .. Cap, NEW pc \in {"purge", "down"}
  PROVE  LET r == [p EXCEPT !.pc = pc, !.at = d]
         IN r \in Pools /\ r.at = d /\ r.running = p.running /\ r.pc = pc
BY DEF Pools

\* One that missed the wakeup.
LEMMA MissedStep ==
  ASSUME NEW h \in Hists, NEW S \in SUBSET (Workers \cup {"ai"})
  PROVE  LET g == [h EXCEPT !.missed = @ \cup S]
         IN g \in Hists /\ g.made = h.made /\ g.released = h.released /\ g.raced = h.raced
<1> DEFINE m == h.missed \cup S
<1>1. m \in SUBSET (Workers \cup {"ai"})
  BY DEF Hists
<1> HIDE DEF m
<1>2. LET g == [h EXCEPT !.missed = m]
      IN g \in Hists /\ g.made = h.made /\ g.released = h.released /\ g.raced = h.raced
  BY <1>1 DEF Hists
<1> QED
  BY <1>2 DEF m

\* The request stops the pool.
LEMMA StopKeeps ==
  ASSUME PoolInv, Stop
  PROVE  PoolInv'
<1>1. UNCHANGED <<q, ai, wk, hist>> /\ pool.pc = "up"
  BY DEF Stop
<1>2. /\ hist \in Hists /\ ai \in Ais /\ wk \in [Workers -> Wks] /\ pool \in Pools
      /\ Hand' = Hand /\ pool.at = 0
  BY <1>1 DEF PoolInv, PoolType, Hand, Phases
<1>3. pool' \in Pools /\ pool'.at = 0 /\ pool'.running = FALSE /\ pool'.pc = "q_not_empty"
  <2> DEFINE n == pool.stops + 1
  <2>1. n \in Nat /\ pool' = [pool EXCEPT !.running = FALSE, !.pc = "q_not_empty", !.stops = n]
    <3>1. pool.stops \in Nat
      BY <1>2 DEF Pools
    <3> QED
      BY <3>1 DEF Stop
  <2> HIDE DEF n
  <2>2. pool' \in Pools
    BY <1>2, <2>1 DEF Pools
  <2>3. pool'.at = pool.at /\ pool'.running = FALSE /\ pool'.pc = "q_not_empty"
    BY <1>2, <2>1 DEF Pools
  <2> QED
    BY <1>2, <2>2, <2>3
<1>4. Phases'
  BY <1>3 DEF Phases
<1> QED
  BY <1>1, <1>2, <1>3, <1>4, NoJobMoves

\* ai_stop_pool wakes the workers that wait for jobs, or for room.
LEMMA WorkersWoken ==
  ASSUME wk \in [Workers -> Wks], NEW from \in {"sleeping", "stuck"}, NEW to \in {"pop", "result"},
         wk' = [w \in Workers |-> [wk[w] EXCEPT !.pc = IF @ = from THEN to ELSE @]]
  PROVE  /\ wk' \in [Workers -> Wks] /\ Hand' = Hand
         /\ \A w \in Workers : wk'[w].pc = "gone" <=> wk[w].pc = "gone"
<1>1. ASSUME NEW w \in Workers
      PROVE  /\ wk'[w] \in Wks /\ wk'[w].job = wk[w].job
             /\ wk'[w].pc = IF wk[w].pc = from THEN to ELSE wk[w].pc
  BY DEF Wks
<1>2. \A w \in Workers : /\ wk'[w].pc = "infer" <=> wk[w].pc = "infer"
                         /\ wk'[w].pc = "gone" <=> wk[w].pc = "gone"
                         /\ wk'[w].job = wk[w].job
  BY <1>1
<1>3. wk' \in [Workers -> Wks]
  BY <1>1
<1>4. Hand' = Hand
  BY <1>2 DEF Hand
<1> QED
  BY <1>2, <1>3, <1>4

\* The request wakes whoever waits, and joins the workers.
LEMMA WakeIdleKeeps ==
  ASSUME PoolInv, WakeIdle
  PROVE  PoolInv'
<1>1. UNCHANGED <<q, ai>> /\ pool.pc = "q_not_empty" /\ pool' = [pool EXCEPT !.pc = "q_not_full"]
  BY DEF WakeIdle
<1>2. hist \in Hists /\ ai \in Ais /\ wk \in [Workers -> Wks] /\ pool \in Pools
  BY DEF PoolInv, PoolType
<1>3. wk' \in [Workers -> Wks] /\ Hand' = Hand
  BY <1>2, WorkersWoken DEF WakeIdle
<1>4. hist' \in Hists /\ hist'.made = hist.made /\ hist'.released = hist.released
      /\ hist'.raced = hist.raced
  <2> DEFINE S == {w \in Workers : wk[w].pc = "empty"}
  <2>1. S \in SUBSET (Workers \cup {"ai"}) /\ hist' = [hist EXCEPT !.missed = @ \cup S]
    BY DEF WakeIdle
  <2> HIDE DEF S
  <2> QED
    BY <1>2, <2>1, MissedStep
<1>5. pool' \in Pools /\ pool'.at = pool.at /\ pool'.running = pool.running
      /\ pool'.pc = "q_not_full"
  BY <1>1, <1>2, PhaseStep
<1>6. Phases'
  BY <1>1, <1>5 DEF PoolInv, Phases
<1> QED
  BY <1>1, <1>2, <1>3, <1>4, <1>5, <1>6, NoJobMoves

LEMMA WakePusherKeeps ==
  ASSUME PoolInv, WakePusher
  PROVE  PoolInv'
<1>1. UNCHANGED <<q, wk>> /\ pool.pc = "q_not_full" /\ pool' = [pool EXCEPT !.pc = "r_not_full"]
      /\ ai' = WakeAi(ai)
  BY DEF WakePusher
<1>2. /\ hist \in Hists /\ ai \in Ais /\ wk \in [Workers -> Wks] /\ pool \in Pools
      /\ Hand' = Hand
  BY <1>1 DEF PoolInv, PoolType, Hand
<1>3. hist' \in Hists /\ hist'.made = hist.made /\ hist'.released = hist.released
      /\ hist'.raced = hist.raced
  <2> DEFINE S == {t \in {"ai"} : ai.pc = "full"}
  <2>1. S \in SUBSET (Workers \cup {"ai"}) /\ hist' = [hist EXCEPT !.missed = @ \cup S]
    BY DEF WakePusher
  <2> HIDE DEF S
  <2> QED
    BY <1>2, <2>1, MissedStep
<1>4. pool' \in Pools /\ pool'.at = pool.at /\ pool'.running = pool.running
      /\ pool'.pc = "r_not_full"
  BY <1>1, <1>2, PhaseStep
<1>5. Phases'
  BY <1>1, <1>4 DEF PoolInv, Phases
<1>6. /\ ai' \in Ais /\ ai'.job = ai.job
      /\ ai'.pc = "get" <=> ai.pc = "get"
      /\ ai'.pc = "store" <=> ai.pc = "store"
  BY <1>1, <1>2, WokenAi
<1> QED
  BY <1>1, <1>2, <1>3, <1>4, <1>5, <1>6, NoJobMoves

LEMMA WakeCrowdedKeeps ==
  ASSUME PoolInv, WakeCrowded
  PROVE  PoolInv'
<1>1. UNCHANGED <<q, ai>> /\ pool.pc = "r_not_full" /\ pool' = [pool EXCEPT !.pc = "join"]
  BY DEF WakeCrowded
<1>2. hist \in Hists /\ ai \in Ais /\ wk \in [Workers -> Wks] /\ pool \in Pools
  BY DEF PoolInv, PoolType
<1>3. wk' \in [Workers -> Wks] /\ Hand' = Hand
  BY <1>2, WorkersWoken DEF WakeCrowded
<1>4. hist' \in Hists /\ hist'.made = hist.made /\ hist'.released = hist.released
      /\ hist'.raced = hist.raced
  <2> DEFINE S == {w \in Workers : wk[w].pc = "crowded"}
  <2>1. S \in SUBSET (Workers \cup {"ai"}) /\ hist' = [hist EXCEPT !.missed = @ \cup S]
    BY DEF WakeCrowded
  <2> HIDE DEF S
  <2> QED
    BY <1>2, <2>1, MissedStep
<1>5. pool' \in Pools /\ pool'.at = pool.at /\ pool'.running = pool.running
      /\ pool'.pc = "join"
  BY <1>1, <1>2, PhaseStep
<1>6. Phases'
  BY <1>1, <1>5 DEF PoolInv, Phases
<1> QED
  BY <1>1, <1>2, <1>3, <1>4, <1>5, <1>6, NoJobMoves

LEMMA JoinKeeps ==
  ASSUME PoolInv, Join
  PROVE  PoolInv'
<1>1. /\ UNCHANGED <<q, ai, wk, hist>> /\ pool.pc = "join"
      /\ pool' = [pool EXCEPT !.pc = "purge", !.at = 0]
      /\ \A w \in Workers : wk[w].pc = "gone"
  BY DEF Join
<1>2. /\ hist \in Hists /\ ai \in Ais /\ wk \in [Workers -> Wks] /\ pool \in Pools
      /\ Hand' = Hand /\ pool.at = 0 /\ ~pool.running
  BY <1>1 DEF PoolInv, PoolType, Hand, Phases
<1>3. pool' \in Pools /\ pool'.at = 0 /\ pool'.running = pool.running /\ pool'.pc = "purge"
  <2> DEFINE d == 0
  <2>1. d \in 0 .. Cap
    BY PoolAssumption
  <2>2. pool \in Pools /\ pool' = [pool EXCEPT !.pc = "purge", !.at = d]
    BY <1>1, <1>2
  <2> HIDE DEF d
  <2>3. pool' \in Pools /\ pool'.at = d /\ pool'.running = pool.running /\ pool'.pc = "purge"
    BY <2>1, <2>2, PhaseAt
  <2> QED
    BY <2>3 DEF d
<1>5. Phases'
  BY <1>1, <1>2, <1>3 DEF Phases
<1> QED
  BY <1>1, <1>2, <1>3, <1>5, NoJobMoves

\* The purge releases the job in each cell; no push is about to store, or the race
\* is noted.
LEMMA PurgeKeeps ==
  ASSUME PoolInv, Purge
  PROVE  PoolInv'
<1>1. UNCHANGED <<ai, wk>> /\ pool.pc = "purge" /\ pool.at < Cap
  BY DEF Purge
<1>2. /\ hist \in Hists /\ ai \in Ais /\ q \in Queues /\ wk \in [Workers -> Wks] /\ pool \in Pools
      /\ Hand' = Hand /\ Hand \in [Workers -> Items]
  BY <1>1, HandType DEF PoolInv, PoolType, Hand
<1> DEFINE c == pool.at
           cells == [q.cells EXCEPT ![c] = 0]
           d == c + 1
           h == Released(hist, q.cells[c])
           r == hist.raced \/ ai.pc = "store"
<1>3. c \in Cells /\ d \in 0 .. Cap /\ d \in Nat /\ q.cells \in [Cells -> Items] /\ q.cells[c] \in Items
  <2>1. pool.at \in 0 .. Cap /\ q.cells \in [Cells -> Items]
    BY <1>2, PoolFields, QueueFields
  <2>2. c \in Cells /\ d \in 0 .. Cap /\ d \in Nat
    BY <1>1, <2>1, PoolAssumption DEF Cells
  <2> QED
    BY <2>1, <2>2
<1>4. /\ h \in Hists /\ h.made = hist.made /\ h.raced = hist.raced
      /\ h.released = Given(hist.released, q.cells[c])
  BY <1>2, <1>3, HistReleased
<1>5. hist' = [h EXCEPT !.raced = r]
  BY <1>4 DEF Purge
<1>6. cells \in [Cells -> Items] /\ q' = [q EXCEPT !.cells = cells] /\ r \in BOOLEAN
      /\ pool' = [pool EXCEPT !.at = d]
  <2>1. cells \in [Cells -> Items]
    BY <1>3, Zero
  <2>2. r \in BOOLEAN
    BY <1>2, HistFields
  <2> QED
    BY <2>1, <2>2 DEF Purge
<1> HIDE DEF c, cells, d, h, r
<1>7. hist' \in Hists /\ hist'.raced = r /\ hist'.made = h.made /\ hist'.released = h.released
  BY <1>4, <1>5, <1>6 DEF Hists
<1>8. q' \in Queues /\ q'.cells = cells /\ q'.head = q.head /\ q'.tail = q.tail
      /\ q'.count = q.count
  BY <1>2, <1>6 DEF Queues
<1>9. pool' \in Pools /\ pool'.at = d /\ pool'.pc = pool.pc /\ pool'.running = pool.running
  BY <1>2, <1>3, <1>6 DEF Pools
<1>10. PoolType' /\ Phases'
  BY <1>1, <1>2, <1>7, <1>8, <1>9 DEF PoolInv, PoolType, Phases
<1>11. ASSUME ~r PROVE Ring' /\ Once'
  <2>1. Ring /\ Once /\ ai.pc # "store"
    BY <1>11 DEF PoolInv, r
  <2>2. ASSUME NEW i \in Cells
        PROVE  cells[i] # 0 <=> Offset(i) < q.count /\ d <= i
    <3>1. q.cells[i] # 0 <=> Offset(i) < q.count /\ c <= i
      BY <2>1 DEF Ring, c
    <3>2. cells[i] = IF i = c THEN 0 ELSE q.cells[i]
      BY <1>3 DEF cells
    <3>3. d <= i <=> c <= i /\ i # c
      BY <1>3 DEF Cells, d
    <3> QED
      BY <3>1, <3>2, <3>3
  <2>3. \A i : Offset(i)' = Offset(i)
    BY <1>8 DEF Offset
  <2>4. \A i \in Cells : q'.cells[i] # 0 <=> Offset(i)' < q'.count /\ pool'.at <= i
    BY <1>8, <1>9, <2>2, <2>3
  <2>5. q'.count <= Cap /\ Offset(q.tail)' = IF q'.count = Cap THEN 0 ELSE q'.count
    BY <1>8, <2>1, <2>3 DEF Ring, Offset
  <2>6. Ring'
    BY <1>1, <2>1, <2>4, <2>5 DEF Ring
  <2>7. OnceOf(ai.job, cells, Hand, hist.made, Given(hist.released, q.cells[c]))
    <3>1. ai.job \in Items
      BY <1>2 DEF Ais
    <3> QED
      BY <1>2, <1>3, <2>1, <3>1, DroppedFromCell, HistFields DEF Once, cells
  <2> QED
    BY <1>1, <1>2, <1>4, <1>7, <1>8, <2>1, <2>6, <2>7 DEF Once
<1> QED
  BY <1>7, <1>10, <1>11 DEF PoolInv

\* The purged queue is empty.
LEMMA DownKeeps ==
  ASSUME PoolInv, Down
  PROVE  PoolInv'
<1>1. UNCHANGED <<ai, wk>> /\ pool.pc = "purge" /\ pool.at = Cap
      /\ q' = [q EXCEPT !.head = 0, !.tail = 0, !.count = 0]
      /\ pool' = [pool EXCEPT !.pc = "down", !.at = 0]
  BY DEF Down
<1>2. /\ hist \in Hists /\ ai \in Ais /\ q \in Queues /\ wk \in [Workers -> Wks] /\ pool \in Pools
      /\ Hand' = Hand
  BY <1>1 DEF PoolInv, PoolType, Hand
<1>3. q' \in Queues
  BY <1>1, <1>2, Zero DEF Queues
<1>4. q'.cells = q.cells /\ q'.head = 0 /\ q'.tail = 0 /\ q'.count = 0
  BY <1>1, <1>2 DEF Queues
<1>6. pool' \in Pools /\ pool'.at = 0 /\ pool'.pc = "down" /\ pool'.running = pool.running
  <2>1. 0 \in 0 .. Cap
    BY PoolAssumption
  <2> QED
    BY <1>1, <1>2, <2>1, PhaseAt
<1> DEFINE r == hist.raced \/ ai.pc = "store"
<1>7. hist' \in Hists /\ hist'.raced = r /\ hist'.made = hist.made
      /\ hist'.released = hist.released
  <2>1. r \in BOOLEAN /\ hist' = [hist EXCEPT !.raced = r]
    BY <1>2, HistFields DEF Down
  <2> HIDE DEF r
  <2> QED
    BY <1>2, <2>1 DEF Hists
<1>8. PoolType' /\ Phases'
  BY <1>1, <1>2, <1>3, <1>6, <1>7 DEF PoolInv, PoolType, Phases
<1>9. ASSUME ~r PROVE Ring' /\ Once'
  <2>1. Ring /\ Once /\ ai.pc # "store"
    BY <1>9 DEF PoolInv
  <2>2. \A i \in Cells : q.cells[i] = 0
    BY <1>1, <2>1, PoolAssumption DEF Ring, Cells
  <2>3. \A i \in Cells : Offset(i)' = i
    BY <1>4 DEF Offset, Cells
  <2>4. Ring'
    <3>1. q'.count <= Cap /\ Offset(q.tail)' = IF q'.count = Cap THEN 0 ELSE q'.count
      BY <1>4, PoolAssumption DEF Offset
    <3>2. \A i \in Cells : q'.cells[i] # 0 <=> Offset(i)' < q'.count /\ pool'.at <= i
      BY <1>4, <2>2, <2>3 DEF Cells
    <3> QED
      BY <1>1, <2>1, <3>1, <3>2 DEF Ring
  <2> QED
    BY <1>1, <1>2, <1>4, <1>7, <2>1, <2>4 DEF Once
<1> QED
  BY <1>7, <1>8, <1>9 DEF PoolInv

\* The pool is started, with the workers that could be created.
LEMMA StartKeeps ==
  ASSUME PoolInv, NEW W \in SUBSET Workers, NEW c \in BOOLEAN, Start(W, c)
  PROVE  PoolInv'
<1>1. UNCHANGED <<q, ai, hist>> /\ pool.pc = "down"
  BY DEF Start
<1>2. /\ hist \in Hists /\ ai \in Ais /\ wk \in [Workers -> Wks] /\ pool \in Pools
      /\ pool.at = 0 /\ \A w \in Workers : wk[w].pc = "gone"
  BY <1>1 DEF PoolInv, PoolType, Phases
<1>3. \A w \in Workers : /\ wk'[w] \in Wks
                         /\ wk'[w].pc # "infer"
  BY <1>2 DEF Start, Wks
<1>4. wk' \in [Workers -> Wks]
  BY <1>3 DEF Start
<1>5. Hand' = Hand
  BY <1>2, <1>3 DEF Hand
<1>6. pool' \in Pools /\ pool'.at = 0 /\ pool'.running = TRUE /\ pool'.pc = "up"
  <2> DEFINE T == W \cup {t \in {"composer"} : c}
  <2>1. T \in SUBSET (Workers \cup {"composer"})
        /\ pool' = [pool EXCEPT !.running = TRUE, !.pc = "up", !.created = T]
    BY DEF Start
  <2> HIDE DEF T
  <2>2. pool' \in Pools
    BY <1>2, <2>1 DEF Pools
  <2>3. pool'.at = pool.at /\ pool'.running = TRUE /\ pool'.pc = "up"
    BY <1>2, <2>1 DEF Pools
  <2> QED
    BY <1>2, <2>2, <2>3
<1>7. Phases'
  BY <1>6 DEF Phases
<1> QED
  BY <1>1, <1>2, <1>4, <1>5, <1>6, <1>7, NoJobMoves

\* The camera restarts; nobody moves.
LEMMA NobodyKeeps ==
  ASSUME PoolInv, Quiet \/ UNCHANGED vars
  PROVE  PoolInv'
<1>1. UNCHANGED <<pool, q, ai, wk, hist>>
  BY DEF Quiet, vars
<1>2. /\ hist \in Hists /\ ai \in Ais /\ wk \in [Workers -> Wks] /\ pool \in Pools
      /\ Hand' = Hand /\ Phases'
  BY <1>1 DEF PoolInv, PoolType, Hand, Phases
<1> QED
  BY <1>1, <1>2, NoJobMoves

\* The pool is down at first.
LEMMA InitHolds ==
  ASSUME Init
  PROVE  PoolInv
<1>1. pool \in Pools /\ pool.at = 0 /\ pool.pc = "down" /\ ~pool.running
  BY PoolAssumption DEF Init, Pools
<1>2. /\ q \in Queues /\ q.head = 0 /\ q.tail = 0 /\ q.count = 0
      /\ \A i \in Cells : q.cells[i] = 0
  BY Zero DEF Init, EmptyQueue, Queues
<1>3. ai \in Ais /\ ai.pc = "get" /\ ai.job = 0
  BY Zero DEF Init, Ais
<1>4. wk \in [Workers -> Wks] /\ \A w \in Workers : wk[w].pc = "gone"
  <2>1. [pc |-> "gone", job |-> 0] \in Wks
    BY Zero DEF Wks
  <2> QED
    BY <2>1 DEF Init
<1>5. hist \in Hists /\ hist.made = 0 /\ \A j \in Jobs : hist.released[j] = 0
  BY Zero DEF Init, Hists
<1>6. PoolType /\ Phases
  BY <1>1, <1>2, <1>3, <1>4, <1>5 DEF PoolType, Phases
<1>7. Ring
  <2>1. \A i \in Cells : Offset(i) = i
    BY <1>2 DEF Offset, Cells
  <2>2. \A i \in Cells : q.cells[i] # 0 <=> Offset(i) < q.count /\ pool.at <= i
    BY <1>2, <2>1 DEF Cells
  <2>3. q.count <= Cap /\ Offset(q.tail) = IF q.count = Cap THEN 0 ELSE q.count
    BY <1>2, PoolAssumption DEF Offset
  <2> QED
    BY <1>3, <2>2, <2>3 DEF Ring
<1>8. Once
  <2>1. \A w \in Workers : Hand[w] = 0
    BY <1>4 DEF Hand
  <2>2. \A j \in Jobs : ~Kept(j, ai.job, q.cells, Hand) /\ j > 0
    BY <1>2, <1>3, <2>1, PoolAssumption DEF Kept, Jobs
  <2>3. \A j \in Jobs : Apart(j, ai.job, q.cells, Hand)
    BY <1>2, <1>3, <2>1, <2>2 DEF Apart
  <2>4. \A j \in Jobs : ~(j <= hist.made)
    BY <1>5, PoolAssumption DEF Jobs
  <2> QED
    BY <1>3, <1>5, <2>2, <2>3, <2>4 DEF Once, OnceOf
<1> QED
  BY <1>6, <1>7, <1>8 DEF PoolInv

\* The inductive invariant of the pool holds for any number of workers, any length of
\* the queues (AI_QUEUE_CAP, AI_RESULT_CAP), and any number of frames and reloads.
THEOREM PoolCorrect == Spec => []PoolInv
<1>1. Init => PoolInv
  BY InitHolds
<1>2. ASSUME PoolInv, [Next]_vars PROVE PoolInv'
  <2>1. CASE AiStep
    BY <1>2, <2>1, AiGetKeeps, AiLookKeeps, AiWaitKeeps, AiStoreKeeps DEF AiStep
  <2>2. ASSUME NEW w \in Workers, WkStep(w) PROVE PoolInv'
    BY <1>2, <2>2, WkIdleKeeps, WkTakeKeeps, WkReleaseKeeps, WkResultKeeps DEF WkStep
  <2>3. CASE StopStep
    BY <1>2, <2>3, WakeIdleKeeps, WakePusherKeeps, WakeCrowdedKeeps, JoinKeeps, PurgeKeeps, DownKeeps
    DEF StopStep
  <2> QED
    BY <1>2, <2>1, <2>2, <2>3, ComposerKeeps, StopKeeps, StartKeeps, NobodyKeeps DEF Next
<1> QED
  BY <1>1, <1>2, PTL DEF Spec

\* A job's buffer and claim are in one place until they are given back, once: in a
\* cell of the queue, in the AI task's hand or in a worker's (yolo_queue_push,
\* yolo_queue_pop, ai_stop_pool); but for the push that stores during the purge.
THEOREM JobsOnceCorrect == Spec => []JobsOnce
<1>1. ASSUME PoolInv, ~hist.raced, NEW j \in 1 .. hist.made
      PROVE  Cardinality(Holders(j)) + hist.released[j] = 1
  <2>1. Ring /\ Once /\ hist \in Hists /\ q \in Queues /\ wk \in [Workers -> Wks]
    BY <1>1 DEF PoolInv, PoolType
  <2>2. j \in Jobs /\ j # 0 /\ j <= hist.made
    <3>1. hist.made \in Nat /\ hist.made <= MaxJobs
      BY <2>1, HistFields, PoolAssumption DEF Items
    <3> QED
      BY <1>1, <3>1, PoolAssumption DEF Jobs
  <2>3. /\ hist.released[j] = IF Kept(j, ai.job, q.cells, Hand) THEN 0 ELSE 1
        /\ Apart(j, ai.job, q.cells, Hand)
    BY <2>1, <2>2 DEF Once, OnceOf
  <2>4. \A w \in Workers : Hand[w] = j <=> wk[w].pc = "infer" /\ wk[w].job = j
    BY <2>2 DEF Hand
  <2>5. /\ \A i \in Cells : <<"cell", i>> \in Holders(j) <=> q.cells[i] = j
        /\ \A w \in Workers : <<"worker", w>> \in Holders(j) <=> Hand[w] = j
        /\ <<"ai", 0>> \in Holders(j) <=> ai.job = j
        /\ \A p \in Holders(j) : \/ \E i \in Cells : p = <<"cell", i>>
                                 \/ \E w \in Workers : p = <<"worker", w>>
                                 \/ p = <<"ai", 0>>
    BY <2>4 DEF Holders
  <2>6. CASE Kept(j, ai.job, q.cells, Hand)
    <3>1. PICK p \in Holders(j) : TRUE
      BY <2>5, <2>6 DEF Kept
    <3>2. Holders(j) = {p}
      BY <2>3, <2>5, <3>1 DEF Apart
    <3> QED
      BY <2>3, <2>6, <3>2, FS_Singleton
  <2>7. CASE ~Kept(j, ai.job, q.cells, Hand)
    <3>1. Holders(j) = {}
      BY <2>5, <2>7 DEF Kept
    <3> QED
      BY <2>3, <2>7, <3>1, FS_EmptySet
  <2> QED
    BY <2>6, <2>7
<1>2. PoolInv => JobsOnce
  BY <1>1 DEF JobsOnce
<1> QED
  BY <1>2, PoolCorrect, PTL
=============================================================================
