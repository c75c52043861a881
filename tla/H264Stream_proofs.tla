-------------------------- MODULE H264Stream_proofs --------------------------
(***************************************************************************)
(* What the live stream guarantees for every size of the ring, and every   *)
(* number of clients, frames and sessions.                                 *)
(***************************************************************************)
EXTENDS H264Stream, TLAPS

-----------------------------------------------------------------------------
(* Arithmetic of the ring *)

LEMMA Modulo == \A d \in Nat, m \in Cells : (RingN * d + m) % RingN = m
  BY RingNAssumption DEF Cells

\* A cell is found by at most one turn around the ring.
LEMMA CellValue ==
  ASSUME NEW h \in Cells, NEW i \in 0 .. RingN
  PROVE  (h + i) % RingN = IF h + i < RingN THEN h + i ELSE h + i - RingN
<1>1. CASE h + i < RingN
  <2>1. h + i \in Cells /\ h + i = RingN * 0 + (h + i)
    BY <1>1, RingNAssumption DEF Cells
  <2> QED BY <2>1, <1>1, Modulo
<1>2. CASE ~(h + i < RingN)
  <2>1. h + i - RingN \in 0 .. RingN
    BY <1>2, RingNAssumption DEF Cells
  <2>2. h + i - RingN \in Cells /\ h + i = RingN * 1 + (h + i - RingN)
    BY <1>2, RingNAssumption DEF Cells
  <2>3. (RingN * 1 + (h + i - RingN)) % RingN = h + i - RingN
    BY <2>2, Modulo
  <2> QED BY <2>2, <2>3, <1>2
<1> QED BY <1>1, <1>2

LEMMA CellType ==
  ASSUME NEW h \in Cells, NEW i \in 0 .. RingN
  PROVE  (h + i) % RingN \in Cells
  BY CellValue, RingNAssumption DEF Cells

\* Different places of the ring are different cells.
LEMMA CellUnique ==
  ASSUME NEW h \in Cells, NEW i \in 0 .. RingN - 1, NEW j \in 0 .. RingN - 1,
         (h + i) % RingN = (h + j) % RingN
  PROVE  i = j
<1>1. i \in 0 .. RingN /\ j \in 0 .. RingN
  BY RingNAssumption
<1>2. /\ (h + i) % RingN = IF h + i < RingN THEN h + i ELSE h + i - RingN
      /\ (h + j) % RingN = IF h + j < RingN THEN h + j ELSE h + j - RingN
  BY <1>1, CellValue
<1> QED BY <1>2, RingNAssumption DEF Cells

\* Moving the head on by one moves every place back by one.
LEMMA CellShift ==
  ASSUME NEW h \in Cells, NEW i \in 0 .. RingN - 1
  PROVE  (((h + 1) % RingN) + i) % RingN = (h + (i + 1)) % RingN
<1>1. 1 \in 0 .. RingN /\ i \in 0 .. RingN /\ i + 1 \in 0 .. RingN
  BY RingNAssumption
<1>2. (h + 1) % RingN = IF h + 1 < RingN THEN h + 1 ELSE h + 1 - RingN
  BY <1>1, CellValue
<1>3. (h + 1) % RingN \in Cells
  BY <1>1, CellType
<1>4. /\ (((h + 1) % RingN) + i) % RingN
           = IF ((h + 1) % RingN) + i < RingN THEN ((h + 1) % RingN) + i
                                              ELSE ((h + 1) % RingN) + i - RingN
      /\ (h + (i + 1)) % RingN
           = IF h + (i + 1) < RingN THEN h + (i + 1) ELSE h + (i + 1) - RingN
  BY <1>1, <1>3, CellValue
<1> QED BY <1>1, <1>2, <1>4, RingNAssumption DEF Cells

-----------------------------------------------------------------------------
(* Types *)

LEMMA CellsType == 0 \in Cells /\ Freed \in Entry
  BY RingNAssumption, StreamBoundAssumption DEF Cells, Freed, Entry

LEMMA EmptiedType ==
  ASSUME NEW s \in StreamType
  PROVE  Emptied(s) \in StreamType
<1>1. (s.head + s.count) % RingN \in Cells
  BY CellType DEF StreamType
<1>2. [i \in Cells |-> Freed] \in [Cells -> Entry] /\ 0 \in 0 .. RingN
  BY CellsType, RingNAssumption
<1> QED BY <1>1, <1>2 DEF Emptied, StreamType

LEMMA EvictedType ==
  ASSUME NEW s \in StreamType
  PROVE  Evicted(s) \in StreamType /\ Evicted(s).count < RingN
<1>1. CASE s.count = RingN
  <2>1. 1 \in 0 .. RingN /\ s.count - 1 \in 0 .. RingN
    BY <1>1, RingNAssumption
  <2>2. (s.head + 1) % RingN \in Cells
    BY <2>1, CellType DEF StreamType
  <2>3. [s.buf EXCEPT ![s.head] = Freed] \in [Cells -> Entry]
    BY CellsType DEF StreamType
  <2>4. Evicted(s) = [s EXCEPT !.buf[s.head] = Freed, !.head = (@ + 1) % RingN,
                               !.count = @ - 1]
    BY <1>1 DEF Evicted
  <2>5. Evicted(s) \in StreamType
    BY <2>1, <2>2, <2>3, <2>4 DEF StreamType
  <2>6. Evicted(s).count = s.count - 1
    BY <2>4 DEF StreamType
  <2> QED BY <1>1, <2>5, <2>6, RingNAssumption
<1>2. CASE s.count # RingN
  BY <1>2, RingNAssumption DEF Evicted, StreamType
<1> QED BY <1>1, <1>2

LEMMA CollectedType ==
  ASSUME NEW s \in StreamType, enc \in EncoderType, NEW found \in BOOLEAN
  PROVE  Collected(s, found) \in StreamType
  BY DEF Collected, StreamType, EncoderType

LEMMA AppendedType ==
  ASSUME NEW s \in StreamType, s.count < RingN, NEW f \in Entry
  PROVE  Appended(s, f) \in StreamType
<1>1. s.count \in 0 .. RingN /\ s.count + 1 \in 0 .. RingN /\ s.next + 1 \in Nat
  BY RingNAssumption DEF StreamType
<1>2. Cell(s, s.count) \in Cells
  BY <1>1, CellType DEF Cell, StreamType
<1> QED BY <1>1, <1>2 DEF Appended, StreamType

LEMMA AtType ==
  ASSUME NEW s \in StreamType, NEW i \in 0 .. s.count - 1
  PROVE  At(s, i) \in Entry
<1>1. i \in 0 .. RingN
  BY RingNAssumption DEF StreamType
<1> QED BY <1>1, CellType DEF At, Cell, StreamType

\* Every reachable state of the stream and its clients is well typed.
THEOREM TypeCorrect == Spec => []TypeOK
<1>1. Init => TypeOK
  BY CellsType, StreamBoundAssumption, RingNAssumption
     DEF Init, TypeOK, StreamType, EncoderType, ClientType, NewClient, Entry
<1>2. TypeOK /\ [Next]_vars => TypeOK'
  <2> SUFFICES ASSUME TypeOK, [Next]_vars
               PROVE  TypeOK'
    OBVIOUS
  <2> USE DEF TypeOK
  <2>1. ASSUME NEW known \in BOOLEAN, PushConfig(known)
        PROVE  TypeOK'
    <3>1. Emptied(st) \in StreamType /\ enc.session + 1 \in 0 .. MaxSessions
      BY <2>1, EmptiedType, StreamBoundAssumption DEF PushConfig, EncoderType
    <3>2. Emptied(st).epoch + 1 \in Nat /\ 0 \in 0 .. MaxSessions
      BY <3>1, StreamBoundAssumption DEF StreamType
    <3>3. st' \in StreamType
      BY <2>1, <3>1, <3>2 DEF PushConfig, StreamType
    <3> QED BY <2>1, <3>1, <3>3 DEF PushConfig, EncoderType
  <2>2. CASE RecordingOpened \/ RecordingFailed
    BY <2>2 DEF RecordingOpened, RecordingFailed, EncoderType
  <2>3. ASSUME NEW key \in BOOLEAN, NEW pic \in BOOLEAN, NEW found \in BOOLEAN,
               PushFrame(key, pic, found)
        PROVE  TypeOK'
    <3> DEFINE s == Evicted(Collected(st, found))
               n == enc.made + 1
               f == [seq |-> st.next, no |-> n, key |-> key, pic |-> pic,
                     session |-> enc.session]
    <3>1. s \in StreamType /\ s.count < RingN
      BY CollectedType, EvictedType
    <3>2. n \in 0 .. MaxFrames /\ n \in 1 .. MaxFrames
      BY <2>3, StreamBoundAssumption DEF PushFrame, EncoderType
    <3>3. f \in Entry
      BY <3>2 DEF Entry, EncoderType, StreamType
    <3>4. Appended(s, f) \in StreamType
      BY <3>1, <3>3, AppendedType
    <3>5. st' \in {s, Appended(s, f)} /\ cl' = cl
      BY <2>3 DEF PushFrame
    <3>6. \E g \in SUBSET (1 .. MaxFrames) : enc' = [enc EXCEPT !.made = n, !.gaps = g]
      <4>1. enc.gaps \cup {n} \in SUBSET (1 .. MaxFrames) /\ enc.gaps \in SUBSET (1 .. MaxFrames)
        BY <3>2 DEF EncoderType
      <4>2. enc' \in {[enc EXCEPT !.made = n, !.gaps = IF pic THEN enc.gaps ELSE enc.gaps \cup {n}],
                      [enc EXCEPT !.made = n, !.gaps = enc.gaps \cup {n}]}
        BY <2>3 DEF PushFrame
      <4> HIDE DEF n
      <4> QED BY <4>1, <4>2
    <3> HIDE DEF s, f, n
    <3>7. enc' \in EncoderType
      BY <3>2, <3>6 DEF EncoderType
    <3> QED BY <3>1, <3>4, <3>5, <3>7
  <2>4. CASE PushRefused
    <3>1. enc.made + 1 \in 0 .. MaxFrames /\ enc.made + 1 \in 1 .. MaxFrames
      BY <2>4, StreamBoundAssumption DEF PushRefused, EncoderType
    <3>2. enc.gaps \cup {enc.made + 1} \in SUBSET (1 .. MaxFrames)
      BY <3>1 DEF EncoderType
    <3> QED BY <2>4, <3>1, <3>2 DEF PushRefused, EncoderType
  <2>5. CASE PushEnd
    <3>1. Emptied(st) \in StreamType
      BY EmptiedType
    <3> QED BY <2>5, <3>1 DEF PushEnd, StreamType, EncoderType
  <2>6. CASE Shutdown
    BY <2>6 DEF Shutdown, StreamType
  <2>7. ASSUME NEW c \in Clients, Start(c)
        PROVE  TypeOK'
    <3>1. cl[c].joins + 1 \in 0 .. MaxJoins
      BY <2>7, StreamBoundAssumption DEF Start, ClientType
    <3>2. NewClient \in ClientType
      BY CellsType, StreamBoundAssumption DEF NewClient, ClientType
    <3>3. [NewClient EXCEPT !.pc = "config", !.joins = cl[c].joins + 1] \in ClientType
      BY <3>1, <3>2 DEF ClientType
    <3> QED BY <2>7, <3>3 DEF Start
  <2>8. ASSUME NEW c \in Clients, GetConfig(c) \/ GiveUp(c) \/ Header(c) \/ Leave(c)
                                    \/ WriteFailed(c) \/ PeerGone(c) \/ Skip(c)
        PROVE  TypeOK'
    <3> DEFINE k == cl[c]
    <3>1. k \in ClientType /\ k.expected + 1 \in Nat /\ st.epoch \in Nat
          /\ st.params \in 0 .. MaxSessions
      BY DEF ClientType, StreamType
    <3>2. UNCHANGED <<st, enc>>
      BY <2>8 DEF GetConfig, GiveUp, Header, Leave, WriteFailed, PeerGone, Skip
    <3>3. cl' \in {[cl EXCEPT ![c] = x] : x \in
            {[k EXCEPT !.pc = "join", !.epoch = st.epoch, !.init = st.params],
             [k EXCEPT !.pc = "gone"], [k EXCEPT !.pc = "loop"],
             [k EXCEPT !.pc = "gone", !.hand = Freed],
             [k EXCEPT !.expected = @ + 1]}}
      BY <2>8 DEF GetConfig, GiveUp, Header, Leave, WriteFailed, PeerGone, Skip
    <3> HIDE DEF k
    <3>4. /\ [k EXCEPT !.pc = "join", !.epoch = st.epoch, !.init = st.params] \in ClientType
          /\ [k EXCEPT !.pc = "gone"] \in ClientType /\ [k EXCEPT !.pc = "loop"] \in ClientType
          /\ [k EXCEPT !.pc = "gone", !.hand = Freed] \in ClientType
          /\ [k EXCEPT !.expected = @ + 1] \in ClientType
      BY <3>1, CellsType DEF ClientType
    <3>5. cl' \in [Clients -> ClientType]
      BY <3>3, <3>4
    <3> QED BY <3>2, <3>5
  <2>9. ASSUME NEW c \in Clients, Join(c)
        PROVE  TypeOK'
    <3>1. PICK f \in Frames(st) :
            cl' = [cl EXCEPT ![c].pc = "header", ![c].expected = f.seq]
      BY <2>9 DEF Join
    <3>2. f.seq \in Nat
      BY <3>1, AtType DEF Frames, Entry
    <3>3. [cl[c] EXCEPT !.pc = "header", !.expected = f.seq] \in ClientType
      BY <3>2 DEF ClientType
    <3>4. cl' = [cl EXCEPT ![c] = [cl[c] EXCEPT !.pc = "header", !.expected = f.seq]]
      BY <3>1
    <3> QED BY <2>9, <3>3, <3>4 DEF Join
  <2>10. ASSUME NEW c \in Clients, Take(c)
         PROVE  TypeOK'
    <3>1. cl[c].expected - Oldest(st) \in 0 .. st.count - 1
      BY <2>10 DEF Take, Ready, Oldest, StreamType, ClientType
    <3>2. Wanted(c) \in Entry
      BY <3>1, AtType DEF Wanted
    <3> QED BY <2>10, <3>2 DEF Take, ClientType
  <2>11. ASSUME NEW c \in Clients, Write(c)
         PROVE  TypeOK'
    <3>1. cl[c].got \in Seq(Entry) /\ cl[c].hand \in Entry /\ cl[c].expected + 1 \in Nat
      BY <2>11 DEF ClientType
    <3>2. Append(cl[c].got, cl[c].hand) \in Seq(Entry)
      BY <3>1
    <3> DEFINE x == [cl[c] EXCEPT !.pc = "loop", !.expected = @ + 1, !.hand = Freed,
                                  !.got = Append(@, cl[c].hand)]
    <3>3. x \in ClientType
      <4> HIDE DEF Entry
      <4> QED BY <3>1, <3>2, CellsType, <2>11 DEF ClientType
    <3>4. cl' = [cl EXCEPT ![c] = x] /\ UNCHANGED <<st, enc>>
      BY <2>11 DEF Write
    <3> HIDE DEF x
    <3> QED BY <3>3, <3>4
  <2>12. CASE UNCHANGED vars
    BY <2>12 DEF vars
  <2> QED BY <2>1, <2>2, <2>3, <2>4, <2>5, <2>6, <2>7, <2>8, <2>9, <2>10, <2>11, <2>12
          DEF Next, Produce, ClientStep
<1> QED BY <1>1, <1>2, PTL DEF Spec

-----------------------------------------------------------------------------
(* The inductive invariant: how the numbers in the ring and in the clients'   *)
(* hands follow each other                                                    *)

\* After encoder frame n, the first frame that is not a gap is the one with
\* sequence number q, if that is in the ring, or else has yet to be made.
Follows(s, e, n, q) ==
  /\ q <= s.next
  /\ q = s.next => n <= e.made /\ (n + 1) .. e.made \subseteq e.gaps
  /\ \A i \in 0 .. s.count - 1 : Oldest(s) + i = q =>
       n < At(s, i).no /\ (n + 1) .. (At(s, i).no - 1) \subseteq e.gaps

KeyAt(s, q) ==
  q < s.next /\ \A i \in 0 .. s.count - 1 : Oldest(s) + i = q => At(s, i).key

InPlace(s, e, i) ==
  /\ At(s, i).seq = Oldest(s) + i
  /\ At(s, i).no \in 1 .. e.made
  /\ At(s, i).session = e.session
  /\ At(s, i).pic \/ At(s, i).no \in e.gaps
  /\ At(s, i).key => At(s, i).pic
  /\ Follows(s, e, At(s, i).no, At(s, i).seq + 1)

RingInv(s, e) ==
  /\ s.count <= s.next
  /\ e.pc # "on" => s.count = 0
  /\ \A i \in 0 .. s.count - 1 : InPlace(s, e, i)

\* Frames m, then n, with nothing but gaps between.
Adjacent(e, m, n) == m < n /\ (m + 1) .. (n - 1) \subseteq e.gaps

Last(k) == k.got[Len(k.got)].no

Received(e, k) ==
  /\ k.got # <<>> => k.got[1].key
  /\ \A i \in 1 .. Len(k.got) - 1 : Adjacent(e, k.got[i].no, k.got[i + 1].no)

ClientInv(s, e, k) ==
  /\ Received(e, k)
  /\ k.pc \in {"config", "join"} => k.got = <<>>
  /\ k.pc \in {"header", "loop"} =>
       IF k.got = <<>> THEN KeyAt(s, k.expected) ELSE Follows(s, e, Last(k), k.expected)
  /\ k.pc = "write" =>
       /\ Follows(s, e, k.hand.no, k.expected + 1)
       /\ IF k.got = <<>> THEN k.hand.key ELSE Adjacent(e, Last(k), k.hand.no)

Inv == RingInv(st, enc) /\ \A c \in Clients : ClientInv(st, enc, cl[c])

\* What a step of the producer keeps.
Later(s, e, t, d) ==
  /\ e.gaps \subseteq d.gaps
  /\ \A n, q \in Nat : Follows(s, e, n, q) => Follows(t, d, n, q)
  /\ \A q \in Nat : KeyAt(s, q) => KeyAt(t, q)

LEMMA LaterTransitive ==
  ASSUME NEW s, NEW e, NEW t, NEW d, NEW u, NEW g, Later(s, e, t, d), Later(t, d, u, g)
  PROVE  Later(s, e, u, g)
  BY DEF Later

\* The ring without its oldest x frames.
LEMMA Suffix ==
  ASSUME NEW s \in StreamType, NEW t \in StreamType,
         NEW e \in EncoderType, NEW d \in EncoderType, NEW x \in 0 .. s.count,
         RingInv(s, e),
         t.next = s.next, t.count = s.count - x,
         \A i \in 0 .. t.count - 1 : At(t, i) = At(s, i + x),
         d.made = e.made, d.gaps = e.gaps,
         d.session = e.session \/ t.count = 0,
         d.pc # "on" => t.count = 0
  PROVE  RingInv(t, d) /\ Later(s, e, t, d)
<1>1. /\ s.count \in Nat /\ s.next \in Nat /\ t.count \in Nat /\ x \in Nat
      /\ s.count <= s.next /\ t.count <= t.next /\ Oldest(t) = Oldest(s) + x
      /\ Oldest(s) \in Nat
  BY RingNAssumption DEF StreamType, Oldest, RingInv
<1>2. \A i \in 0 .. t.count - 1 :
         i + x \in 0 .. s.count - 1 /\ Oldest(t) + i = Oldest(s) + (i + x)
  BY <1>1
<1>3. ASSUME NEW n \in Nat, NEW q \in Nat, Follows(s, e, n, q)
      PROVE  Follows(t, d, n, q)
  BY <1>2, <1>3 DEF Follows
<1>4. ASSUME NEW q \in Nat, KeyAt(s, q)
      PROVE  KeyAt(t, q)
  BY <1>2, <1>4 DEF KeyAt
<1>5. Later(s, e, t, d)
  BY <1>3, <1>4 DEF Later
<1>6. ASSUME NEW i \in 0 .. t.count - 1
      PROVE  InPlace(t, d, i)
  <2>1. InPlace(s, e, i + x) /\ At(t, i) = At(s, i + x) /\ d.session = e.session
    BY <1>1, <1>2 DEF RingInv
  <2>2. At(t, i) \in Entry
    BY AtType
  <2>3. At(t, i).no \in Nat /\ At(t, i).seq + 1 \in Nat
    BY <2>2, StreamBoundAssumption DEF Entry
  <2>4. Follows(t, d, At(t, i).no, At(t, i).seq + 1)
    BY <2>1, <2>3, <1>3 DEF InPlace
  <2> QED BY <2>1, <2>4, <1>2 DEF InPlace
<1> QED BY <1>1, <1>5, <1>6 DEF RingInv

LEMMA EmptiedStep ==
  ASSUME NEW s \in StreamType, NEW e \in EncoderType, NEW d \in EncoderType,
         NEW ep \in Nat, NEW pa \in 0 .. MaxSessions,
         RingInv(s, e), d.made = e.made, d.gaps = e.gaps
  PROVE  LET t == [Emptied(s) EXCEPT !.epoch = ep, !.params = pa]
         IN  t \in StreamType /\ RingInv(t, d) /\ Later(s, e, t, d)
<1> DEFINE t == [Emptied(s) EXCEPT !.epoch = ep, !.params = pa]
<1>1. Emptied(s) \in StreamType
  BY EmptiedType
<1>2. t \in StreamType /\ t.count = 0 /\ t.next = s.next
  BY <1>1 DEF Emptied, StreamType
<1>3. s.count \in Nat /\ s.count \in 0 .. s.count
  BY RingNAssumption DEF StreamType
<1> HIDE DEF t
<1>4. RingInv(t, d) /\ Later(s, e, t, d)
  BY <1>2, <1>3, Suffix
<1> QED BY <1>2, <1>4 DEF t

\* What RingInv and Later say of the ring is not about these fields.
LEMMA SameRing ==
  ASSUME NEW s \in StreamType, NEW t \in StreamType, NEW e \in EncoderType,
         t.buf = s.buf, t.head = s.head, t.count = s.count, t.next = s.next,
         RingInv(s, e)
  PROVE  RingInv(t, e) /\ Later(s, e, t, e)
<1>1. \A i \in 0 .. t.count - 1 : At(t, i) = At(s, i + 0)
  BY RingNAssumption DEF At, Cell, StreamType
<1>2. 0 \in 0 .. s.count /\ t.count = s.count - 0
  BY RingNAssumption DEF StreamType
<1>3. e.pc # "on" => t.count = 0
  BY DEF RingInv
<1> QED BY <1>1, <1>2, <1>3, Suffix

LEMMA EvictedStep ==
  ASSUME NEW s \in StreamType, NEW e \in EncoderType, RingInv(s, e)
  PROVE  LET t == Evicted(s)
         IN  RingInv(t, e) /\ Later(s, e, t, e) /\ t.next = s.next
<1> DEFINE t == Evicted(s)
<1>1. CASE s.count = RingN
  <2>1. t = [s EXCEPT !.buf[s.head] = Freed, !.head = (@ + 1) % RingN, !.count = @ - 1]
    BY <1>1 DEF Evicted
  <2>2. /\ t.buf = [s.buf EXCEPT ![s.head] = Freed] /\ t.head = (s.head + 1) % RingN
        /\ t.count = s.count - 1 /\ t.next = s.next
    BY <2>1 DEF StreamType
  <2>3. t \in StreamType
    BY EvictedType
  <2> HIDE DEF t
  <2>4. ASSUME NEW i \in 0 .. t.count - 1
        PROVE  At(t, i) = At(s, i + 1)
    <3>1. /\ i \in 0 .. RingN - 1 /\ i + 1 \in 0 .. RingN - 1 /\ i + 1 \in 0 .. RingN
          /\ 0 \in 0 .. RingN - 1 /\ s.head \in Cells
      BY <1>1, <2>2, RingNAssumption DEF StreamType
    <3>2. Cell(t, i) = Cell(s, i + 1)
      BY <2>2, <3>1, CellShift DEF Cell
    <3>3. (s.head + 0) % RingN = s.head
      <4>1. s.head + 0 = s.head /\ s.head + 0 < RingN
        BY <3>1, RingNAssumption DEF Cells
      <4>2. 0 \in 0 .. RingN
        BY RingNAssumption
      <4>3. (s.head + 0) % RingN
              = IF s.head + 0 < RingN THEN s.head + 0 ELSE s.head + 0 - RingN
        BY <3>1, <4>2, CellValue
      <4> QED BY <4>1, <4>3
    <3>4. Cell(s, i + 1) # s.head
      <4>1. i + 1 # 0
        BY <3>1
      <4> QED BY <3>1, <3>3, <4>1, CellUnique DEF Cell
    <3>5. Cell(s, i + 1) \in Cells
      BY <3>1, CellType DEF Cell
    <3> QED BY <2>2, <3>2, <3>4, <3>5 DEF At, StreamType
  <2>5. 1 \in 0 .. s.count /\ e.pc = "on"
    BY <1>1, RingNAssumption DEF RingInv
  <2>6. RingInv(t, e) /\ Later(s, e, t, e)
    BY <2>2, <2>3, <2>4, <2>5, Suffix
  <2> QED BY <2>2, <2>6 DEF t
<1>2. CASE s.count # RingN
  <2>1. t = s
    BY <1>2 DEF Evicted
  <2> QED BY <2>1, SameRing
<1> QED BY <1>1, <1>2

\* A frame enters the ring behind the others.
LEMMA AppendedStep ==
  ASSUME NEW s \in StreamType, NEW e \in EncoderType, NEW d \in EncoderType,
         NEW f \in Entry, s.count < RingN,
         RingInv(s, e), e.pc = "on", d.pc = "on",
         d.made = e.made + 1, d.session = e.session, e.gaps \subseteq d.gaps,
         f.seq = s.next, f.no = d.made, f.session = d.session,
         f.pic \/ f.no \in d.gaps, f.key => f.pic
  PROVE  RingInv(Appended(s, f), d) /\ Later(s, e, Appended(s, f), d)
<1> DEFINE t == Appended(s, f)
<1>1. t = [s EXCEPT !.buf[Cell(s, s.count)] = f, !.next = @ + 1, !.count = @ + 1]
  BY DEF Appended
<1>2. /\ t.buf = [s.buf EXCEPT ![Cell(s, s.count)] = f] /\ t.head = s.head
      /\ t.count = s.count + 1 /\ t.next = s.next + 1
  BY <1>1 DEF StreamType
<1>3. t \in StreamType
  BY AppendedType
<1> HIDE DEF t
<1>4. /\ s.count \in Nat /\ s.next \in Nat /\ s.count <= s.next /\ e.made \in Nat
      /\ Oldest(s) \in Nat /\ Oldest(t) = Oldest(s) /\ Oldest(s) + s.count = s.next
      /\ s.count \in 0 .. RingN - 1 /\ s.count \in 0 .. RingN /\ s.head \in Cells
      /\ d.made = e.made + 1
  BY <1>2, StreamBoundAssumption, RingNAssumption DEF StreamType, EncoderType, Oldest, RingInv
<1>5. Cell(s, s.count) \in Cells
  BY <1>4, CellType DEF Cell
<1>6. At(t, s.count) = f
  BY <1>2, <1>5 DEF At, Cell, StreamType
<1>7. ASSUME NEW i \in 0 .. s.count - 1
      PROVE  At(t, i) = At(s, i)
  <2>1. i \in 0 .. RingN - 1 /\ i \in 0 .. RingN /\ i # s.count
    BY <1>4, RingNAssumption
  <2>2. Cell(s, i) # Cell(s, s.count)
    BY <1>4, <2>1, CellUnique DEF Cell
  <2>3. Cell(s, i) \in Cells
    BY <1>4, <2>1, CellType DEF Cell
  <2> QED BY <1>2, <2>2, <2>3 DEF At, Cell, StreamType
<1>8. \A i \in 0 .. t.count - 1 : i \in 0 .. s.count - 1 \/ i = s.count
  BY <1>2, <1>4
<1>9. ASSUME NEW n \in Nat, NEW q \in Nat, Follows(s, e, n, q)
      PROVE  Follows(t, d, n, q)
  <2>1. q <= t.next /\ q # t.next
    BY <1>2, <1>4, <1>9 DEF Follows
  <2>2. ASSUME NEW i \in 0 .. t.count - 1, Oldest(t) + i = q
        PROVE  n < At(t, i).no /\ (n + 1) .. (At(t, i).no - 1) \subseteq d.gaps
    <3>1. CASE i \in 0 .. s.count - 1
      BY <1>4, <1>7, <1>9, <2>2, <3>1 DEF Follows
    <3>2. CASE i = s.count
      <4>1. q = s.next
        BY <1>4, <2>2, <3>2
      <4>2. n <= e.made /\ (n + 1) .. e.made \subseteq e.gaps
        BY <4>1, <1>9 DEF Follows
      <4>3. At(t, i).no = e.made + 1 /\ At(t, i).no - 1 = e.made
        BY <1>4, <1>6, <3>2
      <4> QED BY <1>4, <4>2, <4>3
    <3> QED BY <1>8, <3>1, <3>2
  <2> QED BY <2>1, <2>2 DEF Follows
<1>10. ASSUME NEW q \in Nat, KeyAt(s, q)
       PROVE  KeyAt(t, q)
  <2>1. q < s.next
    BY <1>10 DEF KeyAt
  <2>2. ASSUME NEW i \in 0 .. t.count - 1, Oldest(t) + i = q
        PROVE  At(t, i).key
    <3>1. i \in 0 .. s.count - 1
      BY <1>4, <1>8, <2>1, <2>2
    <3> QED BY <1>4, <1>7, <1>10, <2>2, <3>1 DEF KeyAt
  <2> QED BY <1>2, <1>4, <2>1, <2>2 DEF KeyAt
<1>11. Later(s, e, t, d)
  BY <1>9, <1>10 DEF Later
<1>12. ASSUME NEW i \in 0 .. t.count - 1
       PROVE  InPlace(t, d, i)
  <2>1. CASE i \in 0 .. s.count - 1
    <3>1. InPlace(s, e, i) /\ At(t, i) = At(s, i)
      BY <1>7, <2>1 DEF RingInv
    <3>2. At(s, i) \in Entry
      BY <2>1, AtType
    <3>3. At(s, i).no \in Nat /\ At(s, i).seq + 1 \in Nat
      BY <3>2, StreamBoundAssumption DEF Entry
    <3>4. Follows(t, d, At(s, i).no, At(s, i).seq + 1)
      BY <1>9, <3>1, <3>3 DEF InPlace
    <3>5. At(s, i).no \in 1 .. d.made
      BY <1>4, <3>1 DEF InPlace
    <3> QED BY <1>4, <3>1, <3>4, <3>5 DEF InPlace
  <2>2. CASE i = s.count
    <3>1. At(t, i) = f /\ f.seq = Oldest(t) + i /\ f.no \in 1 .. d.made
      BY <1>4, <1>6, <2>2
    <3>2. f.seq + 1 = t.next /\ f.no <= d.made /\ (f.no + 1) .. d.made \subseteq d.gaps
      BY <1>2, <1>4
    <3>3. \A j \in 0 .. t.count - 1 : Oldest(t) + j # t.next
      BY <1>2, <1>4
    <3>4. Follows(t, d, f.no, f.seq + 1)
      BY <1>2, <1>4, <3>2, <3>3 DEF Follows
    <3> QED BY <3>1, <3>4 DEF InPlace
  <2> QED BY <1>8, <2>1, <2>2
<1>13. RingInv(t, d)
  BY <1>2, <1>4, <1>12 DEF RingInv
<1> QED BY <1>11, <1>13 DEF t

\* A frame that the encoder made does not enter the ring.
LEMMA LostStep ==
  ASSUME NEW s \in StreamType, NEW e \in EncoderType, NEW d \in EncoderType,
         RingInv(s, e), d.pc = e.pc,
         d.made = e.made + 1, d.session = e.session, d.gaps = e.gaps \cup {d.made}
  PROVE  RingInv(s, d) /\ Later(s, e, s, d)
<1>1. e.made \in Nat /\ d.made \in Nat
  BY StreamBoundAssumption DEF EncoderType
<1>2. ASSUME NEW n \in Nat, NEW q \in Nat, Follows(s, e, n, q)
      PROVE  Follows(s, d, n, q)
  <2>1. \A m \in (n + 1) .. d.made : m \in (n + 1) .. e.made \/ m = d.made
    BY <1>1
  <2> QED BY <1>1, <1>2, <2>1 DEF Follows
<1>3. Later(s, e, s, d)
  BY <1>2 DEF Later
<1>4. ASSUME NEW i \in 0 .. s.count - 1
      PROVE  InPlace(s, d, i)
  <2>1. InPlace(s, e, i)
    BY DEF RingInv
  <2>2. At(s, i) \in Entry
    BY AtType
  <2>3. At(s, i).no \in Nat /\ At(s, i).seq + 1 \in Nat
    BY <2>2, StreamBoundAssumption DEF Entry
  <2>4. Follows(s, d, At(s, i).no, At(s, i).seq + 1)
    BY <1>2, <2>1, <2>3 DEF InPlace
  <2>5. At(s, i).no \in 1 .. d.made
    BY <1>1, <2>1 DEF InPlace
  <2> QED BY <2>1, <2>4, <2>5 DEF InPlace
<1> QED BY <1>3, <1>4 DEF RingInv

-----------------------------------------------------------------------------
(* The clients *)

LEMMA LastType ==
  ASSUME NEW k \in ClientType, k.got # <<>>
  PROVE  Last(k) \in Nat
<1>1. k.got \in Seq(Entry) /\ Len(k.got) \in 1 .. Len(k.got)
  BY DEF ClientType
<1>2. k.got[Len(k.got)] \in Entry
  BY <1>1
<1> QED BY <1>2, StreamBoundAssumption DEF Last, Entry

\* No step of the producer takes a client's place from it.
LEMMA ClientLater ==
  ASSUME NEW s, NEW e, NEW t, NEW d, NEW k \in ClientType,
         ClientInv(s, e, k), Later(s, e, t, d)
  PROVE  ClientInv(t, d, k)
<1>1. k.expected \in Nat /\ k.expected + 1 \in Nat /\ k.hand.no \in Nat
  BY StreamBoundAssumption DEF ClientType, Entry
<1>2. k.got # <<>> => Last(k) \in Nat
  BY LastType
<1>3. \A m, n : Adjacent(e, m, n) => Adjacent(d, m, n)
  BY DEF Adjacent, Later
<1>4. Received(d, k)
  BY <1>3 DEF ClientInv, Received
<1> QED BY <1>1, <1>2, <1>3, <1>4 DEF ClientInv, Later

\* Place q of the ring, between the oldest frame and the next one, has a cell.
LEMMA Place ==
  ASSUME NEW s \in StreamType, NEW e, NEW q \in Nat, RingInv(s, e),
         Oldest(s) <= q, q < s.next
  PROVE  /\ q - Oldest(s) \in 0 .. s.count - 1
         /\ Oldest(s) + (q - Oldest(s)) = q
         /\ At(s, q - Oldest(s)) \in Entry
         /\ At(s, q - Oldest(s)).no \in Nat
         /\ InPlace(s, e, q - Oldest(s))
         /\ At(s, q - Oldest(s)).seq = q
<1>1. q - Oldest(s) \in 0 .. s.count - 1 /\ Oldest(s) + (q - Oldest(s)) = q
  BY RingNAssumption DEF Oldest, StreamType
<1>2. At(s, q - Oldest(s)) \in Entry
  BY <1>1, AtType
<1>3. InPlace(s, e, q - Oldest(s))
  BY <1>1 DEF RingInv
<1> QED BY <1>1, <1>2, <1>3, StreamBoundAssumption DEF Entry, InPlace

\* A frame without a picture can be passed over.
LEMMA FollowsSkip ==
  ASSUME NEW s \in StreamType, NEW e \in EncoderType, NEW n \in Nat, NEW q \in Nat,
         RingInv(s, e), Follows(s, e, n, q), Oldest(s) <= q, q < s.next,
         ~At(s, q - Oldest(s)).pic
  PROVE  Follows(s, e, n, q + 1)
<1> DEFINE w == At(s, q - Oldest(s))
<1>1. /\ InPlace(s, e, q - Oldest(s)) /\ w.no \in Nat /\ w.seq = q
      /\ q - Oldest(s) \in 0 .. s.count - 1 /\ Oldest(s) + (q - Oldest(s)) = q
  BY Place
<1>2. n < w.no /\ (n + 1) .. (w.no - 1) \subseteq e.gaps
  BY <1>1 DEF Follows
<1>3. w.no \in e.gaps /\ Follows(s, e, w.no, q + 1)
  BY <1>1 DEF InPlace
<1> HIDE DEF w
<1>4. e.made \in Nat /\ s.next \in Nat
  BY StreamBoundAssumption DEF EncoderType, StreamType
<1>5. q + 1 = s.next => n <= e.made /\ (n + 1) .. e.made \subseteq e.gaps
  <2> SUFFICES ASSUME q + 1 = s.next
               PROVE  n <= e.made /\ (n + 1) .. e.made \subseteq e.gaps
    OBVIOUS
  <2>1. w.no <= e.made /\ (w.no + 1) .. e.made \subseteq e.gaps
    BY <1>3 DEF Follows
  <2>2. \A m \in (n + 1) .. e.made :
          m \in (n + 1) .. (w.no - 1) \/ m = w.no \/ m \in (w.no + 1) .. e.made
    BY <1>1, <1>4
  <2> QED BY <1>1, <1>2, <1>3, <1>4, <2>1, <2>2
<1>6. ASSUME NEW i \in 0 .. s.count - 1, Oldest(s) + i = q + 1
      PROVE  n < At(s, i).no /\ (n + 1) .. (At(s, i).no - 1) \subseteq e.gaps
  <2>1. w.no < At(s, i).no /\ (w.no + 1) .. (At(s, i).no - 1) \subseteq e.gaps
    BY <1>3, <1>6 DEF Follows
  <2>2. At(s, i).no \in Nat
    BY AtType, StreamBoundAssumption DEF Entry
  <2>3. \A m \in (n + 1) .. (At(s, i).no - 1) :
          m \in (n + 1) .. (w.no - 1) \/ m = w.no \/ m \in (w.no + 1) .. (At(s, i).no - 1)
    BY <1>1, <2>2
  <2> QED BY <1>1, <1>2, <1>3, <2>1, <2>2, <2>3
<1>7. q + 1 <= s.next
  BY <1>4
<1> QED BY <1>5, <1>6, <1>7 DEF Follows

\* A frame is sent that follows all the others.
LEMMA ReceivedAppend ==
  ASSUME NEW e, NEW k \in ClientType, NEW f \in Entry, NEW j, Received(e, k),
         j.got = Append(k.got, f),
         k.got = <<>> => f.key,
         k.got # <<>> => Adjacent(e, Last(k), f.no)
  PROVE  Received(e, j) /\ j.got # <<>> /\ Last(j) = f.no
<1> DEFINE n == Len(k.got)
<1>1. k.got \in Seq(Entry) /\ n \in Nat
  BY DEF ClientType
<1>2. /\ Len(j.got) = n + 1 /\ j.got[n + 1] = f /\ j.got # <<>>
      /\ \A i \in 1 .. n : j.got[i] = k.got[i]
  BY <1>1
<1>3. k.got = <<>> <=> n = 0
  BY <1>1
<1>4. Last(j) = f.no
  BY <1>2 DEF Last
<1>5. Last(k) = k.got[n].no
  BY DEF Last
<1> HIDE DEF n
<1>6. j.got[1].key
  BY <1>1, <1>2, <1>3 DEF Received
<1>7. ASSUME NEW i \in 1 .. n
      PROVE  Adjacent(e, j.got[i].no, j.got[i + 1].no)
  <2>1. CASE i = n
    BY <1>1, <1>2, <1>3, <1>5, <2>1
  <2>2. CASE i # n
    <3>1. i \in 1 .. n - 1 /\ i + 1 \in 1 .. n
      BY <1>1, <2>2
    <3>2. Adjacent(e, k.got[i].no, k.got[i + 1].no)
      BY <3>1 DEF Received, n
    <3> QED BY <1>2, <3>1, <3>2
  <2> QED BY <2>1, <2>2
<1>8. Len(j.got) - 1 = n
  BY <1>1, <1>2
<1> QED BY <1>2, <1>4, <1>6, <1>7, <1>8 DEF Received

\* In every reachable state the ring's frames, and what each client has and wants
\* next, follow each other without a hole.
THEOREM StreamCorrect == Spec => []Inv
<1>1. Init => Inv
  <2> SUFFICES ASSUME Init
               PROVE  Inv
    OBVIOUS
  <2>1. RingInv(st, enc)
    BY DEF Init, RingInv
  <2>2. ASSUME NEW c \in Clients
        PROVE  ClientInv(st, enc, cl[c])
    BY <2>2 DEF Init, NewClient, ClientInv, Received
  <2> QED BY <2>1, <2>2 DEF Inv
<1>2. TypeOK /\ TypeOK' /\ Inv /\ [Next]_vars => Inv'
  <2> SUFFICES ASSUME TypeOK, TypeOK', Inv, [Next]_vars
               PROVE  Inv'
    OBVIOUS
  <2>0. /\ st \in StreamType /\ enc \in EncoderType /\ enc' \in EncoderType
        /\ st' \in StreamType /\ RingInv(st, enc)
        /\ \A c \in Clients : cl[c] \in ClientType /\ ClientInv(st, enc, cl[c])
    BY DEF TypeOK, Inv
  <2>A. ASSUME RingInv(st', enc'), Later(st, enc, st', enc'), cl' = cl
        PROVE  Inv'
    <3>1. \A c \in Clients : ClientInv(st', enc', cl[c])
      BY <2>0, <2>A, ClientLater
    <3> QED BY <2>A, <3>1 DEF Inv
  <2>B. ASSUME NEW c \in Clients, NEW k, ClientInv(st, enc, k),
               cl' = [cl EXCEPT ![c] = k], UNCHANGED <<st, enc>>
        PROVE  Inv'
    <3>1. \A b \in Clients : ClientInv(st, enc, cl'[b])
      BY <2>0, <2>B DEF TypeOK
    <3> QED BY <2>0, <2>B, <3>1 DEF Inv
  <2>1. ASSUME NEW known \in BOOLEAN, PushConfig(known)
        PROVE  Inv'
    <3> DEFINE pa == IF known THEN enc.session + 1 ELSE 0
               ep == st.epoch + 1
    <3>1. pa \in 0 .. MaxSessions /\ ep \in Nat
      BY <2>0, <2>1, StreamBoundAssumption DEF PushConfig, EncoderType, StreamType
    <3>2. enc'.made = enc.made /\ enc'.gaps = enc.gaps
      BY <2>0, <2>1 DEF PushConfig, EncoderType
    <3>3. st' = [Emptied(st) EXCEPT !.epoch = ep, !.params = pa]
      BY <2>0, <2>1 DEF PushConfig, Emptied, StreamType
    <3> HIDE DEF pa, ep
    <3>4. RingInv(st', enc') /\ Later(st, enc, st', enc')
      BY <2>0, <3>1, <3>2, <3>3, EmptiedStep
    <3> QED BY <2>1, <2>A, <3>4 DEF PushConfig
  <2>2. CASE RecordingOpened \/ RecordingFailed
    <3>1. \A i \in 0 .. st.count - 1 : At(st, i) = At(st, i + 0)
      BY <2>0 DEF At, Cell, StreamType
    <3>2. /\ enc'.made = enc.made /\ enc'.gaps = enc.gaps /\ enc'.session = enc.session
          /\ enc.pc # "on" /\ st' = st /\ cl' = cl
      BY <2>0, <2>2 DEF RecordingOpened, RecordingFailed, EncoderType
    <3>3. st.count = 0 /\ 0 \in 0 .. st.count /\ st.count = st.count - 0
      BY <2>0, <3>2 DEF RingInv
    <3>4. RingInv(st, enc') /\ Later(st, enc, st, enc')
      BY <2>0, <3>1, <3>2, <3>3, Suffix
    <3> QED BY <2>A, <3>2, <3>4
  <2>3. ASSUME NEW key \in BOOLEAN, NEW pic \in BOOLEAN, NEW found \in BOOLEAN,
               PushFrame(key, pic, found)
        PROVE  Inv'
    <3> DEFINE q == Collected(st, found)
               s == Evicted(q)
               n == enc.made + 1
               f == [seq |-> st.next, no |-> n, key |-> key, pic |-> pic,
                     session |-> enc.session]
    <3>1. q \in StreamType
      BY <2>0, CollectedType
    <3>2. q.buf = st.buf /\ q.head = st.head /\ q.count = st.count /\ q.next = st.next
      BY <2>0 DEF Collected, StreamType
    <3> HIDE DEF q
    <3>3. RingInv(q, enc) /\ Later(st, enc, q, enc)
      BY <2>0, <3>1, <3>2, SameRing
    <3>4. s \in StreamType /\ s.count < RingN
      BY <3>1, EvictedType
    <3>5. RingInv(s, enc) /\ Later(q, enc, s, enc) /\ s.next = st.next
      BY <2>0, <3>1, <3>2, <3>3, EvictedStep
    <3> HIDE DEF s
    <3>6. Later(st, enc, s, enc)
      BY <3>3, <3>5, LaterTransitive
    <3>7. n \in 0 .. MaxFrames
      BY <2>0, <2>3, StreamBoundAssumption DEF PushFrame, EncoderType
    <3>8. f \in Entry
      BY <2>0, <3>7 DEF Entry, EncoderType, StreamType
    <3>9. enc.pc = "on" /\ (key => pic) /\ cl' = cl
      BY <2>3 DEF PushFrame
    <3>10. \/ /\ st' = Appended(s, f)
              /\ enc' = [enc EXCEPT !.made = n, !.gaps = IF pic THEN @ ELSE @ \cup {n}]
           \/ /\ st' = s
              /\ enc' = [enc EXCEPT !.made = n, !.gaps = @ \cup {n}]
      BY <2>3 DEF PushFrame, s, q
    <3>11. /\ f.seq = s.next /\ f.no = n /\ f.session = enc.session
           /\ f.pic = pic /\ f.key = key
      BY <3>5
    <3> HIDE DEF f
    <3>12. RingInv(st', enc') /\ Later(s, enc, st', enc')
      <4>1. CASE /\ st' = Appended(s, f)
                 /\ enc' = [enc EXCEPT !.made = n, !.gaps = IF pic THEN @ ELSE @ \cup {n}]
        <5>1. /\ enc'.pc = "on" /\ enc'.made = enc.made + 1 /\ enc'.session = enc.session
              /\ enc'.gaps = IF pic THEN enc.gaps ELSE enc.gaps \cup {n}
          BY <2>0, <3>9, <4>1 DEF EncoderType
        <5>2. enc.gaps \subseteq enc'.gaps /\ (pic \/ n \in enc'.gaps)
          BY <5>1
        <5> QED BY <2>0, <3>4, <3>5, <3>8, <3>9, <3>11, <4>1, <5>1, <5>2, AppendedStep
      <4>2. CASE st' = s /\ enc' = [enc EXCEPT !.made = n, !.gaps = @ \cup {n}]
        <5>1. /\ enc'.pc = enc.pc /\ enc'.made = enc.made + 1 /\ enc'.session = enc.session
              /\ enc'.gaps = enc.gaps \cup {enc'.made}
          BY <2>0, <4>2 DEF EncoderType
        <5> QED BY <2>0, <3>4, <3>5, <4>2, <5>1, LostStep
      <4> QED BY <3>10, <4>1, <4>2
    <3>13. Later(st, enc, st', enc')
      BY <3>6, <3>12, LaterTransitive
    <3> QED BY <2>A, <3>9, <3>12, <3>13
  <2>4. CASE PushRefused
    <3>1. /\ enc'.pc = enc.pc /\ enc'.made = enc.made + 1 /\ enc'.session = enc.session
          /\ enc'.gaps = enc.gaps \cup {enc'.made} /\ st' = st /\ cl' = cl
      BY <2>0, <2>4 DEF PushRefused, EncoderType
    <3>2. RingInv(st, enc') /\ Later(st, enc, st, enc')
      BY <2>0, <3>1, LostStep
    <3> QED BY <2>A, <3>1, <3>2
  <2>5. CASE PushEnd
    <3>1. /\ enc'.made = enc.made /\ enc'.gaps = enc.gaps /\ cl' = cl
          /\ st.params \in 0 .. MaxSessions /\ 0 \in Nat
      BY <2>0, <2>5 DEF PushEnd, EncoderType, StreamType
    <3>2. st' = [Emptied(st) EXCEPT !.epoch = 0, !.params = st.params]
      BY <2>0, <2>5 DEF PushEnd, Emptied, StreamType
    <3>3. RingInv(st', enc') /\ Later(st, enc, st', enc')
      BY <2>0, <3>1, <3>2, EmptiedStep
    <3> QED BY <2>A, <3>1, <3>3
  <2>6. CASE Shutdown
    <3>1. /\ st'.buf = st.buf /\ st'.head = st.head /\ st'.count = st.count
          /\ st'.next = st.next /\ enc' = enc /\ cl' = cl
      BY <2>0, <2>6 DEF Shutdown, StreamType
    <3> QED BY <2>0, <2>A, <3>1, SameRing
  <2>7. ASSUME NEW c \in Clients, Start(c)
        PROVE  Inv'
    <3> DEFINE k == [NewClient EXCEPT !.pc = "config", !.joins = cl[c].joins + 1]
    <3>1. k.got = <<>> /\ k.pc = "config"
      BY DEF NewClient
    <3>2. cl' = [cl EXCEPT ![c] = k] /\ UNCHANGED <<st, enc>>
      BY <2>7 DEF Start
    <3> HIDE DEF k
    <3>3. ClientInv(st, enc, k)
      BY <3>1 DEF ClientInv, Received
    <3> QED BY <2>7, <2>B, <3>2, <3>3
  <2>8. ASSUME NEW c \in Clients, GiveUp(c) \/ WriteFailed(c) \/ Leave(c) \/ PeerGone(c)
        PROVE  Inv'
    <3>1. PICK h \in Entry : cl' = [cl EXCEPT ![c] = [cl[c] EXCEPT !.pc = "gone", !.hand = h]]
      <4>1. cl[c].hand \in Entry /\ Freed \in Entry /\ cl \in [Clients -> ClientType]
        BY <2>0, CellsType DEF TypeOK, ClientType
      <4>2. [cl[c] EXCEPT !.pc = "gone"] = [cl[c] EXCEPT !.pc = "gone", !.hand = cl[c].hand]
        BY <2>0 DEF ClientType
      <4>3. cl' \in {[cl EXCEPT ![c] = [cl[c] EXCEPT !.pc = "gone"]],
                     [cl EXCEPT ![c] = [cl[c] EXCEPT !.pc = "gone", !.hand = Freed]]}
        BY <2>8 DEF GiveUp, WriteFailed, Leave, PeerGone
      <4> QED BY <4>1, <4>2, <4>3
    <3> DEFINE k == [cl[c] EXCEPT !.pc = "gone", !.hand = h]
    <3>2. k.got = cl[c].got /\ k.pc = "gone"
      BY <2>0, <2>8 DEF ClientType
    <3>3. UNCHANGED <<st, enc>>
      BY <2>8 DEF GiveUp, WriteFailed, Leave, PeerGone
    <3> HIDE DEF k
    <3>4. ClientInv(st, enc, k)
      BY <2>0, <2>8, <3>2 DEF ClientInv, Received
    <3> QED BY <2>8, <2>B, <3>1, <3>3, <3>4 DEF k
  <2>9. ASSUME NEW c \in Clients, GetConfig(c)
        PROVE  Inv'
    <3> DEFINE k == [cl[c] EXCEPT !.pc = "join", !.epoch = st.epoch, !.init = st.params]
    <3>1. k.got = cl[c].got /\ k.pc = "join" /\ cl[c].pc = "config"
      BY <2>0, <2>9 DEF GetConfig, ClientType
    <3>2. cl' = [cl EXCEPT ![c] = k] /\ UNCHANGED <<st, enc>>
      BY <2>9 DEF GetConfig
    <3> HIDE DEF k
    <3>3. ClientInv(st, enc, k)
      BY <2>0, <2>9, <3>1 DEF ClientInv, Received
    <3> QED BY <2>9, <2>B, <3>2, <3>3
  <2>10. ASSUME NEW c \in Clients, Header(c)
         PROVE  Inv'
    <3> DEFINE k == [cl[c] EXCEPT !.pc = "loop"]
    <3>1. /\ k.got = cl[c].got /\ k.pc = "loop" /\ cl[c].pc = "header"
          /\ k.expected = cl[c].expected /\ Last(k) = Last(cl[c])
      BY <2>0, <2>10 DEF Header, ClientType, Last
    <3>2. cl' = [cl EXCEPT ![c] = k] /\ UNCHANGED <<st, enc>>
      BY <2>10 DEF Header
    <3> HIDE DEF k
    <3>3. ClientInv(st, enc, k)
      BY <2>0, <2>10, <3>1 DEF ClientInv, Received
    <3> QED BY <2>10, <2>B, <3>2, <3>3
  <2>11. ASSUME NEW c \in Clients, Join(c)
         PROVE  Inv'
    <3>1. PICK f \in Frames(st) :
            f.key /\ cl' = [cl EXCEPT ![c].pc = "header", ![c].expected = f.seq]
      BY <2>11 DEF Join
    <3>2. PICK i \in 0 .. st.count - 1 : f = At(st, i)
      BY <3>1 DEF Frames
    <3> DEFINE k == [cl[c] EXCEPT !.pc = "header", !.expected = f.seq]
    <3>3. /\ k.got = cl[c].got /\ k.pc = "header" /\ k.expected = f.seq
          /\ cl[c].pc = "join"
      BY <2>0, <2>11 DEF Join, ClientType
    <3>4. cl' = [cl EXCEPT ![c] = k] /\ UNCHANGED <<st, enc>>
      BY <2>11, <3>1 DEF Join
    <3> HIDE DEF k
    <3>5. /\ f.seq = Oldest(st) + i /\ Oldest(st) \in Nat /\ st.next \in Nat
          /\ st.count \in Nat /\ Oldest(st) + st.count = st.next
      BY <2>0, <3>2, RingNAssumption DEF RingInv, InPlace, Oldest, StreamType
    <3>6. KeyAt(st, f.seq)
      BY <3>1, <3>2, <3>5 DEF KeyAt
    <3>7. cl[c].got = <<>> /\ Received(enc, cl[c])
      BY <2>0, <2>11, <3>3 DEF ClientInv
    <3>8. ClientInv(st, enc, k)
      BY <3>3, <3>6, <3>7 DEF ClientInv, Received
    <3> QED BY <2>11, <2>B, <3>4, <3>8
  <2>12. ASSUME NEW c \in Clients, Ready(c)
         PROVE  /\ cl[c].pc = "loop" /\ ClientInv(st, enc, cl[c]) /\ cl[c] \in ClientType
                /\ cl[c].expected \in Nat /\ cl[c].expected < st.next
                /\ Oldest(st) <= cl[c].expected
                /\ cl[c].expected - Oldest(st) \in 0 .. st.count - 1
                /\ Oldest(st) + (cl[c].expected - Oldest(st)) = cl[c].expected
                /\ Wanted(c) \in Entry /\ Wanted(c).no \in Nat
                /\ Wanted(c).seq = cl[c].expected
                /\ InPlace(st, enc, cl[c].expected - Oldest(st))
    <3>1. cl[c].expected \in Nat /\ cl[c] \in ClientType
      BY <2>0, <2>12 DEF ClientType
    <3> QED BY <2>0, <2>12, <3>1, Place DEF Ready, Wanted
  <2>13. ASSUME NEW c \in Clients, Take(c)
         PROVE  Inv'
    <3> DEFINE w == Wanted(c)
               k == [cl[c] EXCEPT !.pc = "write", !.hand = w]
    <3>1. Ready(c) /\ cl' = [cl EXCEPT ![c] = k] /\ UNCHANGED <<st, enc>>
      BY <2>13 DEF Take
    <3>2. /\ k.got = cl[c].got /\ k.pc = "write" /\ k.hand = w
          /\ k.expected = cl[c].expected /\ Last(k) = Last(cl[c])
      BY <2>13, <3>1, <2>12 DEF ClientType, Last
    <3> HIDE DEF k
    <3>3. Follows(st, enc, w.no, k.expected + 1)
      BY <2>13, <3>1, <3>2, <2>12 DEF InPlace, Wanted
    <3>4. IF k.got = <<>> THEN w.key ELSE Adjacent(enc, Last(k), w.no)
      <4>1. IF cl[c].got = <<>> THEN KeyAt(st, cl[c].expected)
                                ELSE Follows(st, enc, Last(cl[c]), cl[c].expected)
        BY <2>13, <3>1, <2>12 DEF ClientInv
      <4>2. CASE k.got = <<>>
        BY <2>13, <3>1, <2>12, <3>2, <4>1, <4>2 DEF KeyAt, Wanted
      <4>3. CASE k.got # <<>>
        BY <2>13, <3>1, <2>12, <3>2, <4>1, <4>3 DEF Follows, Adjacent, Wanted
      <4> QED BY <4>2, <4>3
    <3>5. Received(enc, k)
      BY <2>13, <3>1, <3>2, <2>12 DEF ClientInv, Received
    <3>6. ClientInv(st, enc, k)
      BY <3>2, <3>3, <3>4, <3>5 DEF ClientInv
    <3> QED BY <2>13, <2>B, <3>1, <3>6
  <2>14. ASSUME NEW c \in Clients, Skip(c)
         PROVE  Inv'
    <3> DEFINE k == [cl[c] EXCEPT !.expected = @ + 1]
    <3>1. Ready(c) /\ ~Wanted(c).pic /\ cl' = [cl EXCEPT ![c] = k] /\ UNCHANGED <<st, enc>>
      BY <2>14 DEF Skip
    <3>2. /\ k.got = cl[c].got /\ k.pc = "loop"
          /\ k.expected = cl[c].expected + 1 /\ Last(k) = Last(cl[c])
      BY <2>14, <3>1, <2>12 DEF ClientType, Last
    <3> HIDE DEF k
    <3>3. IF cl[c].got = <<>> THEN KeyAt(st, cl[c].expected)
                              ELSE Follows(st, enc, Last(cl[c]), cl[c].expected)
      BY <2>14, <3>1, <2>12 DEF ClientInv
    <3>4. cl[c].got # <<>>
      BY <2>14, <3>1, <2>12, <3>3 DEF KeyAt, InPlace, Wanted
    <3>5. Last(cl[c]) \in Nat
      BY <2>14, <3>1, <2>12, <3>4, LastType
    <3>6. Follows(st, enc, Last(cl[c]), cl[c].expected + 1)
      BY <2>0, <2>14, <3>1, <2>12, <3>3, <3>4, <3>5, FollowsSkip DEF Wanted
    <3>7. ClientInv(st, enc, k)
      BY <2>14, <3>1, <2>12, <3>2, <3>4, <3>6 DEF ClientInv, Received
    <3> QED BY <2>14, <2>B, <3>1, <3>7
  <2>15. ASSUME NEW c \in Clients, Write(c)
         PROVE  Inv'
    <3> DEFINE k == [cl[c] EXCEPT !.pc = "loop", !.expected = @ + 1, !.hand = Freed,
                                  !.got = Append(@, cl[c].hand)]
    <3>1. cl' = [cl EXCEPT ![c] = k] /\ UNCHANGED <<st, enc>> /\ cl[c].pc = "write"
      BY <2>15 DEF Write
    <3>2. cl[c] \in ClientType /\ cl[c].hand \in Entry /\ ClientInv(st, enc, cl[c])
      BY <2>0, <2>15 DEF ClientType
    <3>3. /\ k.got = Append(cl[c].got, cl[c].hand) /\ k.pc = "loop"
          /\ k.expected = cl[c].expected + 1
      BY <3>2 DEF ClientType
    <3> HIDE DEF k
    <3>4. /\ Follows(st, enc, cl[c].hand.no, cl[c].expected + 1) /\ Received(enc, cl[c])
          /\ cl[c].got = <<>> => cl[c].hand.key
          /\ cl[c].got # <<>> => Adjacent(enc, Last(cl[c]), cl[c].hand.no)
      BY <3>1, <3>2 DEF ClientInv
    <3>5. Received(enc, k) /\ k.got # <<>> /\ Last(k) = cl[c].hand.no
      <4> DEFINE p == cl[c]
                 g == p.hand
      <4>1. /\ p \in ClientType /\ g \in Entry /\ Received(enc, p)
            /\ k.got = Append(p.got, g)
        BY <3>2, <3>3, <3>4
      <4>2. (p.got = <<>> => g.key) /\ (p.got # <<>> => Adjacent(enc, Last(p), g.no))
        BY <3>4
      <4> HIDE DEF p, g
      <4>3. Received(enc, k) /\ k.got # <<>> /\ Last(k) = g.no
        BY <4>1, <4>2, ReceivedAppend
      <4> QED BY <4>3 DEF p, g
    <3>6. ClientInv(st, enc, k)
      BY <3>3, <3>4, <3>5 DEF ClientInv
    <3> QED BY <2>15, <2>B, <3>1, <3>6
  <2>16. CASE UNCHANGED vars
    BY <2>16, <2>0 DEF vars, Inv
  <2> QED BY <2>1, <2>2, <2>3, <2>4, <2>5, <2>6, <2>7, <2>8, <2>9, <2>10, <2>11, <2>13,
             <2>14, <2>15, <2>16 DEF Next, Produce, ClientStep
<1> QED BY <1>1, <1>2, TypeCorrect, PTL DEF Spec

\* The ring holds frames of the session in hand, each where its number says.
THEOREM RingOfSessionCorrect == Spec => []RingOfSession
<1>1. TypeOK /\ Inv => RingOfSession
  <2> SUFFICES ASSUME TypeOK, Inv
               PROVE  RingOfSession
    OBVIOUS
  <2>1. ASSUME NEW i \in 0 .. st.count - 1
        PROVE  /\ At(st, i).no # 0 /\ At(st, i).seq = Oldest(st) + i
               /\ At(st, i).session = enc.session
    BY <2>1, StreamBoundAssumption DEF Inv, RingInv, InPlace, TypeOK, EncoderType
  <2> QED BY <2>1 DEF RingOfSession, Inv, RingInv
<1> QED BY <1>1, TypeCorrect, StreamCorrect, PTL

\* What a client has received begins with a key frame and has no hole.
THEOREM PlayableCorrect == Spec => []Playable
<1>1. Inv => Playable
  BY DEF Inv, ClientInv, Received, Adjacent, Playable
<1> QED BY <1>1, StreamCorrect, PTL

=============================================================================
