----------------------------- MODULE H264Stream -----------------------------
(***************************************************************************)
(* The live stream of H.264 frames (source/video/h264_stream.c).  The      *)
(* recorder is the only producer: it announces a session, pushes each frame*)
(* its encoder makes, and ends the session.  The last RingN frames are kept*)
(* in a ring.  Each client has a thread, which waits for the session's     *)
(* parameters, joins at the newest key frame, and sends frame after frame. *)
(* It composes under the lock and writes to the network outside of it.     *)
(*                                                                         *)
(* Abstracted: the bytes of frames and MP4 boxes, time stamps and pacing.  *)
(* A frame is its number, whether it is a key frame, whether there is a    *)
(* picture in it, and the session (the encoder) that made it.              *)
(***************************************************************************)
EXTENDS Naturals, Sequences

CONSTANTS
  Clients,     \* client threads
  RingN,       \* H264S_RING_N
  MaxFrames,   \* bound: frames encoded
  MaxSessions, \* bound: encoder sessions
  MaxJoins     \* bound: connections of each client

ASSUME RingNAssumption == RingN \in Nat \ {0}
ASSUME StreamBoundAssumption == {MaxFrames, MaxSessions, MaxJoins} \subseteq Nat

VARIABLES
  st,   \* g_h264s
  enc,  \* video_rec_task: its encoder's sessions and frames
  cl    \* h264_stream_client_task of each client

vars == <<st, enc, cl>>

Cells == 0 .. RingN - 1

\* A cell whose frame has been freed.
Freed == [seq |-> 0, no |-> 0, key |-> FALSE, pic |-> FALSE, session |-> 0]

\* A client's expected is cursor + 1, the number of the frame it sends next.
\* Its init is the session whose parameters are in its initialization segment.
NewClient ==
  [pc |-> "gone", epoch |-> 0, init |-> 0, expected |-> 0, hand |-> Freed,
   got |-> <<>>, joins |-> 0]

\* params: the session whose SPS and PPS are known, 0 for none.
\* gaps: frames that never entered the ring, or have no picture to be sent.
Init ==
  /\ st = [buf |-> [i \in Cells |-> Freed], head |-> 0, count |-> 0, next |-> 0,
           epoch |-> 0, params |-> 0, stop |-> FALSE]
  /\ enc = [pc |-> "idle", session |-> 0, made |-> 0, gaps |-> {}]
  /\ cl = [c \in Clients |-> NewClient]

Cell(s, i) == (s.head + i) % RingN

\* The frames in the ring are At(s, 0), the oldest, to At(s, s.count - 1).
At(s, i) == s.buf[Cell(s, i)]

Frames(s) == {At(s, i) : i \in 0 .. s.count - 1}

Oldest(s) == s.next - s.count

-----------------------------------------------------------------------------
(* The producer *)

Emptied(s) ==
  [s EXCEPT !.buf = [i \in Cells |-> Freed],
            !.head = (@ + s.count) % RingN,
            !.count = 0]

\* h264_stream_push_config; the encoder may not know its SPS and PPS yet.
PushConfig(known) ==
  /\ enc.pc = "idle" /\ enc.session < MaxSessions
  /\ enc' = [enc EXCEPT !.pc = "opening", !.session = @ + 1]
  /\ st' = [Emptied(st) EXCEPT !.epoch = @ + 1,
                               !.params = IF known THEN enc.session + 1 ELSE 0]
  /\ UNCHANGED cl

RecordingOpened ==
  /\ enc.pc = "opening"
  /\ enc' = [enc EXCEPT !.pc = "on"]
  /\ UNCHANGED <<st, cl>>

\* The recorder tries again; it does not end the session it announced.
RecordingFailed ==
  /\ enc.pc = "opening"
  /\ enc' = [enc EXCEPT !.pc = "idle"]
  /\ UNCHANGED <<st, cl>>

\* Mutant: the cell is freed and the ring still starts there.
EvictedInPlace(s) ==
  IF s.count = RingN
  THEN [s EXCEPT !.buf[s.head] = Freed, !.count = @ - 1]
  ELSE s

\* Mutant: the ring has no limit.
NotEvicted(s) == s

Evicted(s) ==
  IF s.count = RingN
  THEN [s EXCEPT !.buf[s.head] = Freed, !.head = (@ + 1) % RingN, !.count = @ - 1]
  ELSE s

Appended(s, f) ==
  [s EXCEPT !.buf[Cell(s, s.count)] = f, !.next = @ + 1, !.count = @ + 1]

Collected(s, found) ==
  [s EXCEPT !.params = IF @ = 0 /\ found THEN enc.session ELSE @]

\* The room is made before the memory for the copy is asked for, in vain or not.
PushFrame(key, pic, found) ==
  /\ enc.pc = "on" /\ enc.made < MaxFrames
  /\ key => pic
  /\ ~st.stop /\ st.epoch # 0
  /\ LET s == Evicted(Collected(st, found))
         n == enc.made + 1
         f == [seq |-> st.next, no |-> n, key |-> key, pic |-> pic, session |-> enc.session]
     IN  \/ /\ st' = Appended(s, f)
            /\ enc' = [enc EXCEPT !.made = n, !.gaps = IF pic THEN @ ELSE @ \cup {n}]
         \/ /\ st' = s
            /\ enc' = [enc EXCEPT !.made = n, !.gaps = @ \cup {n}]
  /\ UNCHANGED cl

\* The MP4 file took no more, the stream is shut down, or the frame is too long.
PushRefused ==
  /\ enc.pc = "on" /\ enc.made < MaxFrames
  /\ enc' = [enc EXCEPT !.made = @ + 1, !.gaps = @ \cup {enc.made + 1}]
  /\ UNCHANGED <<st, cl>>

PushEnd ==
  /\ enc.pc = "on"
  /\ enc' = [enc EXCEPT !.pc = "idle"]
  /\ st' = [Emptied(st) EXCEPT !.epoch = 0]
  /\ UNCHANGED cl

Shutdown ==
  /\ ~st.stop
  /\ st' = [st EXCEPT !.stop = TRUE]
  /\ UNCHANGED <<enc, cl>>

-----------------------------------------------------------------------------
(* A client's thread *)

\* An HTTP request for /video/stream.
Start(c) ==
  /\ cl[c].pc = "gone" /\ cl[c].joins < MaxJoins
  /\ cl' = [cl EXCEPT ![c] = [NewClient EXCEPT !.pc = "config", !.joins = cl[c].joins + 1]]
  /\ UNCHANGED <<st, enc>>

GetConfig(c) ==
  /\ cl[c].pc = "config"
  /\ ~st.stop /\ st.epoch # 0 /\ st.params # 0
  /\ cl' = [cl EXCEPT ![c].pc = "join", ![c].epoch = st.epoch, ![c].init = st.params]
  /\ UNCHANGED <<st, enc>>

\* Mutant: the client joins at any frame.
JoinAny(c) ==
  /\ cl[c].pc = "join"
  /\ ~st.stop /\ st.epoch = cl[c].epoch
  /\ \E f \in Frames(st) :
       /\ \A g \in Frames(st) : g.seq <= f.seq
       /\ cl' = [cl EXCEPT ![c].pc = "header", ![c].expected = f.seq]
  /\ UNCHANGED <<st, enc>>

\* The newest key frame in the ring.
Join(c) ==
  /\ cl[c].pc = "join"
  /\ ~st.stop /\ st.epoch = cl[c].epoch
  /\ \E f \in Frames(st) :
       /\ f.key
       /\ \A g \in Frames(st) : g.key => g.seq <= f.seq
       /\ cl' = [cl EXCEPT ![c].pc = "header", ![c].expected = f.seq]
  /\ UNCHANGED <<st, enc>>

\* 503: no AI, 3 s without parameters or key frame, no memory, another session.
GiveUp(c) ==
  /\ cl[c].pc \in {"config", "join"}
  /\ cl' = [cl EXCEPT ![c].pc = "gone"]
  /\ UNCHANGED <<st, enc>>

Header(c) ==
  /\ cl[c].pc = "header"
  /\ cl' = [cl EXCEPT ![c].pc = "loop"]
  /\ UNCHANGED <<st, enc>>

\* The frame a client in its loop would take next is in the ring.
Ready(c) ==
  /\ cl[c].pc = "loop"
  /\ ~st.stop /\ st.epoch = cl[c].epoch
  /\ st.count > 0
  /\ Oldest(st) <= cl[c].expected /\ cl[c].expected < st.next

Wanted(c) == At(st, cl[c].expected - Oldest(st))

Take(c) ==
  /\ Ready(c) /\ Wanted(c).pic
  /\ cl' = [cl EXCEPT ![c].pc = "write", ![c].hand = Wanted(c)]
  /\ UNCHANGED <<st, enc>>

Skip(c) ==
  /\ Ready(c) /\ ~Wanted(c).pic
  /\ cl' = [cl EXCEPT ![c].expected = @ + 1]
  /\ UNCHANGED <<st, enc>>

Write(c) ==
  /\ cl[c].pc = "write"
  /\ cl' = [cl EXCEPT ![c].pc = "loop", ![c].expected = @ + 1, ![c].hand = Freed,
                      ![c].got = Append(@, cl[c].hand)]
  /\ UNCHANGED <<st, enc>>

\* Mutant: a client whose session is over waits for the next frame.
LeaveEvicted(c) ==
  /\ cl[c].pc = "loop"
  /\ \/ st.stop
     \/ st.count > 0 /\ cl[c].expected < Oldest(st)
  /\ cl' = [cl EXCEPT ![c].pc = "gone"]
  /\ UNCHANGED <<st, enc>>

\* The stream is over, or the frame to send next has been evicted.
Leave(c) ==
  /\ cl[c].pc = "loop"
  /\ \/ st.stop \/ st.epoch # cl[c].epoch
     \/ st.count > 0 /\ cl[c].expected < Oldest(st)
  /\ cl' = [cl EXCEPT ![c].pc = "gone"]
  /\ UNCHANGED <<st, enc>>

WriteFailed(c) ==
  /\ cl[c].pc \in {"header", "write"}
  /\ cl' = [cl EXCEPT ![c].pc = "gone", ![c].hand = Freed]
  /\ UNCHANGED <<st, enc>>

\* The peer closed, 30 s without a frame, or no memory for a fragment.
PeerGone(c) ==
  /\ cl[c].pc = "loop"
  /\ cl' = [cl EXCEPT ![c].pc = "gone"]
  /\ UNCHANGED <<st, enc>>

-----------------------------------------------------------------------------

Produce ==
  \/ \E known \in BOOLEAN : PushConfig(known)
  \/ RecordingOpened \/ RecordingFailed
  \/ \E key, pic, found \in BOOLEAN : PushFrame(key, pic, found)
  \/ PushRefused \/ PushEnd

\* A write returns: it fails when the peer takes nothing for 3 s.
ClientStep(c) ==
  \/ GetConfig(c) \/ Join(c) \/ GiveUp(c)
  \/ Header(c) \/ Take(c) \/ Skip(c) \/ Write(c) \/ WriteFailed(c) \/ Leave(c)

Next ==
  \/ Produce \/ Shutdown
  \/ \E c \in Clients : Start(c) \/ ClientStep(c) \/ PeerGone(c)

Spec == Init /\ [][Next]_vars

FairSpec == Spec /\ \A c \in Clients : WF_vars(ClientStep(c))

-----------------------------------------------------------------------------
(* Properties *)

Entry ==
  [seq : Nat, no : 0 .. MaxFrames, key : BOOLEAN, pic : BOOLEAN,
   session : 0 .. MaxSessions]

StreamType ==
  [buf : [Cells -> Entry], head : Cells, count : 0 .. RingN, next : Nat,
   epoch : Nat, params : 0 .. MaxSessions, stop : BOOLEAN]

EncoderType ==
  [pc : {"idle", "opening", "on"}, session : 0 .. MaxSessions,
   made : 0 .. MaxFrames, gaps : SUBSET (1 .. MaxFrames)]

ClientType ==
  [pc : {"gone", "config", "join", "header", "loop", "write"},
   epoch : Nat, init : 0 .. MaxSessions, expected : Nat, hand : Entry,
   got : Seq(Entry), joins : 0 .. MaxJoins]

\* Every variable has its type.
TypeOK ==
  /\ st \in StreamType
  /\ enc \in EncoderType
  /\ cl \in [Clients -> ClientType]

\* The ring holds the newest frames of the session in hand and no others, in
\* order, so that a frame's number finds its cell (h264_stream.c:15, the frames in
\* the ring belong to the current epoch); it is empty before and after them.
RingOfSession ==
  /\ \A i \in 0 .. st.count - 1 : LET f == At(st, i) IN
       f.no # 0 /\ f.seq = Oldest(st) + i /\ f.session = enc.session
  /\ enc.pc # "on" => st.count = 0

\* What a client has received can be decoded: it begins with a key frame, and
\* between two frames nothing is missing but frames that never entered the ring
\* or have no picture.  An eviction, or a session that ends, never makes a hole.
Playable ==
  \A c \in Clients : LET got == cl[c].got IN
    /\ got # <<>> => got[1].key
    /\ \A i \in 1 .. Len(got) - 1 :
         /\ got[i].no < got[i + 1].no
         /\ (got[i].no + 1) .. (got[i + 1].no - 1) \subseteq enc.gaps

\* h264_stream.c:16 says clients are disconnected when a session ends: the frames a
\* client receives come from the session its initialization segment describes.
OneSession ==
  \A c \in Clients : \A i \in 1 .. Len(cl[c].got) :
    cl[c].got[i].session = cl[c].init

\* Once the stream stays without a session, or is shut down, every client's
\* thread ends, wherever it waits, so that its connection is given back.
StreamsEnd ==
  <>[](st.stop \/ st.epoch = 0) => <>[](\A c \in Clients : cl[c].pc = "gone")

=============================================================================
