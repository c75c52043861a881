------------------------------ MODULE Recorder ------------------------------
(***************************************************************************)
(* The recording thread (source/video/video_rec.c), the muxer it writes    *)
(* with (RecMp4), the directory of the recordings, and what the HTTP thread*)
(* does to them: start and stop (http_api_rec.c), clearing the directory,  *)
(* and changes of the bit rate and the size of the pictures                *)
(* (http_api_config.c).  The process may be killed at any point and is     *)
(* started again.                                                          *)
(*                                                                         *)
(* A step is a critical section of g_rec.lock or a call of the muxer.  Time*)
(* is in the choices: all segments may begin within one second, so that    *)
(* their names differ in the appended number only, and the AI may be silent*)
(* for the second after which the recorder gives up.                       *)
(***************************************************************************)
EXTENDS RecMp4, FiniteSets

CONSTANTS
  MaxFiles,     \* names that rec_mp4_create tries: 1000
  MaxChanges,   \* bound: configuration requests
  MaxCrashes    \* bound: kills of the process

ASSUME RecorderAssumption ==
  MaxFiles \in Nat \ {0} /\ MaxChanges \in Nat /\ MaxCrashes \in Nat

Names == 0 .. MaxFiles - 1
NoName == MaxFiles
NoFile == [file |-> Finished(Created), torn |-> FALSE]

\* An encoded frame; the parameter sets may come with the first one only.
Frames == {<<"sps", "pps", "idr">>, <<"idr">>, <<"slice">>, <<>>}
IsKey(frame) == frame # <<>> /\ frame[Len(frame)] = "idr"

VARIABLES
  cfg,    \* video size and bit rate of the configuration
  cam,    \* size of the pictures the AI delivers; whether it delivers
  rec,    \* g_rec
  task,   \* video_rec_task
  dir,    \* REC_DIR, for each name: "none", "open", "closed", or "cut" by a crash
  last,   \* the recording that was finished last; torn: a write of it failed
  http,   \* the request the HTTP thread is in
  app,    \* app->running, app->fatal
  hist    \* what has happened, for the properties and the bounds

vars == <<cfg, cam, rec, task, dir, last, http, app, hist>>

NoRec == [cmd |-> "none", recording |-> FALSE, file |-> NoName]
NoTask == [pc |-> "top", auto |-> TRUE, size |-> "small", rate |-> "low",
           name |-> NoName, mp4 |-> Created, torn |-> FALSE]
NoRequest == [pc |-> "none", name |-> NoName, spared |-> NoName, seen |-> NoName]

Init ==
  /\ cfg = [size |-> "small", rate |-> "low"]
  /\ cam = [size |-> "small", on |-> TRUE]
  /\ rec = NoRec
  /\ task = NoTask
  /\ dir = [n \in Names |-> "none"]
  /\ last = NoFile
  /\ http = NoRequest
  /\ app = [running |-> TRUE, fatal |-> FALSE]
  /\ hist = [changes |-> 0, crashes |-> 0, missed |-> FALSE, cut |-> FALSE]

-----------------------------------------------------------------------------
(* video_rec_task *)

Goto(pc) == task' = [task EXCEPT !.pc = pc]

\* Mutant: a pending stop is forgotten when a segment ends.
TakeCmdUnlessStop ==
  /\ task.pc = "top" /\ app.running
  /\ LET auto == task.auto \/ rec.cmd = "start" IN
       task' = [NoTask EXCEPT !.auto = auto, !.pc = IF auto THEN "dims" ELSE "top"]
  /\ rec' = [rec EXCEPT !.cmd = "none"]
  /\ UNCHANGED <<cfg, cam, dir, last, http, app, hist>>

\* The command is taken; recording begins by itself unless stopped by hand.
TakeCmd ==
  /\ task.pc = "top" /\ app.running
  /\ LET auto == (task.auto \/ rec.cmd = "start") /\ rec.cmd # "stop" IN
       task' = [NoTask EXCEPT !.auto = auto, !.pc = IF auto THEN "dims" ELSE "top"]
  /\ rec' = [rec EXCEPT !.cmd = "none",
                        !.recording = IF rec.cmd = "stop" THEN FALSE ELSE @]
  /\ UNCHANGED <<cfg, cam, dir, last, http, app, hist>>

TaskEnd ==
  /\ task.pc = "top" /\ ~app.running
  /\ task' = [NoTask EXCEPT !.auto = task.auto, !.pc = "end"]
  /\ UNCHANGED <<cfg, cam, rec, dir, last, http, app, hist>>

\* The size is read, then the frame rate measured, which takes up to two seconds.
ReadSize ==
  /\ task.pc = "dims"
  /\ task' = [task EXCEPT !.size = cfg.size, !.pc = "encoder"]
  /\ UNCHANGED <<cfg, cam, rec, dir, last, http, app, hist>>

\* Mutant: the bit rate is the one the program was started with.
CreateEncoderAsFirst ==
  /\ task.pc = "encoder"
  /\ Goto("file")
  /\ UNCHANGED <<cfg, cam, rec, dir, last, http, app, hist>>

CreateEncoder ==
  /\ task.pc = "encoder"
  /\ task' = [task EXCEPT !.rate = cfg.rate, !.pc = "file"]
  /\ UNCHANGED <<cfg, cam, rec, dir, last, http, app, hist>>

\* No video, no encoder, no file: another attempt is made.
BeginFails ==
  /\ task.pc \in {"encoder", "file"}
  /\ task' = [NoTask EXCEPT !.auto = task.auto]
  /\ UNCHANGED <<cfg, cam, rec, dir, last, http, app, hist>>

\* The first name that no file has.
FreeName == CHOOSE n \in Names : dir[n] = "none" /\ \A k \in 0 .. n - 1 : dir[k] # "none"

NameFree == \E n \in Names : dir[n] = "none"

\* Mutant: the name is not looked up in the directory.
FirstName == 0

\* When every name is taken the loop ends with the last one.
NewName == IF NameFree THEN FreeName ELSE MaxFiles - 1

\* The file is opened for writing, and cut to nothing if there is one.
CreateFile ==
  /\ task.pc = "file"
  /\ dir' = [dir EXCEPT ![NewName] = "open"]
  /\ last' = NoFile
  /\ hist' = [hist EXCEPT !.cut = FALSE]
  /\ task' = [task EXCEPT !.name = NewName, !.mp4 = Created, !.pc = "announce"]
  /\ UNCHANGED <<cfg, cam, rec, http, app>>

Announce ==
  /\ task.pc = "announce"
  /\ rec' = [rec EXCEPT !.recording = TRUE, !.file = task.name]
  /\ Goto("loop")
  /\ UNCHANGED <<cfg, cam, dir, last, http, app, hist>>

Recording == task.pc = "loop" /\ rec.recording /\ app.running
Fitting == cam.on /\ cam.size = task.size

\* What the encoder may return: a key frame first.
Encoded(frame) == task.mp4.samples = <<>> /\ frame # <<>> => IsKey(frame)

\* A picture is encoded and written; at a limit the segment ends.
Record(frame) ==
  /\ Recording /\ Fitting
  /\ Encoded(frame) /\ frame # <<>>
  /\ task' = IF Full(task.mp4, frame)
             THEN [task EXCEPT !.pc = "ending"]
             ELSE [task EXCEPT !.mp4 = Written(@, frame, IsKey(frame))]
  /\ UNCHANGED <<cfg, cam, rec, dir, last, http, app, hist>>

\* The encoder or the write fails: the segment ends.
RecordFails ==
  /\ Recording /\ Fitting
  /\ \/ Goto("ending")
     \/ \E frame \in Frames :
          /\ Encoded(frame) /\ ~Full(task.mp4, frame)
          /\ \E n \in 0 .. Len(frame) :
               /\ n = Len(frame) => frame = <<>>
               /\ task' = [task EXCEPT !.mp4 = Spoilt(@, frame, IsKey(frame), n),
                                       !.torn = TRUE, !.pc = "ending"]
  /\ UNCHANGED <<cfg, cam, rec, dir, last, http, app, hist>>

\* No picture that fits for a second: the program is to end and be restarted.
Stall ==
  /\ Recording /\ ~Fitting
  /\ app' = [running |-> FALSE, fatal |-> TRUE]
  /\ Goto("ending")
  /\ UNCHANGED <<cfg, cam, rec, dir, last, http, hist>>

LoopEnds ==
  /\ task.pc = "loop" /\ ~(rec.recording /\ app.running)
  /\ Goto("ending")
  /\ UNCHANGED <<cfg, cam, rec, dir, last, http, app, hist>>

\* rec_mp4_finalize; a file that was unlinked meanwhile stays so.
Finalize ==
  /\ task.pc = "ending"
  /\ LET kept == dir[task.name] = "open" /\ Kept(task.mp4) IN
       /\ dir' = [dir EXCEPT ![task.name] = IF kept THEN "closed" ELSE "none"]
       /\ last' = IF kept THEN [file |-> Finished(task.mp4), torn |-> task.torn] ELSE NoFile
  /\ task' = [NoTask EXCEPT !.auto = task.auto, !.name = task.name, !.pc = "closing"]
  /\ UNCHANGED <<cfg, cam, rec, http, app, hist>>

SegmentEnd ==
  /\ task.pc = "closing"
  /\ rec' = [rec EXCEPT !.recording = FALSE, !.file = NoName]
  /\ task' = [NoTask EXCEPT !.auto = task.auto]
  /\ UNCHANGED <<cfg, cam, dir, last, http, app, hist>>

-----------------------------------------------------------------------------
(* The HTTP thread *)

Idle == http.pc = "none" /\ app.running
Counted == /\ hist.changes < MaxChanges
           /\ hist' = [hist EXCEPT !.changes = @ + 1]

Start ==
  /\ Idle /\ ~rec.recording /\ rec.cmd # "start"
  /\ rec' = [rec EXCEPT !.cmd = "start"]
  /\ UNCHANGED <<cfg, cam, task, dir, last, http, app, hist>>

Stop ==
  /\ Idle /\ rec.recording /\ rec.cmd # "stop"
  /\ rec' = [rec EXCEPT !.cmd = "stop"]
  /\ UNCHANGED <<cfg, cam, task, dir, last, http, app, hist>>

\* A new bit rate is stored and saved; then video_rec_cycle_session.
ChangeRate ==
  /\ Idle /\ Counted
  /\ \E r \in {"low", "high"} \ {cfg.rate} : cfg' = [cfg EXCEPT !.rate = r]
  /\ http' = [NoRequest EXCEPT !.pc = "cycle"]
  /\ UNCHANGED <<cam, rec, task, dir, last, app>>

CycleSession ==
  /\ http.pc = "cycle"
  /\ rec' = [rec EXCEPT !.recording = FALSE]
  /\ hist' = [hist EXCEPT !.missed = task.pc \in {"file", "announce"}]
  /\ http' = NoRequest
  /\ UNCHANGED <<cfg, cam, task, dir, last, app>>

\* A new size restarts the camera only.
ChangeSize ==
  /\ Idle /\ Counted
  /\ \E s \in {"small", "large"} \ {cfg.size} : cfg' = [cfg EXCEPT !.size = s]
  /\ UNCHANGED <<cam, rec, task, dir, last, http, app>>

\* The file that the status names as being recorded.
Active == IF rec.recording THEN rec.file ELSE NoName

\* Mutant: the status is read and not looked at.
DeleteAny(n) ==
  /\ Idle
  /\ http' = [NoRequest EXCEPT !.pc = "delete", !.name = n, !.seen = Active]
  /\ UNCHANGED <<cfg, cam, rec, task, dir, last, app, hist>>

\* serve_rec_delete: the status is read, then the file removed that the client named,
\* unless it is being recorded.
DeleteBegin(n) ==
  /\ Idle /\ ~(rec.recording /\ rec.file = n)
  /\ http' = [NoRequest EXCEPT !.pc = "delete", !.name = n, !.seen = Active]
  /\ UNCHANGED <<cfg, cam, rec, task, dir, last, app, hist>>

DeleteEnd ==
  /\ http.pc = "delete"
  /\ dir' = [dir EXCEPT ![http.name] = "none"]
  /\ hist' = [hist EXCEPT !.cut = @ \/ (dir[http.name] = "open" /\ http.name # http.seen)]
  /\ http' = NoRequest
  /\ UNCHANGED <<cfg, cam, rec, task, last, app>>

\* serve_rec_clear: the status is read, then the directory gone through; only the
\* file that was being recorded is kept.
ClearBegin ==
  /\ Idle
  /\ http' = [pc |-> "clear", name |-> NoName, spared |-> Active, seen |-> Active]
  /\ UNCHANGED <<cfg, cam, rec, task, dir, last, app, hist>>

Unlink(n) ==
  /\ http.pc = "clear" /\ n # http.spared /\ dir[n] # "none"
  /\ dir' = [dir EXCEPT ![n] = "none"]
  /\ hist' = [hist EXCEPT !.cut = @ \/ (dir[n] = "open" /\ n # http.seen)]
  /\ UNCHANGED <<cfg, cam, rec, task, last, http, app>>

ClearEnd ==
  /\ http.pc = "clear"
  /\ http' = NoRequest
  /\ UNCHANGED <<cfg, cam, rec, task, dir, last, app, hist>>

-----------------------------------------------------------------------------
(* The surroundings *)

\* The camera has restarted with the size of the configuration.
CameraRestart ==
  /\ cam.size # cfg.size
  /\ cam' = [cam EXCEPT !.size = cfg.size]
  /\ UNCHANGED <<cfg, rec, task, dir, last, http, app, hist>>

\* The inference pool stops or goes on.
AiToggle ==
  /\ cam' = [cam EXCEPT !.on = ~@]
  /\ UNCHANGED <<cfg, rec, task, dir, last, http, app, hist>>

Shutdown ==
  /\ app.running
  /\ app' = [app EXCEPT !.running = FALSE]
  /\ UNCHANGED <<cfg, cam, rec, task, dir, last, http, hist>>

\* The process is killed, and started again with the saved configuration.
Crash ==
  /\ hist.crashes < MaxCrashes
  /\ dir' = [n \in Names |-> IF dir[n] = "open" THEN "cut" ELSE dir[n]]
  /\ rec' = NoRec /\ task' = NoTask /\ http' = NoRequest /\ last' = NoFile
  /\ app' = [running |-> TRUE, fatal |-> FALSE]
  /\ cam' = [size |-> cfg.size, on |-> TRUE]
  /\ hist' = [hist EXCEPT !.crashes = @ + 1, !.missed = FALSE, !.cut = FALSE]
  /\ UNCHANGED cfg

-----------------------------------------------------------------------------
Task ==
  \/ TakeCmd \/ TaskEnd \/ ReadSize \/ CreateEncoder \/ BeginFails \/ CreateFile
  \/ Announce \/ Stall \/ LoopEnds \/ Finalize \/ SegmentEnd \/ RecordFails
  \/ \E frame \in Frames : Record(frame)

Http ==
  \/ Start \/ Stop \/ ChangeRate \/ CycleSession \/ ChangeSize
  \/ DeleteEnd \/ ClearBegin \/ ClearEnd
  \/ \E n \in Names : DeleteBegin(n) \/ Unlink(n)

Next == Task \/ Http \/ CameraRestart \/ AiToggle \/ Shutdown \/ Crash

Spec == Init /\ [][Next]_vars

\* The recording thread runs.
FairSpec == Spec /\ WF_vars(Task)

-----------------------------------------------------------------------------
(* Properties *)

\* Every recording that is kept plays: moov lies behind mdat, the tables name each
\* sample where it is, and the key frames.  A failed write may leave it without a
\* readable moov, or with one key frame too many, but its sample table stays true.
KeptFilesPlay ==
  last # NoFile => SamplesFound(last.file) /\ (last.torn \/ PlaysWhole(last.file))

\* While the status names a file (http_api_rec.c reads it to spare that file), it is
\* the one being written, and it is in the directory, unless a request removed it
\* that had read the status when this file was not the one announced.
AnnouncedOpen ==
  rec.file # NoName =>
    /\ task.name = rec.file /\ task.pc \in {"loop", "ending", "closing"}
    /\ task.pc = "closing" \/ dir[rec.file] = "open" \/ hist.cut

\* A segment is recorded with the configured bit rate: a change ends the segment
\* that was begun before it.  The exception is a change that finds the encoder
\* created and the segment not yet announced (video_rec.c:226-282).
RateTaken ==
  Recording /\ http.pc # "cycle" /\ cfg.rate # task.rate => hist.missed

\* The program gives up on the AI only when the AI delivers no pictures
\* (video_rec.c:303); a change of the size needs no restart (video_stream.c:451).
GivesUpOnSilence == [][app'.fatal => app.fatal \/ ~cam.on]_vars

\* No recording is written again once it is finished or was cut by a crash, though
\* names are given by the second and the process starts anew (rec_mp4_create); as
\* long as one of the names is free: with all of them taken, the file with the last
\* one is cut to nothing and written again, and no other file is.
NeverOverwritten ==
  [][\A n \in Names :
       dir[n] \in {"closed", "cut"} /\ (NameFree \/ n # MaxFiles - 1)
         => dir'[n] \in {dir[n], "none"}]_vars

\* An accepted stop takes effect, at the latest when the segment reaches its limit:
\* recording stops and does not begin again by itself, unless it is started again,
\* or the program ends (video_rec_stop, video_rec_task).
StopTakesEffect ==
  rec.cmd = "stop" ~>
    \/ ~task.auto /\ ~rec.recording
    \/ rec.cmd = "start" \/ ~app.running \/ hist.crashes > 0
=============================================================================
