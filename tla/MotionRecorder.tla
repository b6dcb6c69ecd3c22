---------------------------- MODULE MotionRecorder ----------------------------
(***************************************************************************)
(* Motion detection records video: RaspiMotion's drain thread takes frames *)
(* and motion vectors (IMV) from the encoder, follows the detection state  *)
(* and starts and stops RaspiMotionFile.  That has two FileWriterHandles,  *)
(* for the video and, if configured, for the motion vectors.  Each has a   *)
(* buffer that is always filled, and while its file is open a writer       *)
(* thread that empties it into the file.                                   *)
(*                                                                         *)
(* The threads are the drain thread, a writer per handle and the main      *)
(* thread, which only asks the drain thread to end.  A buffer has a mutex, *)
(* so an access to it is one step; writer_lock_ is held by a writer while  *)
(* it writes and by the drain thread for the whole of Close.  is_open(),   *)
(* writer_quit_, the limit and the count are read without it.              *)
(*                                                                         *)
(* A frame is its number, and also stands for its motion vector.  One      *)
(* lifetime of a RaspiMotion is modelled: RaspiMotionHolder makes a new    *)
(* one for each start.                                                     *)
(***************************************************************************)
EXTENDS Integers, Sequences

CONSTANTS
  MaxFrames,            \* bounds the frames of one lifetime
  KeyFrames,            \* numbers of the key frames
  FileSizeLimit,        \* motion_file_size_limit, in frames; 0 is no limit
  SaveImv,              \* motion_save_imv_file
  MayFail,              \* whether opening or writing a file may fail
  DefaultWaitPeriod     \* kDefaultMotionClearWaitPeriod, in ticks

ASSUME FramesAssumption == MaxFrames \in Nat /\ KeyFrames \subseteq Nat
ASSUME LimitAssumption == FileSizeLimit \in Nat
ASSUME SwitchAssumption == {SaveImv, MayFail} \subseteq BOOLEAN
ASSUME PeriodAssumption == DefaultWaitPeriod \in Nat

VARIABLES
  frames,    \* number of the latest frame
  imvs,      \* number of the latest motion vector
  motion,    \* motion_state_
  waited,    \* ticks since motion_clear_wait_timestamp_
  quitting,  \* motion_drain_quit_
  active,    \* writer_active_
  drain,     \* where the drain thread is, and with which handle
  buffer,    \* what each FileWriterBuffer holds
  open,      \* is_open() of each handle
  file,      \* what has been written to its file
  writer,    \* where its writer thread is
  lock,      \* who holds writer_lock_
  quit,      \* writer_quit_
  limit,     \* file_size_limit_
  written,   \* file_written_
  fresh,     \* a key frame came while the video file was closed
  lost,      \* a frame has been taken off the buffer and not been saved
  raced,     \* a writer has run before Open had set its variables
  failed     \* opening a file has failed

streamVars == <<frames, imvs>>
motionVars == <<motion, waited, quitting, active>>
fileVars == <<open, file>>
limitVars == <<quit, limit, written>>
historyVars == <<fresh, lost, raced, failed>>
vars == <<streamVars, motionVars, drain, buffer, fileVars, writer, lock,
          limitVars, historyVars>>

Handles == {"frame", "imv"}
DrainPCs == {"loop", "open", "rejoin", "set", "close", "join", "ended"}
WriterPCs == {"none", "loop", "test", "lock", "write", "discard", "ended"}

TypeOK ==
  /\ frames \in 0..MaxFrames
  /\ imvs \in 0..frames
  /\ motion \in {"cleared", "triggered", "wait_clear"}
  /\ waited \in 0..(DefaultWaitPeriod + 1)
  /\ quitting \in BOOLEAN
  /\ active \in BOOLEAN
  /\ drain \in [pc : DrainPCs, h : Handles]
  /\ buffer \in [Handles -> Seq(1..MaxFrames)]
  /\ open \in [Handles -> BOOLEAN]
  /\ file \in [Handles -> Seq(1..MaxFrames)]
  /\ writer \in [Handles -> WriterPCs]
  /\ lock \in [Handles -> {"free", "drain", "writer"}]
  /\ quit \in [Handles -> BOOLEAN]
  /\ limit \in [Handles -> {0, FileSizeLimit}]
  /\ written \in [Handles -> Nat]
  /\ fresh \in BOOLEAN
  /\ lost \in [Handles -> BOOLEAN]
  /\ raced \in [Handles -> BOOLEAN]
  /\ failed \in BOOLEAN

(* The constructor of FileWriterHandle sets neither writer_quit_ nor the    *)
(* limit nor the count.                                                     *)
Init ==
  /\ frames = 0
  /\ imvs = 0
  /\ motion = "cleared"
  /\ waited = 0
  /\ quitting = FALSE
  /\ active = FALSE
  /\ drain = [pc |-> "loop", h |-> "frame"]
  /\ buffer = [h \in Handles |-> <<>>]
  /\ open = [h \in Handles |-> FALSE]
  /\ file = [h \in Handles |-> <<>>]
  /\ writer = [h \in Handles |-> "none"]
  /\ lock = [h \in Handles |-> "free"]
  /\ quit \in [Handles -> BOOLEAN]
  /\ limit \in [Handles -> {0, FileSizeLimit}]
  /\ written \in [Handles -> {0, FileSizeLimit + 1}]
  /\ fresh = FALSE
  /\ lost = [h \in Handles |-> FALSE]
  /\ raced = [h \in Handles |-> FALSE]
  /\ failed = FALSE

-----------------------------------------------------------------------------
(* The drain thread: frames and motion vectors *)

DrainAt(pc, h) == drain = [pc |-> pc, h |-> h]
Goto(pc, h) == drain' = [pc |-> pc, h |-> h]
Looping == drain.pc = "loop" /\ ~quitting

(* Bug: a key frame clears the buffers of open files, too.                  *)
QueuedAlwaysClears(f, h) ==
  LET kept == IF f \in KeyFrames THEN <<>> ELSE buffer[h]
  IN IF h = "frame" THEN Append(kept, f) ELSE kept

(* Bug: what an earlier recording left in the buffer stays in it.           *)
QueuedNeverClears(f, h) == IF h = "frame" THEN Append(buffer[h], f) ELSE buffer[h]

(* FrameQueuing: a key frame clears the buffers of the files that are not   *)
(* open.                                                                    *)
Queued(f, h) ==
  LET kept == IF f \in KeyFrames /\ ~open[h] THEN <<>> ELSE buffer[h]
  IN IF h = "frame" THEN Append(kept, f) ELSE kept

FrameArrives ==
  /\ Looping
  /\ frames < MaxFrames
  /\ frames' = frames + 1
  /\ buffer' = [h \in Handles |-> Queued(frames + 1, h)]
  /\ fresh' = (fresh \/ (frames + 1 \in KeyFrames /\ ~open["frame"]))
  /\ UNCHANGED <<imvs, motionVars, drain, fileVars, writer, lock, limitVars,
                 lost, raced, failed>>

(* The end of the constructor overwrites the configured period, which it    *)
(* has set before, with the default.                                        *)
WaitPeriod == DefaultWaitPeriod

(* OnActivePoints: with few active points the motion is over once the       *)
(* period has passed.                                                       *)
AfterPoints ==
  {motion} \cup (IF motion = "wait_clear" /\ waited > WaitPeriod
                 THEN {"cleared"} ELSE {})

(* Analyse reports a change of the number of active blobs: to 0 by          *)
(* OnMotionCleared, else by OnMotionTriggered.  There are active blobs      *)
(* exactly when the motion is triggered.                                    *)
AfterBlobs(m) ==
  IF m = "triggered" THEN {"triggered", "wait_clear"} ELSE {m, "triggered"}

(* Bug: the writer is stopped and started before the vector is analysed.    *)
ImvArrivesLate ==
  /\ Looping
  /\ imvs < frames
  /\ imvs' = frames
  /\ buffer' = [buffer EXCEPT !["imv"] = Append(@, frames)]
  /\ \E m \in AfterPoints : motion' \in AfterBlobs(m)
  /\ waited' = IF motion' = "wait_clear" /\ motion = "triggered" THEN 0 ELSE waited
  /\ \/ /\ motion = "cleared" /\ active
        /\ active' = FALSE
        /\ Goto("close", "frame")
     \/ /\ motion = "triggered" /\ ~active
        /\ Goto("open", "frame")
        /\ UNCHANGED active
     \/ /\ ~(motion = "cleared" /\ active)
        /\ ~(motion = "triggered" /\ ~active)
        /\ UNCHANGED <<active, drain>>
  /\ UNCHANGED <<frames, quitting, fileVars, writer, lock, limitVars, historyVars>>

(* DrainProcess queues and analyses a motion vector, then stops or starts   *)
(* the writer.                                                              *)
ImvArrives ==
  /\ Looping
  /\ imvs < frames
  /\ imvs' = frames
  /\ buffer' = [buffer EXCEPT !["imv"] = Append(@, frames)]
  /\ \E m \in AfterPoints : motion' \in AfterBlobs(m)
  /\ waited' = IF motion' = "wait_clear" /\ motion = "triggered" THEN 0 ELSE waited
  /\ \/ /\ motion' = "cleared" /\ active
        /\ active' = FALSE
        /\ Goto("close", "frame")
     \/ /\ motion' = "triggered" /\ ~active
        /\ Goto("open", "frame")
        /\ UNCHANGED active
     \/ /\ ~(motion' = "cleared" /\ active)
        /\ ~(motion' = "triggered" /\ ~active)
        /\ UNCHANGED <<active, drain>>
  /\ UNCHANGED <<frames, quitting, fileVars, writer, lock, limitVars, historyVars>>

Tick ==
  /\ motion = "wait_clear"
  /\ waited <= WaitPeriod
  /\ waited' = waited + 1
  /\ UNCHANGED <<streamVars, motion, quitting, active, drain, buffer, fileVars,
                 writer, lock, limitVars, historyVars>>

(* StopCapture, on the main thread, which then joins the drain thread.      *)
StopCapture ==
  /\ ~quitting
  /\ quitting' = TRUE
  /\ UNCHANGED <<streamVars, motion, waited, active, drain, buffer, fileVars,
                 writer, lock, limitVars, historyVars>>

(* The drain thread stops the writer before it ends.  If it is not active   *)
(* the handles are closed all the same, by their destructors.               *)
DrainQuits ==
  /\ drain.pc = "loop"
  /\ quitting
  /\ active' = FALSE
  /\ Goto("close", "frame")
  /\ UNCHANGED <<streamVars, motion, waited, quitting, buffer, fileVars, writer,
                 lock, limitVars, historyVars>>

-----------------------------------------------------------------------------
(* FileWriterHandle::Open and Close, on the drain thread *)

(* The writer runs as soon as it is spawned.  If the handle has a thread    *)
(* already, which is so after the motion vectors' file could not be opened, *)
(* assigning the new thread joins the old one; the one writer stands for    *)
(* both.                                                                    *)
Open(h) ==
  /\ DrainAt("open", h)
  /\ open' = [open EXCEPT ![h] = TRUE]
  /\ file' = [file EXCEPT ![h] = <<>>]
  /\ lost' = [lost EXCEPT ![h] = @ /\ writer[h] # "none"]
  /\ raced' = [raced EXCEPT ![h] = FALSE]
  /\ fresh' = (fresh /\ (h = "frame" => ~open[h]))
  /\ IF writer[h] = "none"
     THEN writer' = [writer EXCEPT ![h] = "loop"] /\ Goto("set", h)
     ELSE UNCHANGED writer /\ Goto("rejoin", h)
  /\ UNCHANGED <<streamVars, motionVars, buffer, lock, limitVars, failed>>

Rejoin(h) ==
  /\ DrainAt("rejoin", h)
  /\ writer[h] = "ended"
  /\ writer' = [writer EXCEPT ![h] = "loop"]
  /\ Goto("set", h)
  /\ UNCHANGED <<streamVars, motionVars, buffer, fileVars, lock, limitVars,
                 historyVars>>

(* StartWriter returns with writer_active_ still false.  If there is no     *)
(* such directory file_ is left alone, else it is closed.                   *)
OpenFails(h) ==
  /\ MayFail
  /\ DrainAt("open", h)
  /\ \/ UNCHANGED <<fileVars, fresh>>
     \/ /\ open' = [open EXCEPT ![h] = FALSE]
        /\ file' = [file EXCEPT ![h] = <<>>]
        /\ fresh' = (fresh /\ (h = "frame" => ~open[h]))
  /\ Goto("loop", "frame")
  /\ failed' = TRUE
  /\ UNCHANGED <<streamVars, motionVars, buffer, writer, lock, limitVars, lost,
                 raced>>

OpenSets(h) ==
  /\ DrainAt("set", h)
  /\ quit' = [quit EXCEPT ![h] = FALSE]
  /\ limit' = [limit EXCEPT ![h] = IF h = "frame" THEN FileSizeLimit ELSE 0]
  /\ written' = [written EXCEPT ![h] = 0]
  /\ IF h = "frame" /\ SaveImv
     THEN Goto("open", "imv") /\ UNCHANGED active
     ELSE Goto("loop", "frame") /\ active' = TRUE
  /\ UNCHANGED <<streamVars, motion, waited, quitting, buffer, fileVars, writer,
                 lock, historyVars>>

Close(h) ==
  /\ DrainAt("close", h)
  /\ lock[h] = "free"
  /\ lock' = [lock EXCEPT ![h] = "drain"]
  /\ open' = [open EXCEPT ![h] = FALSE]
  /\ file' = [file EXCEPT ![h] = <<>>]
  /\ quit' = [quit EXCEPT ![h] = @ \/ writer[h] # "none"]
  /\ fresh' = (fresh /\ h # "frame")
  /\ Goto("join", h)
  /\ UNCHANGED <<streamVars, motionVars, buffer, writer, limit, written, lost,
                 raced, failed>>

(* Still under writer_lock_.  With both handles closed, a drain thread that *)
(* has been asked to quit has nothing left to do.                           *)
Joined(h) ==
  /\ DrainAt("join", h)
  /\ writer[h] \in {"none", "ended"}
  /\ writer' = [writer EXCEPT ![h] = "none"]
  /\ limit' = [limit EXCEPT ![h] = 0]
  /\ written' = [written EXCEPT ![h] = 0]
  /\ lock' = [lock EXCEPT ![h] = "free"]
  /\ IF h = "frame" THEN Goto("close", "imv")
     ELSE Goto(IF quitting THEN "ended" ELSE "loop", "frame")
  /\ UNCHANGED <<streamVars, motionVars, buffer, fileVars, quit, historyVars>>

-----------------------------------------------------------------------------
(* The writer thread of a handle: WriterProcess *)

(* A step of the writer from pc to next, which may come before Open has set *)
(* what the writer reads.                                                   *)
WriterGoes(h, pc, next) ==
  /\ writer[h] = pc
  /\ writer' = [writer EXCEPT ![h] = next]
  /\ raced' = [raced EXCEPT ![h] = @ \/ DrainAt("set", h)]
  /\ UNCHANGED <<streamVars, motionVars, drain, fileVars, quit, limit, fresh, failed>>

(* Bug: a writer with nothing to write ends.                                *)
WriterLoopEnds(h) ==
  /\ WriterGoes(h, "loop",
       IF ~open[h] \/ quit[h] \/ buffer[h] = <<>> THEN "ended" ELSE "test")
  /\ UNCHANGED <<buffer, lock, written, lost>>

(* With an empty buffer the writer waits for at most 10 ms, for an Event    *)
(* that it may also find set already.                                       *)
WriterLoop(h) ==
  /\ WriterGoes(h, "loop", IF ~open[h] \/ quit[h] THEN "ended" ELSE "test")
  /\ UNCHANGED <<buffer, lock, written, lost>>

(* Bug: after the wait the file is not looked at again.                     *)
WriterTestSize(h) ==
  /\ WriterGoes(h, "test", IF buffer[h] # <<>> THEN "lock" ELSE "loop")
  /\ UNCHANGED <<buffer, lock, written, lost>>

WriterTest(h) ==
  /\ WriterGoes(h, "test", IF open[h] /\ buffer[h] # <<>> THEN "lock" ELSE "loop")
  /\ UNCHANGED <<buffer, lock, written, lost>>

(* The size is looked at once for all that is in the buffer.                *)
OverLimit(h) == limit[h] # 0 /\ written[h] > limit[h]

WriterLock(h) ==
  /\ lock[h] = "free"
  /\ open[h]
  /\ lock' = [lock EXCEPT ![h] = "writer"]
  /\ WriterGoes(h, "lock", IF OverLimit(h) THEN "discard" ELSE "write")
  /\ UNCHANGED <<buffer, written, lost>>

(* Write returns at once if there is no file any more.                      *)
WriterLockNoFile(h) ==
  /\ lock[h] = "free"
  /\ ~open[h]
  /\ WriterGoes(h, "lock", "loop")
  /\ UNCHANGED <<buffer, lock, written, lost>>

(* Write moves the buffer to the file piece by piece; meanwhile the drain   *)
(* thread may add to the buffer.                                            *)
WriterWrites(h) ==
  /\ writer[h] = "write"
  /\ open[h]
  /\ buffer[h] # <<>>
  /\ buffer' = [buffer EXCEPT ![h] = Tail(@)]
  /\ file' = [file EXCEPT ![h] = Append(@, Head(buffer[h]))]
  /\ written' = [written EXCEPT ![h] = @ + 1]
  /\ raced' = [raced EXCEPT ![h] = @ \/ DrainAt("set", h)]
  /\ UNCHANGED <<streamVars, motionVars, drain, open, writer, lock, quit, limit,
                 fresh, lost, failed>>

(* What could not be written is no longer in the buffer.  A file that Open  *)
(* has closed under the writer's hands counts as one that cannot be written *)
(* (that the process may die of it is left out).                            *)
WriterFails(h) ==
  /\ MayFail
  /\ buffer[h] # <<>>
  /\ buffer' = [buffer EXCEPT ![h] = Tail(@)]
  /\ lost' = [lost EXCEPT ![h] = TRUE]
  /\ lock' = [lock EXCEPT ![h] = "free"]
  /\ WriterGoes(h, "write", "loop")
  /\ UNCHANGED written

WriterDiscards(h) ==
  /\ buffer[h] # <<>>
  /\ buffer' = [buffer EXCEPT ![h] = Tail(@)]
  /\ lost' = [lost EXCEPT ![h] = TRUE]
  /\ WriterGoes(h, "discard", "discard")
  /\ UNCHANGED <<lock, written>>

WriterReturns(h) ==
  /\ buffer[h] = <<>>
  /\ lock' = [lock EXCEPT ![h] = "free"]
  /\ \E pc \in {"write", "discard"} : WriterGoes(h, pc, "loop")
  /\ UNCHANGED <<buffer, written, lost>>

-----------------------------------------------------------------------------
DrainHandle(h) ==
  Open(h) \/ Rejoin(h) \/ OpenFails(h) \/ OpenSets(h) \/ Close(h) \/ Joined(h)

Writer(h) ==
  \/ WriterLoop(h) \/ WriterTest(h) \/ WriterLock(h) \/ WriterLockNoFile(h)
  \/ WriterWrites(h) \/ WriterFails(h) \/ WriterDiscards(h) \/ WriterReturns(h)

Next ==
  \/ FrameArrives
  \/ ImvArrives
  \/ Tick
  \/ StopCapture
  \/ DrainQuits
  \/ \E h \in Handles : DrainHandle(h) \/ Writer(h)

Spec == Init /\ [][Next]_vars

(* The threads run.  Nothing is assumed of the encoder, of the motion or of *)
(* the main thread.                                                         *)
FairSpec ==
  /\ Spec
  /\ WF_vars(DrainQuits)
  /\ \A h \in Handles : WF_vars(DrainHandle(h)) /\ WF_vars(Writer(h))

-----------------------------------------------------------------------------
(* Properties *)

(* Detection and recording agree whenever the drain thread waits for the    *)
(* encoder: what is recorded is motion, and motion is recorded unless a     *)
(* file could not be opened (raspi_motion.cc:357-376).                      *)
RecordsMotion ==
  Looping => /\ active => motion # "cleared"
             /\ motion = "triggered" => active \/ failed

(* The video in the file and the frames that wait for the writer are all    *)
(* frames up to the latest, in order, unless the size limit or a failed     *)
(* write has cost some (file_writer_handle.cc:211-242).                     *)
Saved == file["frame"] \o buffer["frame"]
Contiguous ==
  ~lost["frame"] =>
    \A i \in 1..Len(Saved) : Saved[i] = frames - Len(Saved) + i

(* A file begins with a key frame if one has come since the file before it  *)
(* was closed (raspi_motionfile.cc:133-144), unless frames were lost.       *)
BeginsWithKey ==
  open["frame"] /\ fresh /\ ~lost["frame"] =>
    Saved # <<>> /\ Saved[1] \in KeyFrames

(* While a recording is on its files have writers, as long as these did not *)
(* run ahead of Open (file_writer_handle.cc:155-166, 188-209).              *)
RecordingHasWriters ==
  active => \A h \in Handles :
    open[h] /\ ~raced[h] => writer[h] \notin {"none", "ended"}

(* Close returns if the writer was not about to take writer_lock_ when the  *)
(* file was closed (file_writer_handle.cc:188-204).                         *)
CloseReturns ==
  \A h \in Handles :
    (DrainAt("join", h) /\ writer[h] # "lock") ~> ~DrainAt("join", h)

(* It returns since that writer never comes to need the lock: what it does  *)
(* while it is joined brings it to its end.                                 *)
JoinedWriterEnds ==
  [][\A h \in Handles : DrainAt("join", h) /\ writer[h] # "lock" =>
       \/ writer'[h] = writer[h] /\ ~Writer(h)
       \/ writer[h] = "test" /\ writer'[h] = "loop"
       \/ writer[h] = "loop" /\ writer'[h] = "ended"
       \/ Joined(h)]_vars

(* A writer that was about to take the lock waits for the drain thread that *)
(* joins it (file_writer_handle.cc:180-181, 188-204), and no step of any    *)
(* thread ever parts the two.                                               *)
Blocked(h) == DrainAt("join", h) /\ writer[h] = "lock"
BlockedForGood == [][\A h \in Handles : Blocked(h) => Blocked(h)']_vars

(* What is in the buffer of an open file is taken by a writer that did not  *)
(* run ahead of Open.                                                       *)
BufferIsWritten ==
  \A h \in Handles :
    (open[h] /\ ~raced[h] /\ buffer[h] # <<>>)
      ~> (buffer[h] = <<>> \/ ~open[h] \/ raced[h])
=============================================================================
