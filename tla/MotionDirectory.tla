---------------------------- MODULE MotionDirectory ----------------------------
(***************************************************************************)
(* The directory of the motion recordings.  The drain thread opens the     *)
(* files of a recording, the writer threads fill them, and the end of a    *)
(* recording closes and renames them and posts a LimitTotalDirSizeTask.    *)
(* The task runs on a queue of its own while the next recording may be on: *)
(* it lists the directory once and then deletes the oldest files.          *)
(*                                                                         *)
(* Recording k has the files 2k - 1 (video) and 2k (motion vectors): their *)
(* names have the date in them, and are in this order.  The extension      *)
(* .saving ends the name of an open file, and does not change the order.   *)
(***************************************************************************)
EXTENDS Naturals, FiniteSets, FiniteSetsExt

CONSTANTS
  SizeLimit,      \* total file size limit
  MaxVideo,       \* bytes of a video file
  MaxVectors,     \* bytes of a file of motion vectors
  MaxRecordings,  \* bound: recordings
  MaxTasks        \* bound: posted tasks

(* "the imv file is relatively small" (raspi_motionfile.cc:120)             *)
ASSUME DirectoryAssumption ==
  /\ {SizeLimit, MaxVideo, MaxVectors, MaxRecordings, MaxTasks} \subseteq Nat
  /\ MaxVectors <= SizeLimit

VARIABLES
  length,    \* file size by number, for the files there are
  saving,    \* files whose name still has the extension
  recording, \* recordings so far
  stage,     \* what the drain thread is at
  tasks,     \* posted and not started
  scan,      \* what the running task has listed, and its total
  owed       \* a recording ended without a task, and none was posted since

dirVars == <<length, saving, recording, stage, tasks, scan, owed>>

Files == 1..(2 * MaxRecordings)
NoScan == [on |-> FALSE, list |-> {}, total |-> 0]
Videos == {2 * k - 1 : k \in 1..MaxRecordings}
Existing == DOMAIN length
Total(list) == FoldSet(LAMBDA f, n : n + f.size, 0, list)

DirInit ==
  /\ length = [f \in {} |-> 0]
  /\ saving = {} /\ recording = 0 /\ stage = "idle"
  /\ tasks = 0 /\ scan = NoScan /\ owed = FALSE

-----------------------------------------------------------------------------
(* The drain thread and the writer threads *)

StartWriter ==
  /\ stage = "idle" /\ recording < MaxRecordings
  /\ recording' = recording + 1
  /\ LET new == {2 * recording + 1, 2 * recording + 2}
     IN  /\ length' = [f \in Existing \cup new |->
                        IF f \in new THEN 0 ELSE length[f]]
         /\ saving' = saving \cup new
  /\ stage' = "recording"
  /\ UNCHANGED <<tasks, scan, owed>>

(* A file that was deleted is written all the same, and is not there.       *)
Fill(f) ==
  /\ stage = "recording" /\ (f + 1) \div 2 = recording
  /\ f \in Existing
  /\ length[f] < (IF f \in Videos THEN MaxVideo ELSE MaxVectors)
  /\ length' = [length EXCEPT ![f] = @ + 1]
  /\ UNCHANGED <<saving, recording, stage, tasks, scan, owed>>

(* StopWriter closes and renames the video first.                           *)
CloseVideo ==
  /\ stage = "recording"
  /\ saving' = saving \ {2 * recording - 1}
  /\ stage' = "closing"
  /\ UNCHANGED <<length, recording, tasks, scan, owed>>

CloseVectors ==
  /\ stage = "closing"
  /\ saving' = saving \ {2 * recording}
  /\ stage' = "post"
  /\ UNCHANGED <<length, recording, tasks, scan, owed>>

PostTask ==
  /\ stage = "post" /\ tasks < MaxTasks
  /\ tasks' = tasks + 1
  /\ stage' = "idle"
  /\ owed' = FALSE
  /\ UNCHANGED <<length, saving, recording, scan>>

(* A session takes the camera: DrainProcess closes the files and posts no   *)
(* task; the queue goes with the RaspiMotion, which waits for the task that *)
(* runs.                                                                    *)
Interrupt ==
  /\ stage \in {"idle", "recording"} /\ ~scan.on
  /\ saving' = IF stage = "recording"
               THEN saving \ {2 * recording - 1, 2 * recording} ELSE saving
  /\ owed' = (owed \/ stage = "recording" \/ tasks > 0)
  /\ stage' = "idle" /\ tasks' = 0
  /\ UNCHANGED <<length, recording, scan>>

(* The program dies and is started again; a file keeps its extension.       *)
DieAndRestart ==
  /\ owed' = (owed \/ stage # "idle" \/ tasks > 0 \/ scan.on)
  /\ stage' = "idle" /\ tasks' = 0 /\ scan' = NoScan
  /\ UNCHANGED <<length, saving, recording>>

-----------------------------------------------------------------------------
(* LimitTotalDirSizeTask::Run *)

Entry(f) == [file |-> f, saving |-> f \in saving, size |-> length[f]]

List ==
  /\ tasks > 0 /\ ~scan.on
  /\ tasks' = tasks - 1
  /\ scan' = LET all == {Entry(f) : f \in Existing}
             IN  [on |-> TRUE, list |-> all, total |-> Total(all)]
  /\ UNCHANGED <<length, saving, recording, stage, owed>>

(* file_list.front() after the sort.                                        *)
Front(list) == CHOOSE e \in list : \A o \in list : e.file <= o.file

(* Bug: the size is compared before the file is taken off.                  *)
ExceedsAll(s) == s.list # {} /\ s.total > SizeLimit

(* A file is deleted if what remains without it is still too much.          *)
Exceeds(s) == s.list # {} /\ s.total - Front(s.list).size > SizeLimit

(* The name is the one that was listed: a file that was renamed since stays.*)
Remove ==
  /\ scan.on /\ Exceeds(scan)
  /\ LET e == Front(scan.list)
         gone == IF e.saving = (e.file \in saving) THEN {e.file} ELSE {}
     IN  /\ length' = [f \in Existing \ gone |-> length[f]]
         /\ scan' = [scan EXCEPT !.list = @ \ {e}, !.total = @ - e.size]
  /\ UNCHANGED <<saving, recording, stage, tasks, owed>>

Return ==
  /\ scan.on /\ ~Exceeds(scan)
  /\ scan' = NoScan
  /\ UNCHANGED <<length, saving, recording, stage, tasks, owed>>

DirNext ==
  \/ StartWriter \/ CloseVideo \/ CloseVectors \/ PostTask
  \/ Interrupt \/ DieAndRestart \/ List \/ Remove \/ Return
  \/ \E f \in Files : Fill(f)

DirSpec == DirInit /\ [][DirNext]_dirVars

DirTypeOK ==
  /\ Existing \subseteq Files /\ length \in [Existing -> Nat]
  /\ saving \subseteq Files /\ recording \in 0..MaxRecordings
  /\ stage \in {"idle", "recording", "closing", "post"}
  /\ tasks \in 0..MaxTasks /\ owed \in BOOLEAN
  /\ scan \in [on : BOOLEAN, total : Nat,
               list : SUBSET [file : Files, saving : BOOLEAN, size : Nat]]

-----------------------------------------------------------------------------
(* Properties *)

OldestFile == CHOOSE f \in Existing : \A g \in Existing : f <= g

(* Only the oldest files are deleted, never a file of the latest recording, *)
(* however the recordings and the task interleave, and when all tasks are   *)
(* done the files without the oldest are within the limit, unless the last  *)
(* recording was cut short (raspi_motionfile.cc:62-105, raspi_motion.cc:    *)
(* 362-371).                                                                *)
DirectoryLimited ==
  /\ recording > 0 => /\ Existing # {}
                      /\ OldestFile..(2 * recording) = Existing
                      /\ {2 * recording - 1, 2 * recording} \subseteq Existing
  /\ Existing # {} /\ stage = "idle" /\ tasks = 0 /\ ~scan.on /\ ~owed =>
       Total({Entry(f) : f \in Existing \ {OldestFile}}) <= SizeLimit
=============================================================================
