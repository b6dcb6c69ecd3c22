-------------------------------- MODULE MCFiles --------------------------------
(***************************************************************************)
(* Five parts that keep bytes, each on its own: still images, the log, the *)
(* buffer between the frames and the video file, the directory of the      *)
(* recordings, and the line buffer of native clients.  A behaviour is one  *)
(* of the part that its initial state names.                               *)
(***************************************************************************)
EXTENDS StillCapture, LogRotation, WriterBuffer, MotionDirectory, LineBuffer

VARIABLE part

partVars == <<part, stillVars, logVars, bufferVars, dirVars, lineVars>>

PartInit ==
  /\ part \in {"still", "log", "buffer", "directory", "lines"}
  /\ StillInit /\ LogInit /\ BufferInit /\ DirInit /\ LineInit

PartNext ==
  /\ part' = part
  /\ \/ part = "still" /\ StillNext /\ UNCHANGED <<logVars, bufferVars, dirVars, lineVars>>
     \/ part = "log" /\ LogNext /\ UNCHANGED <<stillVars, bufferVars, dirVars, lineVars>>
     \/ part = "buffer" /\ BufferNext /\ UNCHANGED <<stillVars, logVars, dirVars, lineVars>>
     \/ part = "directory" /\ DirNext /\ UNCHANGED <<stillVars, logVars, bufferVars, lineVars>>
     \/ part = "lines" /\ LineNext /\ UNCHANGED <<stillVars, logVars, bufferVars, dirVars>>

PartSpec == PartInit /\ [][PartNext]_partVars
=============================================================================
