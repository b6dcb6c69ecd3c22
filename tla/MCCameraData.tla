----------------------------- MODULE MCCameraData -----------------------------
(***************************************************************************)
(* Three parts that do sums with the camera's data, each on its own: the   *)
(* settings of the stream, the histories of the motion vectors, and the    *)
(* blobs.  A behaviour is one of the part that its initial state names.    *)
(*                                                                         *)
(* Settings: three sizes, two of them with one width, rates around the     *)
(* changes between them, a square region and one that is wide.             *)
(***************************************************************************)
EXTENDS StreamSettings, MotionVectors, MotionBlobs

VARIABLE part

MCSizes == <<[w |-> 384, h |-> 216], [w |-> 512, h |-> 288], [w |-> 512, h |-> 320]>>
MCFixedSize == [w |-> 1280, h |-> 720]
MCMotionParams == [size |-> [w |-> 1024, h |-> 768], fps |-> 30, rate |-> 3500]
MCRois ==
  [l \in {1, 2} |->
     IF l = 1 THEN [x |-> 0, y |-> 0, w |-> 65404, h |-> 65536]
              ELSE [x |-> 13107, y |-> 0, w |-> 32702, h |-> 13762]]
MCCentres == {[x |-> 10, y |-> 3]}
MCDrags == {[x |-> -4, y |-> 4]}

partVars == <<part, vars, vectorVars, blobVars>>

PartInit ==
  /\ part \in {"settings", "vectors", "blobs"}
  /\ Init /\ VectorInit /\ BlobInit
  /\ part # "settings" => dynamic = [size |-> TRUE, fps |-> TRUE] /\ conf = 1
  /\ part # "vectors" => candidate = moved

PartNext ==
  /\ part' = part
  /\ \/ part = "settings" /\ Next /\ UNCHANGED <<vectorVars, blobVars>>
     \/ part = "vectors" /\ VectorNext /\ UNCHANGED <<vars, blobVars>>
     \/ part = "blobs" /\ BlobNext /\ UNCHANGED <<vars, vectorVars>>

PartSpec == PartInit /\ [][PartNext]_partVars
=============================================================================
