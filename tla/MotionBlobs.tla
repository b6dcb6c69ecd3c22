------------------------------- MODULE MotionBlobs -------------------------------
(***************************************************************************)
(* RaspiMotionBlob::UpdateBlob, and what RaspiMotionVector::Analyse tells  *)
(* its observer of the blobs.  The blobs of two frames are known by ids of *)
(* one list; those of the frame before are given back when the blobs of    *)
(* the new one have been compared with them.                               *)
(***************************************************************************)
EXTENDS Integers, Sequences, FiniteSets, FiniteSetsExt

CONSTANTS
  Width, Height,      \* mvx_, mvy_
  MaxId,              \* last id of the list, below MAX_BLOB_LIST_SIZE
  CancelSize,         \* blob_cancel_threshold_
  TrackingThreshold,  \* blob_tracking_threshold_
  MaxUpdates          \* bound: updates of one blob

ASSUME GridAssumption == Width \in Nat \ {0} /\ Height \in Nat \ {0}
ASSUME ThresholdAssumption ==
  {MaxId, CancelSize, TrackingThreshold, MaxUpdates} \subseteq Nat

VARIABLES
  extracted,  \* id of each point's blob, or 0
  used,       \* ids whose status is not UNUSED
  count,      \* update_counter_ of each id
  active,     \* active_blob_list_
  told,       \* blob_active_count_: what the observer was told
  oldest,     \* blob_active_updates_
  watched     \* the observer is called

blobVars == <<extracted, used, count, active, told, oldest, watched>>

Ids == 2..MaxId
NotUsed == 0
Last == Width * Height - 1
Cells == 0..Last

BlobTypeOK ==
  /\ extracted \in [Cells -> {NotUsed} \cup Ids]
  /\ used \subseteq Ids
  /\ count \in [Ids -> 0..MaxUpdates]
  /\ active \in Seq(Ids)
  /\ told \in 0..Cardinality(Cells) /\ oldest \in 0..MaxUpdates
  /\ watched \in BOOLEAN

BlobInit ==
  /\ extracted = [c \in Cells |-> NotUsed]
  /\ used = {}
  /\ count = [i \in Ids |-> 0]
  /\ active = <<>>
  /\ told = 0 /\ oldest = 0 /\ watched = FALSE

-----------------------------------------------------------------------------
(* SearchConnectedBlob *)

(* SearchConnectedNeighbor: right, below, left, above.                      *)
Neighbours(c) ==
  (IF (c % Width) + 1 < Width THEN {c + 1} ELSE {}) \cup
  (IF c + Width <= Last THEN {c + Width} ELSE {}) \cup
  (IF c % Width >= 1 THEN {c - 1} ELSE {}) \cup
  (IF c >= Width THEN {c - Width} ELSE {})

(* The points of source that the search from c takes off it.                *)
Connected(c, source) ==
  LET step[n \in 0..Cardinality(source)] ==
        IF n = 0 THEN {c}
        ELSE LET found == step[n - 1]
             IN  found \cup (source \cap UNION {Neighbours(d) : d \in found})
  IN  step[Cardinality(source)]

(* One point of the scan: the lowest id that is free is taken for the       *)
(* points connected with it, and given back if they are too few.  Without   *)
(* a free id the point stays in the source.                                 *)
Scanned(s, c) ==
  LET free == Ids \ s.used
      id == Min(free)
      blob == Connected(c, s.source)
  IN  IF c \notin s.source \/ free = {} THEN s
      ELSE IF Cardinality(blob) < CancelSize
           THEN [s EXCEPT !.source = @ \ blob, !.count[id] = 0]
           ELSE [s EXCEPT !.source = @ \ blob, !.used = @ \cup {id}, !.count[id] = 1,
                          !.active = Append(@, id),
                          !.extracted = [d \in Cells |-> IF d \in blob THEN id ELSE @[d]]]

(* The scan, row by row; MergeActiveBlob writes the blobs into one image.   *)
Detected(moving) ==
  LET scan[n \in 0..(Last + 1)] ==
        IF n = 0 THEN [source |-> moving, used |-> used, count |-> count, active |-> <<>>,
                       extracted |-> [c \in Cells |-> NotUsed]]
        ELSE Scanned(scan[n - 1], n - 1)
  IN  scan[Last + 1]

Previous == {extracted[c] : c \in Cells} \ {NotUsed}

(* Bug: the counters of two blobs that join are added.                      *)
TrackedSum(s) ==
  [i \in Ids |->
     IF \E n \in DOMAIN s.active : s.active[n] = i
     THEN s.count[i] + Cardinality({extracted[d] : d \in {c \in Cells : s.extracted[c] = i}}
                                   \ {NotUsed})
     ELSE s.count[i]]

(* TrackingBlob: an active blob is one update older than the oldest blob    *)
(* that had a point in common with it.                                      *)
Tracked(s) ==
  [i \in Ids |->
     IF \E n \in DOMAIN s.active : s.active[n] = i
     THEN Max({s.count[i]} \cup
              {s.count[extracted[c]] + 1 : c \in {d \in Cells : s.extracted[d] = i /\
                                                     extracted[d] # NotUsed}})
     ELSE s.count[i]]

(* Bug: an id is given back only if its blob was overlapped.                *)
KeptOverlapped(s) ==
  s.used \ {extracted[c] : c \in {d \in Cells : s.extracted[d] # NotUsed}}

(* The ids that stay in use: those of the frame before are given back.      *)
Kept(s) == s.used \ Previous

-----------------------------------------------------------------------------
(* The blobs that have been there long enough.                              *)
ActiveCount(list, n) == Cardinality({k \in DOMAIN list : n[list[k]] > TrackingThreshold})

ActiveUpdates(list, n) == Max({0} \cup {n[list[k]] : k \in DOMAIN list})

(* OnMotionTriggered with the new count, or OnMotionCleared, when it has    *)
(* changed.                                                                 *)
Report ==
  /\ watched' \in {watched, TRUE}
  /\ told' = IF watched' THEN ActiveCount(active', count') ELSE told
  /\ oldest' = ActiveUpdates(active', count')

(* An image has a point that rests (MotionVectors).                         *)
UpdateBlob(moving) ==
  LET s == Detected(moving)
  IN  /\ moving # Cells
      /\ \A i \in Ids : count[i] < MaxUpdates
      /\ extracted' = s.extracted
      /\ active' = s.active
      /\ count' = Tracked(s)
      /\ used' = Kept(s)
      /\ Report

BlobNext == \E moving \in SUBSET Cells : UpdateBlob(moving)

BlobSpec == BlobInit /\ [][BlobNext]_blobVars

-----------------------------------------------------------------------------
(* Properties *)

Blob(i) == {c \in Cells : extracted[c] = i}

(* After each frame exactly the blobs of the image hold ids, each of them   *)
(* has one, and is a region of its own that is large enough                 *)
(* (raspi_motionblob.cc:139-185, 415-443).                                  *)
IdsAgree ==
  /\ used = Previous
  /\ used = {active[n] : n \in DOMAIN active} /\ Len(active) = Cardinality(used)
  /\ \A i \in used :
       /\ Cardinality(Blob(i)) >= CancelSize
       /\ \A c \in Blob(i), d \in Cells :
            extracted[d] \notin {i, NotUsed} => d \notin Neighbours(c)

(* Which ids they get makes no difference to the blobs and their ages: the  *)
(* regions determine them (raspi_motionblob.cc:318-413).  A region without  *)
(* a free id is left out.                                                   *)
Ages == INSTANCE MotionAges
  WITH age <- [c \in Cells |-> IF extracted[c] = NotUsed THEN 0 ELSE count[extracted[c]]]
ImplementsAges == Ages!Spec
=============================================================================
