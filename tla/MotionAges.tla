------------------------------- MODULE MotionAges -------------------------------
(***************************************************************************)
(* What RaspiMotionBlob promises, without ids: in each frame the points    *)
(* that move form regions, the regions that are large enough are blobs,    *)
(* and a blob is one frame older than the oldest blob of the frame before  *)
(* that it overlaps.                                                       *)
(***************************************************************************)
EXTENDS Integers, FiniteSets, FiniteSetsExt

CONSTANTS
  Width, Height,  \* points of the image
  CancelSize      \* blob_cancel_threshold_, in points

VARIABLE age      \* for each point the age of its blob, or 0

Cells == 0..(Width * Height - 1)

(* Points one above the other or side by side.                              *)
Adjacent(c, d) ==
  \/ c \div Width = d \div Width /\ d - c \in {1, -1}
  \/ d - c \in {Width, -Width}

(* The connected parts of an image: no point next to one of them moves, and *)
(* no smaller part of them is like that.                                    *)
Closed(S, moving) == \A c \in S, d \in moving : Adjacent(c, d) => d \in S

Regions(moving) ==
  {R \in (SUBSET moving) \ {{}} :
     /\ Closed(R, moving)
     /\ \A S \in (SUBSET R) \ {{}, R} : ~Closed(S, moving)}

Init == age = [c \in Cells |-> 0]

Moving == {c \in Cells : age[c] # 0}

(* Regions that are too small do not count as moving.                       *)
Next ==
  /\ age' \in [Cells -> Nat]
  /\ \A R \in Regions(Moving') :
       /\ Cardinality(R) >= CancelSize
       /\ \A c \in R : age'[c] = 1 + Max({age[d] : d \in R})

Spec == Init /\ [][Next]_age
=============================================================================
