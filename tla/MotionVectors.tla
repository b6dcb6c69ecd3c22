------------------------------ MODULE MotionVectors ------------------------------
(***************************************************************************)
(* RaspiMotionVector::Analyse: from the motion vectors of a frame to the   *)
(* image of the points that move.  Each point has a history of bits, one   *)
(* for each frame, the latest on top; the histories pass through a float,  *)
(* which keeps only their upper bits.                                      *)
(***************************************************************************)
EXTENDS Integers, FiniteSets, FiniteSetsExt

CONSTANTS
  Points,        \* the macroblocks of a frame
  HistoryBits,   \* kMotionBitSetNumber + 1
  MantissaBits,  \* significant bits of a float: 24
  CutBits,       \* kMotionCutBitThreshold
  CoolingDown    \* initial_coolingdown_: frames of three seconds

ASSUME MacroblocksAssumption == IsFiniteSet(Points) /\ Points # {}
ASSUME BitsAssumption ==
  /\ HistoryBits \in Nat \ {0}
  /\ MantissaBits \in 1..HistoryBits
  /\ CutBits \in 0..MantissaBits /\ CoolingDown \in Nat

VARIABLES
  candidate,  \* the histories, which the constructor leaves as it finds them
  image,      \* motion_: the points that are not 0
  updates,    \* update_counter_, as far as it is looked at
  enabled,    \* enable_observer_callback_
  moved       \* what candidate would be had it begun with 0

vectorVars == <<candidate, image, updates, enabled, moved>>

(* 2 to the power i.                                                        *)
Weight[i \in 0..HistoryBits] == IF i = 0 THEN 1 ELSE 2 * Weight[i - 1]

Top == Weight[HistoryBits - 1]
Histories == 0..(2 * Top - 1)

VectorTypeOK ==
  /\ candidate \in [Points -> Histories]
  /\ image \subseteq Points
  /\ updates \in 0..(CoolingDown + 1)
  /\ enabled \in BOOLEAN
  /\ moved \in [Points -> Histories]

VectorInit ==
  /\ candidate \in [Points -> Histories]
  /\ image = {}
  /\ updates = 0
  /\ enabled = FALSE
  /\ moved = [p \in Points |-> 0]

-----------------------------------------------------------------------------
Bits(v) == {i \in 0..(HistoryBits - 1) : (v \div Weight[i]) % 2 = 1}

BitCount(v) == Cardinality(Bits(v))

Shifted(history, now) ==
  [p \in Points |-> history[p] \div 2 + (IF p \in now THEN Top ELSE 0)]

(* uint32_t to float, to the nearest and of two to the even.                *)
Float(v) ==
  LET digits == Cardinality({i \in 0..(HistoryBits - 1) : v >= Weight[i]})
      unit == IF digits > MantissaBits THEN Weight[digits - MantissaBits] ELSE 1
      kept == v \div unit
      up == \/ 2 * (v % unit) > unit
            \/ 2 * (v % unit) = unit /\ kept % 2 = 1
  IN  (kept + (IF up /\ unit > 1 THEN 1 ELSE 0)) * unit

(* Back to uint32_t; the processor's conversion saturates.                  *)
Integer(f) == IF f >= 2 * Top THEN 2 * Top - 1 ELSE f

(* Between the quietest and the liveliest point, in 255 steps; a point      *)
(* below 3 is dropped.  If all points are alike the quotient is no number,  *)
(* which becomes 0.                                                         *)
StandsOut(f, least, most) == most > least /\ (255 * (f - least)) \div (most - least) >= 3

Active(history) ==
  LET value == [p \in Points |-> Float(history[p])]
      least == Min({value[p] : p \in Points})
      most == Max({value[p] : p \in Points})
  IN  {p \in Points : /\ BitCount(Integer(value[p])) > CutBits
                      /\ StandsOut(value[p], least, most)}

(* Bug: the observers are enabled by the first frame.                       *)
EnabledAtOnce(n) == n > 0

(* The observers are called from the frame on that ends the cooling down.   *)
EnabledAfter(n) == n > CoolingDown

Analyse(now) ==
  /\ candidate' = Shifted(candidate, now)
  /\ image' = Active(candidate')
  /\ updates' = IF updates > CoolingDown THEN updates ELSE updates + 1
  /\ enabled' = (enabled \/ EnabledAfter(updates'))
  /\ moved' = Shifted(moved, now)

VectorNext == \E now \in SUBSET Points : Analyse(now)

VectorSpec == VectorInit /\ [][VectorNext]_vectorVars

-----------------------------------------------------------------------------
(* Properties *)

(* What the observers are told is motion of these frames, and not what was  *)
(* in the memory of the histories, if the cooling down is as long as they   *)
(* are (raspi_motionvector.cc:94-97, 195-204).                              *)
MotionIsReal ==
  enabled /\ CoolingDown >= HistoryBits - 1 =>
    \A p \in image : BitCount(moved[p]) > CutBits
=============================================================================
