-------------------------- MODULE FrameQueueProperties --------------------------
(***************************************************************************)
(* What FrameQueue guarantees.                                             *)
(***************************************************************************)
EXTENDS FrameQueue

(* No buffer is listed twice.                                               *)
NoDuplicates ==
  /\ \A l \in {queue, free, pending} : IsInjective(l)
  /\ Range(queue) \cap Range(free) = {}
  /\ Range(pending) \cap (Range(queue) \cup Range(free)) = {}

-----------------------------------------------------------------------------
(* Properties of every behaviour *)

(* Each buffer is on exactly one list, whatever is read, given up, deleted  *)
(* or re-initialised.  The buffers on the lists are those that are          *)
(* allocated, so that none leaks and none is used after it was deleted, and *)
(* Capacity of them are permanent, but for a re-initialisation that the     *)
(* reader took a buffer in the middle of: between the loops over the free   *)
(* list and over the queue, or before the queue was cleared.                *)
BufferPartition ==
  /\ NoDuplicates
  /\ temporary \subseteq Live
  /\ ~torn /\ enabled =>
       /\ heap = Live
       /\ Cardinality(Live \ temporary) = Capacity

(* No lost wakeup: the reader does not sleep while a frame is ready, though *)
(* it looks at the queue without the mutex before it waits.                 *)
NoLostWakeup ==
  reader.pc = "wait" /\ queue # <<>> => event

(* Memory is given back: a temporary buffer is filled for one frame only.   *)
TemporaryUsedOnce ==
  [][\A b \in temporary \cap temporary' :
       content'[b].frags # content[b].frags =>
         b \in Range(pending)]_vars

(* The fragments that the buffers of a list hold.                           *)
FragmentsOf(list) == [i \in DOMAIN list |-> content[list[i]].frags]

Fifo == INSTANCE FrameFifo WITH
  last <- written,
  frames <- FragmentsOf(queue),
  partial <- IF pending = <<>> THEN <<>> ELSE content[pending[1]].frags,
  reading <- reader.frags

(* FrameQueue implements FrameFifo: fragments are neither lost, nor         *)
(* repeated, nor reordered between encoder and reader, which takes the      *)
(* first frame of the queue as it was queued.  A buffer that Init deletes   *)
(* under the reader is a fault or is still what it was; nothing is promised *)
(* after a fault.                                                           *)
ImplementsFifo == Fifo!Spec

-----------------------------------------------------------------------------
(* Liveness, under FairSpec *)

(* A frame that is queued reaches the reader, unless the encoder is         *)
(* initialised anew or the process fails.                                   *)
FrameIsRead ==
  \A n \in 1..MaxFragments :
    (\E b \in Range(queue) : content[b].frags[1] = n)
      ~> \/ reader.frags # <<>> /\ reader.frags[1] = n
         \/ ~enabled
         \/ fault # "none"
=============================================================================
