------------------------------ MODULE FrameQueue ------------------------------
(***************************************************************************)
(* FrameQueue: encoded frames on their way from the MMAL callback thread   *)
(* (WriteBack, under the queue's mutex) to the one drain thread, of the    *)
(* encoder or of motion detection, that calls ReadFront.                   *)
(*                                                                         *)
(* ReadFront looks at the queue without the mutex, may wait for the        *)
(* queue's Event, looks again, and only then takes the mutex.  The buffer  *)
(* it returns is already back on the free list, so it stays the reader's   *)
(* only until the writer gets to it.  Init deletes the buffers list by     *)
(* list and makes new ones without the mutex; ReinitEncoder calls it while *)
(* the drain thread goes on reading, so each of its loops is a step of its *)
(* own, after which the reader may come in.                                *)
(*                                                                         *)
(* A fragment is one MMAL buffer.  Of its data the model keeps its number, *)
(* its size and the flags FRAME_END and CONFIG.                            *)
(***************************************************************************)
EXTENDS Naturals, Sequences, FiniteSets, Functions

CONSTANTS
  Buffers,       \* identities of FrameBuffer objects
  NoBuffer,      \* nullptr
  Capacity,      \* capacity_
  BufferSize,    \* buffer_size_
  Sizes,         \* lengths of MMAL buffers
  MaxFragments,  \* bound: fragments the encoder delivers
  MaxReinits     \* bound: calls of ReinitEncoder

ASSUME BuffersAssumption == NoBuffer \notin Buffers
ASSUME SizesAssumption ==
  /\ Capacity \in Nat \ {0}
  /\ BufferSize \in Nat
  /\ Sizes \subseteq Nat
ASSUME BoundsAssumption == MaxFragments \in Nat /\ MaxReinits \in Nat

VARIABLES
  queue,      \* encoded_frame_queue_
  free,       \* free_list_
  pending,    \* pending_
  heap,       \* buffers that are allocated
  temporary,  \* listed buffers with temporary_ set
  content,    \* fragments and length_ of each buffer
  event,      \* the Event is signalled
  reader,     \* where the drain thread is, its buffer, and what it returned
  written,    \* fragments delivered so far
  reinits,    \* calls of ReinitEncoder so far
  init,       \* what Init does next; the port is enabled when it is done
  torn,       \* history: a buffer was taken behind the loop over free_list_
  fault       \* undefined behaviour: the process ends or goes on at random

lists == <<queue, free, pending>>
buffers == <<lists, heap, temporary, content>>
control == <<reinits, init, torn, fault>>
vars == <<buffers, event, reader, written, control>>

-----------------------------------------------------------------------------
(* Types and initial state *)

Contents == [frags : Seq(Nat), size : 0..BufferSize]
Fragments == [size : Sizes, end : BOOLEAN, config : BOOLEAN]
Readers == [pc : {"idle", "wait", "recheck", "take", "reading"},
            buffer : Buffers \cup {NoBuffer}, frags : Seq(Nat)]

TypeOK ==
  /\ queue \in Seq(Buffers)
  /\ free \in Seq(Buffers)
  /\ pending \in Seq(Buffers)
  /\ heap \subseteq Buffers
  /\ temporary \subseteq Buffers
  /\ content \in [Buffers -> Contents]
  /\ event \in BOOLEAN
  /\ reader \in Readers
  /\ written \in Nat
  /\ reinits \in Nat
  /\ init \in {"done", "delete_free", "clear_free", "delete_queue",
               "clear_queue", "refill"}
  /\ torn \in BOOLEAN
  /\ fault \in {"none", "free_list", "queue", "freed", "race"}

Empty == [frags |-> <<>>, size |-> 0]
IdleReader == [pc |-> "idle", buffer |-> NoBuffer, frags |-> <<>>]

(* A list of Capacity buffers that are not in use.                          *)
FreshLists(used) ==
  {l \in [1..Capacity -> Buffers \ used] : IsInjective(l)}

Init ==
  /\ queue = <<>> /\ pending = <<>>
  /\ free \in FreshLists({})
  /\ heap = Range(free)
  /\ temporary = {}
  /\ content = [b \in Buffers |-> Empty]
  /\ event = FALSE
  /\ reader = IdleReader
  /\ written = 0
  /\ reinits = 0
  /\ init = "done"
  /\ torn = FALSE
  /\ fault = "none"

Live == Range(queue) \cup Range(free) \cup Range(pending)

(* The encoder's output port is disabled while Init runs.                   *)
enabled == init = "done"

(* A new buffer is one that is neither allocated nor pointed to: the model  *)
(* does not give the memory of a deleted buffer out while someone uses it.  *)
Unused == Buffers \ (heap \cup Live \cup {reader.buffer})

-----------------------------------------------------------------------------
(* WriteBack, on the MMAL callback thread *)

(* The MMAL port delivers one more fragment.  An empty MMAL buffer without   *)
(* flags changes nothing and is left out.                                   *)
Delivered ==
  /\ fault = "none"
  /\ enabled
  /\ written < MaxFragments
  /\ written' = written + 1

(* FrameBuffer::reset and copy.  flags_ is looked at once, when a fragment  *)
(* has been added, and is left out of the contents.                         *)
Copied(f) == [frags |-> <<written'>>, size |-> f.size]

(* FrameBuffer::append.                                                     *)
Appended(b, f) == [frags |-> Append(content[b].frags, written'),
                   size |-> content[b].size + f.size]

(* The fragment is larger than a buffer.                                    *)
TooLarge(f) ==
  /\ Delivered
  /\ f.size > BufferSize
  /\ UNCHANGED <<buffers, event, reader, control>>

(* Bug: the buffer of the frame that is given up is not freed.              *)
OverflowLeaks(f) ==
  /\ Delivered
  /\ f.size <= BufferSize
  /\ pending # <<>>
  /\ content[pending[1]].size + f.size > BufferSize
  /\ pending' = <<>>
  /\ UNCHANGED <<queue, free, heap, temporary, content, event, reader,
                 control>>

(* The frame being put together gets too large: it is given up.             *)
Overflow(f) ==
  /\ Delivered
  /\ f.size <= BufferSize
  /\ pending # <<>>
  /\ content[pending[1]].size + f.size > BufferSize
  /\ free' = Append(free, pending[1])
  /\ pending' = <<>>
  /\ UNCHANGED <<queue, heap, temporary, content, event, reader, control>>

(* Bug: the reader is not woken for a frame that was put together.          *)
AppendSilent(f) ==
  /\ Delivered
  /\ f.size <= BufferSize
  /\ pending # <<>>
  /\ content[pending[1]].size + f.size <= BufferSize
  /\ content' = [content EXCEPT ![pending[1]] = Appended(pending[1], f)]
  /\ IF f.end THEN queue' = Append(queue, pending[1]) /\ pending' = <<>>
              ELSE UNCHANGED <<queue, pending>>
  /\ UNCHANGED <<free, heap, temporary, event, reader, control>>

(* The fragment goes to the frame that is being put together.               *)
AppendFragment(f) ==
  /\ Delivered
  /\ f.size <= BufferSize
  /\ pending # <<>>
  /\ content[pending[1]].size + f.size <= BufferSize
  /\ content' = [content EXCEPT ![pending[1]] = Appended(pending[1], f)]
  /\ IF f.end THEN queue' = Append(queue, pending[1])
                   /\ pending' = <<>> /\ event' = TRUE
              ELSE UNCHANGED <<queue, pending, event>>
  /\ UNCHANGED <<free, heap, temporary, reader, control>>

(* The fragment in buffer b starts a frame: a configuration waits for what  *)
(* follows it, anything else is queued at once.                             *)
Enqueue(b, f) ==
  /\ content' = [content EXCEPT ![b] = Copied(f)]
  /\ IF f.config
     THEN pending' = Append(pending, b) /\ UNCHANGED <<queue, event>>
     ELSE queue' = Append(queue, b) /\ event' = TRUE /\ UNCHANGED pending

(* No buffer is free: make a temporary one.                                 *)
WriteTemporary(f) ==
  /\ Delivered
  /\ f.size <= BufferSize
  /\ pending = <<>>
  /\ free = <<>>
  /\ \E b \in Unused :
       /\ heap' = heap \cup {b}
       /\ temporary' = temporary \cup {b}
       /\ Enqueue(b, f)
  /\ UNCHANGED <<free, reader, control>>

(* The temporary buffers at the head of the free list are deleted, and the  *)
(* first buffer that is not temporary, number i of the list, is used.       *)
WriteFree(f) ==
  /\ Delivered
  /\ f.size <= BufferSize
  /\ pending = <<>>
  /\ \E i \in DOMAIN free :
       /\ free[i] \notin temporary
       /\ \A j \in 1..(i - 1) : free[j] \in temporary
       /\ heap' = heap \ {free[j] : j \in 1..(i - 1)}
       /\ temporary' = temporary \ {free[j] : j \in 1..(i - 1)}
       /\ free' = SubSeq(free, i + 1, Len(free))
       /\ Enqueue(free[i], f)
  /\ UNCHANGED <<reader, control>>

(* Every buffer on the free list is temporary: the loop deletes them all,   *)
(* and pop_front and reset are applied to an empty list and a freed buffer. *)
FreeListRunsOut(f) ==
  /\ Delivered
  /\ f.size <= BufferSize
  /\ pending = <<>>
  /\ free # <<>>
  /\ Range(free) \subseteq temporary
  /\ fault' = "free_list"
  /\ UNCHANGED <<buffers, event, reader, reinits, init, torn>>

(* WriteFree may not survive a buffer on the free list that Init deleted.   *)
WriteDeleted(f) ==
  /\ Delivered
  /\ f.size <= BufferSize
  /\ pending = <<>>
  /\ \E i \in DOMAIN free :
       /\ free[i] \notin heap
       /\ \A j \in 1..(i - 1) : free[j] \in temporary
  /\ fault' = "freed"
  /\ UNCHANGED <<buffers, event, reader, reinits, init, torn>>

WriteBack(f) ==
  \/ TooLarge(f) \/ Overflow(f) \/ AppendFragment(f) \/ WriteTemporary(f)
  \/ WriteFree(f) \/ FreeListRunsOut(f) \/ WriteDeleted(f)

-----------------------------------------------------------------------------
(* ReadFront and the use of what it returns, on the drain thread *)

ReaderAt(pc) == fault = "none" /\ reader.pc = pc
ReaderGoto(pc) == reader' = [reader EXCEPT !.pc = pc]

(* The first look at the queue, without the mutex.                          *)
Poll ==
  /\ ReaderAt("idle")
  /\ ReaderGoto(IF queue = <<>> THEN "wait" ELSE "take")
  /\ UNCHANGED <<buffers, event, written, control>>

(* Event::Wait returns when the Event is signalled, and resets it, ...      *)
Woken ==
  /\ ReaderAt("wait")
  /\ event
  /\ event' = FALSE
  /\ ReaderGoto("recheck")
  /\ UNCHANGED <<buffers, written, control>>

(* ... or after kEventWaitPeriod.                                           *)
TimedOut ==
  /\ ReaderAt("wait")
  /\ ~event
  /\ ReaderGoto("recheck")
  /\ UNCHANGED <<buffers, event, written, control>>

(* The second look: nullptr is returned, or there is a frame to take.       *)
Recheck ==
  /\ ReaderAt("recheck")
  /\ ReaderGoto(IF queue = <<>> THEN "idle" ELSE "take")
  /\ UNCHANGED <<buffers, event, written, control>>

(* Bug: a reader that lags behind takes the newest frame and frees the rest. *)
TakeNewest ==
  /\ ReaderAt("take")
  /\ queue # <<>>
  /\ queue' = <<>>
  /\ free' = free \o queue
  /\ reader' = [pc |-> "reading", buffer |-> queue[Len(queue)],
                frags |-> content[queue[Len(queue)]].frags]
  /\ UNCHANGED <<pending, heap, temporary, content, event, written, control>>

(* Under the mutex, which Init does not take: the first buffer is returned, *)
(* and is free from now on.  It may be one that Init has deleted.           *)
Take ==
  /\ ReaderAt("take")
  /\ queue # <<>>
  /\ queue' = Tail(queue)
  /\ free' = Append(free, Head(queue))
  /\ reader' = [pc |-> "reading", buffer |-> Head(queue),
                frags |-> content[Head(queue)].frags]
  /\ torn' = (torn \/ init \in {"clear_free", "delete_queue", "clear_queue"})
  /\ UNCHANGED <<pending, heap, temporary, content, event, written, reinits,
                 init, fault>>

(* front and pop_front of a queue that Init has cleared meanwhile, or the   *)
(* two threads change a list at the same time.                              *)
TakeFails ==
  /\ ReaderAt("take")
  /\ \/ queue = <<>> /\ fault' = "queue"
     \/ queue # <<>> /\ ~enabled /\ fault' = "race"
  /\ UNCHANGED <<buffers, event, reader, written, reinits, init, torn>>

(* The drain thread is done with the buffer.                                *)
Release ==
  /\ ReaderAt("reading")
  /\ reader' = IdleReader
  /\ UNCHANGED <<buffers, event, written, control>>

(* It may not survive the use of a buffer that has been deleted.            *)
UseDeleted ==
  /\ ReaderAt("reading")
  /\ reader.buffer \notin heap
  /\ fault' = "freed"
  /\ UNCHANGED <<buffers, event, reader, written, reinits, init, torn>>

ReaderStep ==
  \/ Poll \/ Woken \/ TimedOut \/ Recheck \/ Take \/ TakeFails
  \/ Release \/ UseDeleted

-----------------------------------------------------------------------------
(* ReinitEncoder, on the delayed-init task queue or the main thread *)

(* A loop that deletes the buffers of a list.  It may not survive a buffer  *)
(* that an earlier re-initialisation deleted.                               *)
Delete(list) ==
  /\ heap' = heap \ Range(list)
  /\ fault' \in IF Range(list) \subseteq heap THEN {"none"}
                 ELSE {"none", "freed"}

(* The port is disabled.  Init deletes the buffers of the pending list,     *)
(* which the reader has no part in, and clears it.                          *)
Destroy ==
  /\ fault = "none"
  /\ enabled
  /\ reinits < MaxReinits
  /\ reinits' = reinits + 1
  /\ init' = "delete_free"
  /\ Delete(pending)
  /\ pending' = <<>>
  /\ temporary' = temporary \ Range(pending)
  /\ UNCHANGED <<queue, free, content, event, reader, written, torn>>

InitAt(step) == fault = "none" /\ init = step

DeleteFree ==
  /\ InitAt("delete_free")
  /\ Delete(free)
  /\ init' = "clear_free"
  /\ UNCHANGED <<lists, temporary, content, event, reader, written, reinits,
                 torn>>

ClearFree ==
  /\ InitAt("clear_free")
  /\ temporary' = temporary \ Range(free)
  /\ free' = <<>>
  /\ init' = "delete_queue"
  /\ UNCHANGED <<queue, pending, heap, content, event, reader, written, reinits,
                 torn, fault>>

DeleteQueue ==
  /\ InitAt("delete_queue")
  /\ Delete(queue)
  /\ init' = "clear_queue"
  /\ UNCHANGED <<lists, temporary, content, event, reader, written, reinits,
                 torn>>

ClearQueue ==
  /\ InitAt("clear_queue")
  /\ temporary' = temporary \ Range(queue)
  /\ queue' = <<>>
  /\ init' = "refill"
  /\ UNCHANGED <<free, pending, heap, content, event, reader, written, reinits,
                 torn, fault>>

(* Init makes Capacity new buffers, and the port is enabled again.          *)
Refill ==
  /\ InitAt("refill")
  /\ \E fresh \in FreshLists(Buffers \ Unused) :
       /\ free' = free \o fresh
       /\ heap' = heap \cup Range(fresh)
  /\ init' = "done"
  /\ UNCHANGED <<queue, pending, temporary, content, event, reader, written,
                 reinits, torn, fault>>

InitStep ==
  Destroy \/ DeleteFree \/ ClearFree \/ DeleteQueue \/ ClearQueue \/ Refill

-----------------------------------------------------------------------------
(* Next-state relation *)

Next ==
  \/ \E f \in Fragments : WriteBack(f)
  \/ ReaderStep
  \/ InitStep

Spec == Init /\ [][Next]_vars

(* The drain thread loops for as long as the encoder is in use, and Event's *)
(* timed wait ends.  Nothing is assumed of the encoder.                     *)
FairSpec == Spec /\ WF_vars(ReaderStep)
=============================================================================
