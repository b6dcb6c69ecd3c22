------------------------------ MODULE WriterBuffer ------------------------------
(***************************************************************************)
(* FileWriterBuffer: the bytes between the drain thread, which appends a   *)
(* frame, and the writer thread, which takes a chunk.  They lie between    *)
(* two offsets of one array; it is made larger by a quarter when a frame   *)
(* does not fit, once.  Each method holds the mutex, so each is a step.    *)
(*                                                                         *)
(* The bytes are numbered from the last time the buffer was empty.         *)
(***************************************************************************)
EXTENDS Naturals

CONSTANTS
  FirstSize,   \* frame_queue_size
  FrameSizes,  \* bytes of a frame
  Chunk,       \* kFileWriterBufferSize
  MaxSize      \* bound: size of the array

ASSUME WriterBufferAssumption ==
  /\ {FirstSize, Chunk} \cup FrameSizes \subseteq Nat \ {0}
  /\ MaxSize \in Nat /\ FirstSize <= MaxSize

VARIABLES
  size,     \* buffer_size_
  memory,   \* the array; bytes never written are 0
  first,    \* offset_start_
  end,      \* offset_end_
  taken,    \* bytes taken since the buffer was empty
  large,    \* a frame was larger than a quarter of the array
  overrun   \* a frame was written beyond the array

bufferVars == <<size, memory, first, end, taken, large, overrun>>

Offsets == 0..(MaxSize - 1)

BufferInit ==
  /\ size = FirstSize
  /\ memory = [k \in Offsets |-> 0]
  /\ first = 0 /\ end = 0 /\ taken = 0
  /\ large = FALSE /\ overrun = FALSE

Quarter(n) == n \div 4

(* Bug: the bytes are copied to the front of the new array.                 *)
CopiedToFront == [k \in Offsets |-> IF k < end - first THEN memory[first + k] ELSE 0]

(* Resize copies the bytes to where they were.                              *)
Copied == [k \in Offsets |-> IF k \in first..(end - 1) THEN memory[k] ELSE 0]

WriteBack(n) ==
  LET grows == end + n > size
      room == IF grows THEN size + Quarter(size) ELSE size
      old == IF grows THEN Copied ELSE memory
  IN  /\ ~overrun /\ room <= MaxSize
      /\ size' = room
      /\ large' = (large \/ n > Quarter(size))
      /\ IF end + n > room
         THEN overrun' = TRUE /\ UNCHANGED <<memory, end>>
         ELSE /\ memory' = [k \in Offsets |->
                              IF k \in end..(end + n - 1) THEN taken + (k - first) + 1
                              ELSE old[k]]
              /\ end' = end + n
              /\ UNCHANGED overrun
      /\ UNCHANGED <<first, taken>>

Emptied == first' = 0 /\ end' = 0 /\ taken' = 0

(* A chunk, or all that is left.                                            *)
ReadFront ==
  /\ ~overrun /\ end > first
  /\ IF end - first > Chunk
     THEN first' = first + Chunk /\ taken' = taken + Chunk /\ UNCHANGED end
     ELSE Emptied
  /\ UNCHANGED <<size, memory, large, overrun>>

Clear ==
  /\ ~overrun
  /\ Emptied
  /\ UNCHANGED <<size, memory, large, overrun>>

BufferNext == ReadFront \/ Clear \/ \E n \in FrameSizes : WriteBack(n)

BufferSpec == BufferInit /\ [][BufferNext]_bufferVars

BufferTypeOK ==
  /\ size \in FirstSize..MaxSize
  /\ memory \in [Offsets -> Nat]
  /\ first \in 0..end /\ end \in 0..size /\ taken \in Nat
  /\ large \in BOOLEAN /\ overrun \in BOOLEAN

-----------------------------------------------------------------------------
(* Properties *)

(* Between the offsets are the bytes that were not taken yet, in order,     *)
(* however often the array grew, and no frame is written beyond the array   *)
(* unless one was larger than a quarter of it                               *)
(* (file_writer_handle.cc:64-92, 99-117).                                   *)
BufferHoldsRest ==
  /\ overrun => large
  /\ ~overrun => \A k \in first..(end - 1) : memory[k] = taken + (k - first) + 1
=============================================================================
