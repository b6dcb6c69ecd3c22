------------------------------- MODULE FrameFifo -------------------------------
(***************************************************************************)
(* What FrameQueue promises its reader, without buffers: the fragments the *)
(* encoder delivers come out once each and in order, a codec configuration *)
(* glued in front of the fragments that follow it up to the end of their   *)
(* frame.  Fragments are numbered in the order the encoder delivers them.  *)
(***************************************************************************)
EXTENDS Naturals, Sequences

VARIABLES
  last,     \* number of the fragment delivered last
  frames,   \* frames ready to be read, each a sequence of fragments
  partial,  \* fragments of the frame that is being put together
  reading   \* the frame the reader is working on

fifoVars == <<last, frames, partial, reading>>

Init ==
  /\ last = 0
  /\ frames = <<>>
  /\ partial = <<>>
  /\ reading = <<>>

(* A fragment is refused; the frame being put together may be given up.     *)
Refuse ==
  /\ last' = last + 1
  /\ partial' \in {partial, <<>>}
  /\ UNCHANGED <<frames, reading>>

Extend ==
  /\ last' = last + 1
  /\ partial' = Append(partial, last')
  /\ UNCHANGED <<frames, reading>>

Complete ==
  /\ last' = last + 1
  /\ frames' = Append(frames, Append(partial, last'))
  /\ partial' = <<>>
  /\ UNCHANGED reading

Read ==
  /\ reading = <<>>
  /\ frames # <<>>
  /\ reading' = Head(frames)
  /\ frames' = Tail(frames)
  /\ UNCHANGED <<last, partial>>

Release ==
  /\ reading # <<>>
  /\ reading' = <<>>
  /\ UNCHANGED <<last, frames, partial>>

(* The encoder is initialised anew, which gives up the frame that is being  *)
(* put together and, somewhat later, those that are ready.                  *)
Flush ==
  /\ frames' \in {frames, <<>>}
  /\ partial' \in {partial, <<>>}
  /\ UNCHANGED <<last, reading>>

Next == Refuse \/ Extend \/ Complete \/ Read \/ Release \/ Flush

Spec == Init /\ [][Next]_fifoVars
=============================================================================
