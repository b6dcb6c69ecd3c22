------------------------------- MODULE LineBuffer -------------------------------
(***************************************************************************)
(* DirectSocketServer::OnRead: what a native client sends arrives in       *)
(* pieces and is cut into lines, each a message to its session.  What is   *)
(* behind the last delimiter waits for more; it also outlives the client.  *)
(*                                                                         *)
(* A handler is a step: the main thread accepts and reads; a close, which  *)
(* a delayed drop may make on the signaling thread, leaves the buffer      *)
(* alone.  A byte is its place among all bytes read.                       *)
(***************************************************************************)
EXTENDS Naturals, Sequences, FiniteSetsExt

CONSTANTS
  MaxRead,   \* bound: bytes read
  MaxNative  \* bound: clients accepted

ASSUME LineBufferAssumption == {MaxRead, MaxNative} \subseteq Nat

VARIABLES
  native,    \* number of the client accepted last
  attached,  \* it is connected
  stream,    \* the bytes read: the client each is of, and is it the delimiter
  rest,      \* buffered_read_
  lines      \* what MessageFromPeer was called with, by the place of its end

lineVars == <<native, attached, stream, rest, lines>>

Byte == [of : 1..MaxNative, ends : BOOLEAN]
Place == 1..MaxRead

LineTypeOK ==
  /\ native \in 0..MaxNative
  /\ attached \in BOOLEAN
  /\ attached => native > 0
  /\ stream \in Seq(Byte) /\ Len(stream) <= MaxRead
  /\ rest \in Seq(Place)
  /\ lines \subseteq [end : Place, bytes : Seq(Place), to : 1..MaxNative]

LineInit ==
  /\ native = 0 /\ attached = FALSE
  /\ stream = <<>> /\ rest = <<>> /\ lines = {}

-----------------------------------------------------------------------------
(* OnAccept when no session is active.                                      *)
Accept ==
  /\ ~attached /\ native < MaxNative
  /\ native' = native + 1
  /\ attached' = TRUE
  /\ UNCHANGED <<stream, rest, lines>>

(* OnClose, by either side.  What was not read is lost.                     *)
CloseNative ==
  /\ attached
  /\ attached' = FALSE
  /\ UNCHANGED <<native, stream, rest, lines>>

(* The places after m, up to n.                                             *)
Places(m, n) == [i \in 1..(n - m) |-> m + i]

(* The last element of E before e.                                          *)
Before(E, e) == Max({0} \cup {d \in E : d < e})

(* Bug: one line is cut off for each read.                                  *)
OneDelimiter(s, bytes) ==
  LET E == {i \in 1..Len(s) : bytes[s[i]].ends}
  IN  {e \in E : \A d \in E : e <= d}

Delimiters(s, bytes) == {i \in 1..Len(s) : bytes[s[i]].ends}

Left(s, E) == SubSeq(s, Before(E, Len(s) + 1) + 1, Len(s))

(* The loop over Recv takes all that has arrived; then lines are cut off    *)
(* the front.                                                               *)
OnRead(chunk) ==
  LET read == Len(stream)
      bytes == stream \o [i \in 1..Len(chunk) |-> [of |-> native, ends |-> chunk[i]]]
      s == rest \o Places(read, read + Len(chunk))
      E == Delimiters(s, bytes)
  IN  /\ attached
      /\ read + Len(chunk) <= MaxRead
      /\ stream' = bytes
      /\ lines' = lines \cup {[end |-> s[e], bytes |-> SubSeq(s, Before(E, e) + 1, e - 1),
                               to |-> native] : e \in E}
      /\ rest' = Left(s, E)
      /\ UNCHANGED <<native, attached>>

LineNext ==
  \/ Accept \/ CloseNative
  \/ \E n \in 1..MaxRead : \E chunk \in [1..n -> BOOLEAN] : OnRead(chunk)

LineSpec == LineInit /\ [][LineNext]_lineVars

-----------------------------------------------------------------------------
(* Properties *)

Ends == {p \in 1..Len(stream) : stream[p].ends}

(* The messages do not depend on the pieces that they arrive in: each is    *)
(* what is between two delimiters, and the buffer what is behind the last   *)
(* (direct_socket.cc:168-187).                                              *)
LinesAreWhole ==
  /\ {l.end : l \in lines} = Ends
  /\ \A l \in lines : l.bytes = Places(Before(Ends, l.end), l.end - 1)
  /\ rest = Places(Before(Ends, Len(stream) + 1), Len(stream))

(* A message is of the client whose session gets it, but that the first     *)
(* one may begin with what an earlier client has left                       *)
(* (direct_socket.cc:180, 141-149).                                         *)
OnlyFirstIsMixed ==
  \A l \in lines :
    /\ stream[l.end].of = l.to
    /\ \A i \in DOMAIN l.bytes : stream[l.bytes[i]].of # l.to =>
         \A m \in lines : m.to = l.to => l.end <= m.end
=============================================================================
