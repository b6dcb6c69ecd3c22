-------------------------- MODULE SignalingProperties --------------------------
(***************************************************************************)
(* What every behaviour of Signaling satisfies, and what one of the code's *)
(* own assertions says that it does not satisfy.                           *)
(***************************************************************************)
EXTENDS Signaling

(* No thread is inside a handler.                                           *)
Settled == \A t \in Threads : Idle(t)

-----------------------------------------------------------------------------
(* Properties of every behaviour *)

(* A registered client has an open WebSocket, except while the main thread  *)
(* handles the close of that very socket: AppWsClient::OnDisconnect always  *)
(* frees the one client slot, whatever the delayed drop did meanwhile.      *)
RegisteredConnected ==
  client.state = "registered" =>
    \/ client.sock \in conn
    \/ /\ frame["main"].pc = "disconnect"
       /\ frame["main"].sock = client.sock

(* StreamerProxy never passes from one channel to another without having    *)
(* been released: an occupied streamer is not taken over.                   *)
NoTakeover ==
  [][outbound' # outbound =>
       outbound = NoneChannel \/ outbound' = NoneChannel]_vars

(* The session a delayed drop would end.                                    *)
Targets(d) ==
  IF d.ch = "ws" THEN active["ws"] /\ client.sock = d.sock
                 ELSE active["direct"]

(* A drop left over from an earlier session never ends a later one, though  *)
(* it names only a socket descriptor, which may be in use again: when no    *)
(* handler runs, a queued drop that would end the session was posted for an *)
(* ICE failure of that session.                                             *)
StaleDropHarmless ==
  Settled => \A d \in drops : Targets(d) => streamer.ice = "failed"

-----------------------------------------------------------------------------
(* Liveness, under FairSpec *)

(* No thread stays inside a handler: neither the join of the old signaling  *)
(* thread nor a call marshalled to it blocks for good.                      *)
HandlersFinish ==
  \A t \in Threads : []<>(frame[t].pc = "idle" \/ crashed)

-----------------------------------------------------------------------------
(* What one of the code's own assertions says, and a run refutes *)

(* RTC_CHECK(peer_id_ == peer_id || peer_id_ == -1) in OnMessageFromPeer.   *)
MessageForPeer ==
  At("main", "msg") => streamer.peer \in {frame["main"].id, None}
=============================================================================
