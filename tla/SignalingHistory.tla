--------------------------- MODULE SignalingHistory ---------------------------
(***************************************************************************)
(* Signaling with two history variables, and the properties of the session *)
(* that hold as long as the two threads' handlers never overlap.           *)
(*                                                                         *)
(* overlapped records whether the two threads were ever inside handlers at *)
(* the same time.  That needs the delayed drop of an ICE failure to fire   *)
(* while the main thread serves a socket, or a socket event to come while  *)
(* the signaling thread tears the session down.  The code has no lock that *)
(* covers it, and what then goes wrong is shown by the runs that expect a  *)
(* violation.  Until the first overlap the properties below hold, with ICE *)
(* failures and delayed drops included.                                    *)
(*                                                                         *)
(* misnamed records whether a teardown ever read from the helper another   *)
(* peer id than the streamer's: StopSignalingSession clears its flag first *)
(* and reads peer_id_ then, and a client that registers in between has put *)
(* its own id there.  OnPeerDisconnected ignores an id it does not know.   *)
(***************************************************************************)
EXTENDS SignalingProperties

VARIABLES overlapped, misnamed

historyVars == <<vars, overlapped, misnamed>>

BothBusy == \A t \in Threads : frame[t].pc # "idle"

Misnames(t) ==
  /\ At(t, "stop_peer")
  /\ frame'[t].pc = "proxy_stop"
  /\ streamer.pc
  /\ peer[Chan(t)] # streamer.peer

HistoryInit == Init /\ overlapped = FALSE /\ misnamed = FALSE

HistoryNext ==
  /\ Next
  /\ overlapped' = (overlapped \/ BothBusy')
  /\ misnamed' = (misnamed \/ \E t \in Threads : Misnames(t))

HistorySpec == HistoryInit /\ [][HistoryNext]_historyVars

FairHistorySpec == HistorySpec /\ Fairness

-----------------------------------------------------------------------------
(* Properties until the first overlap *)

(* The two channels never both believe to have the streamer.                *)
OneSession ==
  ~overlapped => ~(active["ws"] /\ active["direct"])

(* Between handlers the helper's flag, the proxy's owner and the streamer's *)
(* PeerConnection agree: a channel is active iff it owns the proxy, and the *)
(* PeerConnection exists, for the owner's peer, iff there is an owner.      *)
SessionConsistent ==
  ~overlapped /\ Settled =>
    /\ \A ch \in Channels : active[ch] <=> outbound = ch
    /\ streamer.pc <=> outbound # NoneChannel
    /\ outbound # NoneChannel => streamer.peer = peer[outbound]

(* The camera is never used by motion detection and by a session at once.   *)
MotionExcluded ==
  ~overlapped => (outbound # NoneChannel => motion # "running")

(* Motion detection is back, or has failed to start, once nobody has the    *)
(* streamer.                                                                *)
MotionResumes ==
  ~overlapped /\ Settled /\ outbound = NoneChannel => motion # "null"

(* A WebSocket session belongs to the registered client, whose messages are *)
(* addressed by that client id; a direct session has its socket.            *)
ClientOwnsSession ==
  ~overlapped /\ Settled =>
    /\ active["ws"] => client.state = "registered" /\ client.id = peer["ws"]
    /\ active["direct"] => direct.sock = "open"

(* The two RTC_CHECKs of Streamer::OnMessageFromPeer about the peer id hold *)
(* for each message that gets there.  The third, that the message is not    *)
(* empty, does not: an empty line of a native client aborts the process.    *)
PeerChecksHold ==
  ~overlapped /\ At("main", "msg") =>
    /\ streamer.peer \in {frame["main"].id, None}
    /\ ~streamer.pc => streamer.peer = None

-----------------------------------------------------------------------------
(* Liveness, under FairHistorySpec *)

(* The failure of a connected session's ICE ends that session, overlaps     *)
(* included, unless a teardown named another peer: then the PeerConnection  *)
(* stays behind, with its owner gone from the proxy.                        *)
FailureReleases == []<>(streamer.ice # "failed" \/ crashed \/ misnamed)
=============================================================================
