------------------------------ MODULE Signaling ------------------------------
(***************************************************************************)
(* The signaling core of the streamer: who owns the one camera session.    *)
(*                                                                         *)
(* A browser reaches the streamer over a WebSocket (AppWsClient), a native *)
(* client over a plain TCP socket (DirectSocketServer).  Both derive from  *)
(* SignalingChannelHelper and compete for StreamerProxy, which lets one of *)
(* them at a time talk to the Streamer and its PeerConnection, and which   *)
(* stops motion detection for as long as the session lasts.                *)
(*                                                                         *)
(* Two threads run this code.  The main thread serves the sockets, one     *)
(* event after the other.  The signaling thread, which the Streamer makes  *)
(* anew for each session, runs the PeerConnection's callbacks and, one     *)
(* second after an ICE failure, the delayed message 3400 that drops the    *)
(* connection.  Only AppClientInfo::Register and Disconnect take a lock,   *)
(* so a handler is modelled as the sequence of its accesses to the shared  *)
(* state: frame[t] is the handler thread t is in, and its program counter. *)
(* Calls that WebRTC marshals to the signaling thread, and the join of the *)
(* old signaling thread, wait until that thread is idle.                   *)
(***************************************************************************)
EXTENDS Naturals, FiniteSets

CONSTANTS
  Sockets,         \* file descriptors a WebSocket connection may get
  Clients,         \* the (room id, client id) pairs browsers register with
  DirectPeer,      \* DIRECTSOCKET_FAKE_PEERID
  None,            \* no socket (0), no peer (-1), no channel (nullptr)
  Threshold,       \* FORCE_CONNECTION_DROP_TRYCOUNT_THRESHOLD
  MaxIceFailures,  \* bound: ICE failures in one behaviour
  CaptureMayFail   \* whether RaspiMotion::StartCapture may fail

ASSUME NoneAssumption ==
  /\ None \notin Sockets
  /\ None \notin Clients
  /\ None # DirectPeer
ASSUME DirectPeerAssumption == DirectPeer \notin Clients
ASSUME BoundsAssumption ==
  /\ Threshold \in Nat
  /\ MaxIceFailures \in Nat
  /\ CaptureMayFail \in BOOLEAN

Channels == {"ws", "direct"}
NoneChannel == "none"
Threads == {"main", "signaling"}
Peers == Clients \cup {DirectPeer, None}

VARIABLES
  conn,      \* open WebSocket connections
  client,    \* AppClientInfo: state_, sockid_, client_id_ with room_id_
  active,    \* streamsession_active_ of each channel's SignalingChannelHelper
  peer,      \* peer_id_ of each channel's SignalingChannelHelper
  outbound,  \* StreamerProxy::active_signaling_outbound_
  streamer,  \* peer_connection_, peer_id_, its pending SDP and its ICE state
  motion,    \* RaspiMotionHolder::raspi_motion_: null, running, or left failed
  direct,    \* direct_socket_, connection_reject_count_, a reject within 3 s
  drops,     \* delayed messages 3400 queued on the signaling thread
  failures,  \* ICE failures so far
  frame,     \* the handler each thread executes
  crashed    \* the process died: aborted, or used a null or freed object

sessionVars == <<active, peer, outbound>>
vars == <<conn, client, sessionVars, streamer, motion, direct, drops,
          failures, frame, crashed>>

-----------------------------------------------------------------------------
(* Types and initial state *)

PCs == {"idle", "reg_check", "start", "bind", "connected", "init", "started",
        "attach", "msg_proxy", "msg", "msg_init", "msg_apply", "disconnect",
        "reset", "check", "direct_close", "stop", "stop_peer", "proxy_stop",
        "clear", "delete", "close_pc", "start_motion"}

Frames == [pc : PCs, ch : Channels, id : Peers, sock : Sockets \cup {None},
           again : BOOLEAN]

ClientInfos == [state : {"disconnected", "registered"},
                sock : Sockets \cup {None}, id : Clients \cup {None}]

Streamers == [pc : BOOLEAN, peer : Peers, sdp : BOOLEAN,
              ice : {"new", "checking", "connected", "failed"}]

Drops == [ch : Channels, sock : Sockets \cup {None}]

Directs == [sock : {"null", "open", "closed"}, rejects : Nat, recent : BOOLEAN]

TypeOK ==
  /\ conn \subseteq Sockets
  /\ client \in ClientInfos
  /\ active \in [Channels -> BOOLEAN]
  /\ peer \in [Channels -> Peers]
  /\ outbound \in Channels \cup {NoneChannel}
  /\ streamer \in Streamers
  /\ motion \in {"null", "running", "failed"}
  /\ direct \in Directs
  /\ drops \in SUBSET Drops
  /\ failures \in Nat
  /\ frame \in [Threads -> Frames]
  /\ crashed \in BOOLEAN

IdleFrame == [pc |-> "idle", ch |-> "ws", id |-> None, sock |-> None,
              again |-> FALSE]

NoPeerConnection == [pc |-> FALSE, peer |-> None, sdp |-> FALSE,
                     ice |-> "new"]

NoClient == [state |-> "disconnected", sock |-> None, id |-> None]

(* RaspiMotionHolder::Start: a RaspiMotion whose StartCapture fails stays.  *)
MotionStarted ==
  IF CaptureMayFail THEN {"running", "failed"} ELSE {"running"}

(* The process as main() builds it.  The AppClientInfo constructor sets     *)
(* state_ only: sockid_ starts with whatever the memory held.               *)
Boot(cn, cl, ac, pe, ou, st, mo, di, dr, fr) ==
  /\ cn = {}
  /\ cl \in [state : {"disconnected"}, sock : Sockets \cup {None},
             id : {None}]
  /\ ac = [ch \in Channels |-> FALSE]
  /\ pe = [ch \in Channels |-> None]
  /\ ou = NoneChannel
  /\ st = NoPeerConnection
  /\ mo \in MotionStarted
  /\ di = [sock |-> "null", rejects |-> 0, recent |-> FALSE]
  /\ dr = {}
  /\ fr = [t \in Threads |-> IdleFrame]

Init ==
  /\ Boot(conn, client, active, peer, outbound, streamer, motion, direct,
          drops, frame)
  /\ failures = 0
  /\ crashed = FALSE

-----------------------------------------------------------------------------
(* Frames *)

Idle(t) == ~crashed /\ frame[t].pc = "idle"
At(t, pc) == ~crashed /\ frame[t].pc = pc
Goto(t, pc) == frame' = [frame EXCEPT ![t].pc = pc]
Done(t) == frame' = [frame EXCEPT ![t] = IdleFrame]

(* Thread t starts handler step pc for channel ch.                          *)
Enter(t, pc, ch, id, sock) ==
  frame' = [frame EXCEPT ![t] = [pc |-> pc, ch |-> ch, id |-> id,
                                 sock |-> sock, again |-> FALSE]]

Chan(t) == frame[t].ch

Crash ==
  /\ crashed' = TRUE
  /\ UNCHANGED <<conn, client, sessionVars, streamer, motion, direct, drops,
                 failures, frame>>

(* A blocking call of thread t into WebRTC returns once the signaling       *)
(* thread has finished the handler it is in; on that thread it is a call.   *)
Marshalled(t) == t = "main" => Idle("signaling")

-----------------------------------------------------------------------------
(* AppWsClient: WebSocket events on the main thread *)

WsConnect(s) ==
  /\ Idle("main")
  /\ s \notin conn
  /\ conn' = conn \cup {s}
  /\ UNCHANGED <<client, sessionVars, streamer, motion, direct, drops,
                 failures, frame, crashed>>

(* cmd "register".  A second client is answered kErrStreamerOccupied, which *)
(* changes nothing; the same ids again succeed and keep the old sockid_.    *)
WsRegister(s, c) ==
  /\ Idle("main")
  /\ s \in conn
  /\ client.state = "registered" => client.id = c
  /\ client' = IF client.state = "registered" THEN client
               ELSE [state |-> "registered", sock |-> s, id |-> c]
  /\ Enter("main", "reg_check", "ws", c, s)
  /\ UNCHANGED <<conn, sessionVars, streamer, motion, direct, drops, failures,
                 crashed>>

(* A register while the session is active is an internal error: the handler *)
(* returns false and libwebsockets closes the connection.                   *)
RegCheck ==
  /\ At("main", "reg_check")
  /\ \/ /\ active["ws"]
        /\ conn' = conn \ {frame["main"].sock}
        /\ Goto("main", "disconnect")
        /\ UNCHANGED peer
     \/ /\ ~active["ws"]
        /\ peer' = [peer EXCEPT !["ws"] = frame["main"].id]
        /\ Goto("main", "start")
        /\ UNCHANGED conn
  /\ UNCHANGED <<client, active, outbound, streamer, motion, direct, drops,
                 failures, crashed>>

(* cmd "send" with type bye, from the registered socket.                    *)
WsBye(s) ==
  /\ Idle("main")
  /\ s \in conn
  /\ client.state = "registered" /\ client.sock = s
  /\ client' = NoClient
  /\ Enter("main", "check", "ws", None, s)
  /\ UNCHANGED <<conn, sessionVars, streamer, motion, direct, drops, failures,
                 crashed>>

(* Any other cmd "send", from any socket: MessageFromPeer.                  *)
WsSend(s) ==
  /\ Idle("main")
  /\ s \in conn
  /\ active["ws"]
  /\ Enter("main", "msg_proxy", "ws", peer["ws"], s)
  /\ UNCHANGED <<conn, client, sessionVars, streamer, motion, direct, drops,
                 failures, crashed>>

(* The connection ends: OnDisconnect.                                       *)
WsClose(s) ==
  /\ Idle("main")
  /\ s \in conn
  /\ conn' = conn \ {s}
  /\ Enter("main", "disconnect", "ws", None, s)
  /\ UNCHANGED <<client, sessionVars, streamer, motion, direct, drops,
                 failures, crashed>>

(* AppClientInfo::Disconnect, under its mutex.                              *)
Disconnect(t) ==
  /\ At(t, "disconnect")
  /\ \/ /\ client.sock = frame[t].sock
        /\ client' = [client EXCEPT !.state = "disconnected"]
        /\ Goto(t, "reset")
     \/ /\ client.sock # frame[t].sock
        /\ Done(t)
        /\ UNCHANGED client
  /\ UNCHANGED <<conn, sessionVars, streamer, motion, direct, drops, failures,
                 crashed>>

(* AppClientInfo::Reset, without the mutex.                                 *)
Reset(t) ==
  /\ At(t, "reset")
  /\ client' = NoClient
  /\ Goto(t, "check")
  /\ UNCHANGED <<conn, sessionVars, streamer, motion, direct, drops, failures,
                 crashed>>

(* Bug: the session survives the client it was made for.                    *)
CheckKeepsSession(t) ==
  /\ At(t, "check")
  /\ Done(t)
  /\ UNCHANGED <<conn, client, sessionVars, streamer, motion, direct, drops,
                 failures, crashed>>

(* IsSignalingSessionActive, then StopSignalingSession.                     *)
Check(t) ==
  /\ At(t, "check")
  /\ IF active["ws"] THEN Goto(t, "stop") ELSE Done(t)
  /\ UNCHANGED <<conn, client, sessionVars, streamer, motion, direct, drops,
                 failures, crashed>>

-----------------------------------------------------------------------------
(* DirectSocketServer: TCP events on the main thread *)

(* OnAccept first asserts that the listener yields a socket, which it does  *)
(* not when the newcomer is gone or the process has no descriptor left.     *)
AcceptFails ==
  /\ Idle("main")
  /\ Crash

(* OnAccept with no direct session: try to start one.                       *)
DirectAccept ==
  /\ Idle("main")
  /\ ~active["direct"]
  /\ direct' = [direct EXCEPT !.rejects = 0]
  /\ peer' = [peer EXCEPT !["direct"] = DirectPeer]
  /\ Enter("main", "start", "direct", DirectPeer, None)
  /\ UNCHANGED <<conn, client, active, outbound, streamer, motion, drops,
                 failures, crashed>>

(* OnAccept with a direct session: the newcomer is closed.  The first       *)
(* reject within 3 s of another counts and closes the session: the braces   *)
(* that would make the threshold guard OnClose are missing.                 *)
DirectReject ==
  /\ Idle("main")
  /\ active["direct"]
  /\ direct' = [direct EXCEPT !.recent = TRUE,
                  !.rejects = IF direct.recent THEN @ + 1 ELSE 0]
  /\ IF direct.recent
     THEN Enter("main", "direct_close", "direct", None, None)
     ELSE UNCHANGED frame
  /\ UNCHANGED <<conn, client, sessionVars, streamer, motion, drops, failures,
                 crashed>>

(* 3 s pass after the last reject.                                          *)
RejectExpires ==
  /\ ~crashed
  /\ direct.recent
  /\ direct' = [direct EXCEPT !.recent = FALSE]
  /\ UNCHANGED <<conn, client, sessionVars, streamer, motion, drops, failures,
                 frame, crashed>>

(* The remote end closes: SignalCloseEvent calls OnClose.                   *)
DirectRemoteClose ==
  /\ Idle("main")
  /\ direct.sock = "open"
  /\ Enter("main", "direct_close", "direct", None, None)
  /\ UNCHANGED <<conn, client, sessionVars, streamer, motion, direct, drops,
                 failures, crashed>>

(* OnRead with a complete line.                                             *)
DirectRead ==
  /\ Idle("main")
  /\ direct.sock = "open"
  /\ active["direct"]
  /\ Enter("main", "msg_proxy", "direct", peer["direct"], None)
  /\ UNCHANGED <<conn, client, sessionVars, streamer, motion, direct, drops,
                 failures, crashed>>

(* OnClose: disconnect the signal and close the socket, then stop.          *)
DirectClose(t) ==
  /\ At(t, "direct_close")
  /\ direct' = [direct EXCEPT !.sock = "closed"]
  /\ Goto(t, "stop")
  /\ UNCHANGED <<conn, client, sessionVars, streamer, motion, drops, failures,
                 crashed>>

-----------------------------------------------------------------------------
(* StartSignalingSession, StreamerProxy and Streamer: starting a session *)

(* Bug: motion detection is not stopped.                                    *)
StartKeepsMotion ==
  /\ At("main", "start")
  /\ IF outbound = NoneChannel THEN Goto("main", "bind") ELSE Done("main")
  /\ UNCHANGED <<conn, client, sessionVars, streamer, motion, direct, drops,
                 failures, crashed>>

(* The proxy refuses when it is occupied; else it stops motion detection.   *)
Start ==
  /\ At("main", "start")
  /\ \/ /\ outbound # NoneChannel
        /\ Done("main")
        /\ UNCHANGED motion
     \/ /\ outbound = NoneChannel
        /\ motion' = IF motion = "running" THEN "null" ELSE motion
        /\ Goto("main", "bind")
  /\ UNCHANGED <<conn, client, sessionVars, streamer, direct, drops, failures,
                 crashed>>

Bind ==
  /\ At("main", "bind")
  /\ outbound' = Chan("main")
  /\ Goto("main", "connected")
  /\ UNCHANGED <<conn, client, active, peer, streamer, motion, direct, drops,
                 failures, crashed>>

(* Streamer::OnPeerConnected: one PeerConnection at a time.                 *)
PeerConnected ==
  /\ At("main", "connected")
  /\ Goto("main", IF streamer.pc THEN "started" ELSE "init")
  /\ UNCHANGED <<conn, client, sessionVars, streamer, motion, direct, drops,
                 failures, crashed>>

(* Bug: the signaling thread outlives the session, with its messages.       *)
InitializeKeepsThread(sdp) ==
  /\ Idle("signaling")
  /\ UNCHANGED drops
  /\ streamer' = [pc |-> TRUE, peer |-> frame["main"].id, sdp |-> sdp,
                  ice |-> "new"]

(* Streamer::InitializePeerConnection.  Replacing signaling_thread_ joins   *)
(* the old thread and discards the messages queued on it.  When the         *)
(* PeerConnection cannot be made, DeletePeerConnection uses a null pointer. *)
Initialize(sdp) ==
  /\ Idle("signaling")
  /\ drops' = {}
  /\ streamer' = [pc |-> TRUE, peer |-> frame["main"].id, sdp |-> sdp,
                  ice |-> "new"]

InitPeerConnection ==
  /\ At("main", "init")
  /\ Initialize(TRUE)
  /\ Goto("main", "started")
  /\ UNCHANGED <<conn, client, sessionVars, motion, direct, failures, crashed>>

InitFails ==
  /\ At("main", "init") \/ At("main", "msg_init")
  /\ Idle("signaling")
  /\ Crash

(* StartSignalingSession returns true.                                      *)
Started ==
  /\ At("main", "started")
  /\ active' = [active EXCEPT ![Chan("main")] = TRUE]
  /\ IF Chan("main") = "direct" THEN Goto("main", "attach") ELSE Done("main")
  /\ UNCHANGED <<conn, client, peer, outbound, streamer, motion, direct, drops,
                 failures, crashed>>

(* OnAccept keeps the new socket and connects its signals.                  *)
Attach ==
  /\ At("main", "attach")
  /\ direct' = [direct EXCEPT !.sock = "open"]
  /\ Done("main")
  /\ UNCHANGED <<conn, client, sessionVars, streamer, motion, drops, failures,
                 crashed>>

-----------------------------------------------------------------------------
(* A message from the peer *)

MsgProxy ==
  /\ At("main", "msg_proxy")
  /\ IF outbound # NoneChannel THEN Goto("main", "msg") ELSE Done("main")
  /\ UNCHANGED <<conn, client, sessionVars, streamer, motion, direct, drops,
                 failures, crashed>>

(* Streamer::OnMessageFromPeer up to parsing the message.  Its RTC_CHECKs   *)
(* abort the process: those about the peer, and the one that the message is *)
(* not empty, which AppWsClient sees to and OnRead, for an empty line, does *)
(* not.  A message with no PeerConnection makes one.                        *)
Msg ==
  /\ At("main", "msg")
  /\ \/ /\ IF streamer.pc THEN streamer.peer \notin {frame["main"].id, None}
                         ELSE streamer.peer # None
        /\ Crash
     \/ Chan("main") = "direct" /\ Crash
     \/ /\ ~streamer.pc
        /\ streamer.peer = None
        /\ streamer' = [streamer EXCEPT !.peer = frame["main"].id]
        /\ Goto("main", "msg_init")
        /\ UNCHANGED <<conn, client, sessionVars, motion, direct, drops,
                       failures, crashed>>
     \/ /\ streamer.pc
        /\ streamer.peer = frame["main"].id
        /\ Goto("main", "msg_apply")
        /\ UNCHANGED <<conn, client, sessionVars, streamer, motion, direct,
                       drops, failures, crashed>>

MsgInit ==
  /\ At("main", "msg_init")
  /\ Initialize(FALSE)
  /\ Goto("main", "msg_apply")
  /\ UNCHANGED <<conn, client, sessionVars, motion, direct, failures, crashed>>

(* Applying the message: an answer or a candidate lets ICE start, an offer  *)
(* is answered.  peer_connection_ may have been reset by the other thread.  *)
MsgApply ==
  /\ At("main", "msg_apply")
  /\ \/ ~streamer.pc /\ Crash
     \/ /\ streamer.pc
        /\ Marshalled("main")
        /\ \E offer \in BOOLEAN :
             streamer' = [streamer EXCEPT !.sdp = @ \/ offer,
                            !.ice = IF @ = "new" THEN "checking" ELSE @]
        /\ Done("main")
        /\ UNCHANGED <<conn, client, sessionVars, motion, direct, drops,
                       failures, crashed>>

-----------------------------------------------------------------------------
(* StopSignalingSession, on either thread *)

(* The end of StopSignalingSession; OnMessage(3400) of the direct socket    *)
(* calls it once more.                                                      *)
Finish(t) ==
  IF frame[t].again
  THEN frame' = [frame EXCEPT ![t].pc = "stop", ![t].again = FALSE]
  ELSE Done(t)

(* Bug: the channel's session stays active.                                 *)
StopKeepsActive(t) ==
  /\ At(t, "stop")
  /\ Goto(t, "stop_peer")
  /\ UNCHANGED <<conn, client, sessionVars, streamer, motion, direct, drops,
                 failures, crashed>>

Stop(t) ==
  /\ At(t, "stop")
  /\ active' = [active EXCEPT ![Chan(t)] = FALSE]
  /\ Goto(t, "stop_peer")
  /\ UNCHANGED <<conn, client, peer, outbound, streamer, motion, direct, drops,
                 failures, crashed>>

(* peer_id_ is read after the flag is cleared: the main thread may have set *)
(* it for a new session in between.                                         *)
StopPeer(t) ==
  /\ At(t, "stop_peer")
  /\ frame' = [frame EXCEPT ![t].pc = "proxy_stop", ![t].id = peer[Chan(t)]]
  /\ UNCHANGED <<conn, client, sessionVars, streamer, motion, direct, drops,
                 failures, crashed>>

(* StopStreamerSignaling: the channel must be the owner.                    *)
ProxyStop(t) ==
  /\ At(t, "proxy_stop")
  /\ IF outbound = Chan(t) THEN Goto(t, "clear") ELSE Finish(t)
  /\ UNCHANGED <<conn, client, sessionVars, streamer, motion, direct, drops,
                 failures, crashed>>

Clear(t) ==
  /\ At(t, "clear")
  /\ outbound' = NoneChannel
  /\ Goto(t, "delete")
  /\ UNCHANGED <<conn, client, active, peer, streamer, motion, direct, drops,
                 failures, crashed>>

(* Bug: the PeerConnection is not deleted.                                  *)
PeerDisconnectedKeeps(t) ==
  /\ At(t, "delete")
  /\ Goto(t, "start_motion")
  /\ UNCHANGED <<conn, client, sessionVars, streamer, motion, direct, drops,
                 failures, crashed>>

(* Streamer::OnPeerDisconnected.                                            *)
PeerDisconnected(t) ==
  /\ At(t, "delete")
  /\ Goto(t, IF streamer.pc /\ streamer.peer = frame[t].id
             THEN "close_pc" ELSE "start_motion")
  /\ UNCHANGED <<conn, client, sessionVars, streamer, motion, direct, drops,
                 failures, crashed>>

(* Bug: the threads of the session are ended with it, each joined by the    *)
(* thread that stops the session.                                           *)
DeletePeerConnectionJoins(t) ==
  /\ At(t, "close_pc")
  /\ Idle("signaling")
  /\ streamer' = NoPeerConnection
  /\ Goto(t, "start_motion")
  /\ UNCHANGED <<conn, client, sessionVars, motion, direct, drops, failures,
                 crashed>>

(* Streamer::DeletePeerConnection.  If the other thread deleted the         *)
(* PeerConnection while this one waited in its Close(), that object is      *)
(* freed memory: the process dies or gets away with it.                     *)
DeletePeerConnection(t) ==
  /\ At(t, "close_pc")
  /\ Marshalled(t)
  /\ \/ /\ streamer' = NoPeerConnection
        /\ Goto(t, "start_motion")
        /\ UNCHANGED <<conn, client, sessionVars, motion, direct, drops,
                       failures, crashed>>
     \/ ~streamer.pc /\ Crash

(* Bug: motion detection is not resumed.                                    *)
StartMotionNever(t) ==
  /\ At(t, "start_motion")
  /\ Finish(t)
  /\ UNCHANGED <<conn, client, sessionVars, streamer, motion, direct, drops,
                 failures, crashed>>

StartMotion(t) ==
  /\ At(t, "start_motion")
  /\ motion' \in IF motion = "null" THEN MotionStarted ELSE {motion}
  /\ Finish(t)
  /\ UNCHANGED <<conn, client, sessionVars, streamer, direct, drops, failures,
                 crashed>>

-----------------------------------------------------------------------------
(* The signaling thread *)

(* StreamerProxy::SendMessageToPeer uses the outbound channel unchecked, as *)
(* DirectSocketServer does direct_socket_.                                  *)
CanSend == outbound # NoneChannel
             /\ (outbound = "direct" => direct.sock # "null")

(* OnSuccess: the local description is ready and is sent.                   *)
SdpReady ==
  /\ Idle("signaling")
  /\ streamer.pc /\ streamer.sdp
  /\ IF CanSend
     THEN /\ streamer' = [streamer EXCEPT !.sdp = FALSE]
          /\ UNCHANGED <<conn, client, sessionVars, motion, direct, drops,
                         failures, frame, crashed>>
     ELSE Crash

(* OnIceCandidate; a candidate that can be sent changes nothing here.       *)
CandidateLost ==
  /\ Idle("signaling")
  /\ streamer.pc /\ ~streamer.sdp
  /\ ~CanSend
  /\ Crash

(* OnConnectionChange(kConnected).                                          *)
Connected ==
  /\ Idle("signaling")
  /\ streamer.pc /\ streamer.ice = "checking" /\ ~streamer.sdp
  /\ streamer' = [streamer EXCEPT !.ice = "connected"]
  /\ UNCHANGED <<conn, client, sessionVars, motion, direct, drops, failures,
                 frame, crashed>>

(* OnStandardizedIceConnectionChange(kIceConnectionFailed) of a connected   *)
(* peer: ReportEvent posts the delayed drop to this thread, for the socket  *)
(* that is registered now.                                                  *)
IceFailed ==
  /\ Idle("signaling")
  /\ streamer.pc /\ streamer.ice = "connected"
  /\ failures < MaxIceFailures
  /\ \/ outbound = NoneChannel /\ Crash
     \/ /\ outbound # NoneChannel
        /\ failures' = failures + 1
        /\ streamer' = [streamer EXCEPT !.ice = "failed"]
        /\ drops' = IF outbound = "direct"
                    THEN drops \cup {[ch |-> "direct", sock |-> None]}
                    ELSE IF client.id = streamer.peer
                    THEN drops \cup {[ch |-> "ws", sock |-> client.sock]}
                    ELSE drops
        /\ UNCHANGED <<conn, client, sessionVars, motion, direct, frame,
                       crashed>>

(* Bug: the delayed message closes the WebSocket and leaves the session.    *)
DropConnectionOnly(d) ==
  /\ Idle("signaling")
  /\ d \in drops
  /\ drops' = drops \ {d}
  /\ UNCHANGED <<conn, client, sessionVars, streamer, motion, direct, failures,
                 frame, crashed>>

(* OnMessage(3400).  LibWebSocketServer::Close only marks the connection.   *)
Drop(d) ==
  /\ Idle("signaling")
  /\ d \in drops
  /\ drops' = drops \ {d}
  /\ \/ /\ d.ch = "ws"
        /\ Enter("signaling", "disconnect", "ws", None, d.sock)
     \/ /\ d.ch = "direct"
        /\ IF active["direct"]
           THEN frame' = [frame EXCEPT !["signaling"] =
                            [pc |-> "direct_close", ch |-> "direct",
                             id |-> None, sock |-> None, again |-> TRUE]]
           ELSE UNCHANGED frame
  /\ UNCHANGED <<conn, client, sessionVars, streamer, motion, direct, failures,
                 crashed>>

(* rws.service restarts the program; connections and threads are gone.      *)
Restart ==
  /\ crashed
  /\ Boot(conn', client', active', peer', outbound', streamer', motion',
          direct', drops', frame')
  /\ crashed' = FALSE
  /\ UNCHANGED failures

-----------------------------------------------------------------------------
(* Next-state relation *)

SocketEvent ==
  \/ \E s \in Sockets :
       \/ WsConnect(s) \/ WsClose(s) \/ WsBye(s) \/ WsSend(s)
       \/ \E c \in Clients : WsRegister(s, c)
  \/ AcceptFails \/ DirectAccept \/ DirectReject \/ DirectRemoteClose
  \/ DirectRead \/ RejectExpires

PeerConnectionEvent ==
  SdpReady \/ CandidateLost \/ Connected \/ IceFailed

MainStep ==
  \/ RegCheck \/ Start \/ Bind \/ PeerConnected \/ InitPeerConnection
  \/ InitFails \/ Started \/ Attach
  \/ MsgProxy \/ Msg \/ MsgInit \/ MsgApply

TeardownStep(t) ==
  \/ Disconnect(t) \/ Reset(t) \/ Check(t) \/ DirectClose(t) \/ Stop(t)
  \/ StopPeer(t) \/ ProxyStop(t) \/ Clear(t) \/ PeerDisconnected(t)
  \/ DeletePeerConnection(t) \/ StartMotion(t)

Next ==
  \/ SocketEvent
  \/ PeerConnectionEvent
  \/ MainStep
  \/ \E t \in Threads : TeardownStep(t)
  \/ \E d \in drops : Drop(d)
  \/ Restart

Spec == Init /\ [][Next]_vars

(* A thread that is inside a handler goes on, and a delayed message that    *)
(* stays queued is delivered.  What clients do, and ICE, is not fair.       *)
Fairness ==
  /\ WF_vars(MainStep)
  /\ WF_vars(TeardownStep("main"))
  /\ WF_vars(TeardownStep("signaling"))
  /\ WF_vars(\E d \in drops : Drop(d))

FairSpec == Spec /\ Fairness
=============================================================================
