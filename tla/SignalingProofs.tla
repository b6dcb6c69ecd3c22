---------------------------- MODULE SignalingProofs ----------------------------
(***************************************************************************)
(* Theorems about Signaling for every set of sockets and clients, every    *)
(* threshold and any number of ICE failures.  The last part is about the   *)
(* session properties of SignalingHistory: until two handlers first        *)
(* overlap, the records of who owns the streamer, its PeerConnection,      *)
(* motion detection and the client slot agree.                             *)
(***************************************************************************)
EXTENDS SignalingHistory, TLAPS

-----------------------------------------------------------------------------
(* How the operators on frames preserve the type of frame *)

LEMMA IdleFrameType == IdleFrame \in Frames
  BY NoneAssumption DEF IdleFrame, Frames, PCs, Channels, Peers

LEMMA GotoType ==
  ASSUME NEW t \in Threads, NEW pc \in PCs,
         frame \in [Threads -> Frames], Goto(t, pc)
  PROVE  frame' \in [Threads -> Frames]
  BY DEF Goto, Frames

LEMMA DoneType ==
  ASSUME NEW t \in Threads, frame \in [Threads -> Frames], Done(t)
  PROVE  frame' \in [Threads -> Frames]
  BY IdleFrameType DEF Done

LEMMA EnterType ==
  ASSUME NEW t \in Threads, NEW pc \in PCs, NEW ch \in Channels,
         NEW id \in Peers, NEW sock \in Sockets \cup {None},
         frame \in [Threads -> Frames], Enter(t, pc, ch, id, sock)
  PROVE  frame' \in [Threads -> Frames]
  BY DEF Enter, Frames

LEMMA FinishType ==
  ASSUME NEW t \in Threads, frame \in [Threads -> Frames], Finish(t)
  PROVE  frame' \in [Threads -> Frames]
  BY DoneType DEF Finish, Frames, PCs

LEMMA FrameType ==
  ASSUME NEW t \in Threads, frame \in [Threads -> Frames]
  PROVE  /\ frame[t].ch \in Channels
         /\ Chan(t) \in Channels
         /\ frame[t].id \in Peers
         /\ frame[t].sock \in Sockets \cup {None}
         /\ frame[t].pc \in PCs
         /\ frame[t].again \in BOOLEAN
  BY DEF Frames, Chan

-----------------------------------------------------------------------------
(* Type correctness *)

LEMMA BootType ==
  ASSUME NEW cn, NEW cl, NEW ac, NEW pe, NEW ou, NEW st, NEW mo, NEW di,
         NEW dr, NEW fr, Boot(cn, cl, ac, pe, ou, st, mo, di, dr, fr)
  PROVE  /\ cn \subseteq Sockets
         /\ cl \in ClientInfos
         /\ ac \in [Channels -> BOOLEAN]
         /\ pe \in [Channels -> Peers]
         /\ ou \in Channels \cup {NoneChannel}
         /\ st \in Streamers
         /\ mo \in {"null", "running", "failed"}
         /\ di \in Directs
         /\ dr \in SUBSET Drops
         /\ fr \in [Threads -> Frames]
  <1>1. cl \in ClientInfos
    BY DEF Boot, ClientInfos
  <1>2. st \in Streamers
    BY DEF Boot, Streamers, NoPeerConnection, Peers
  <1>3. di \in Directs
    BY DEF Boot, Directs
  <1>4. fr \in [Threads -> Frames]
    BY IdleFrameType DEF Boot
  <1>5. mo \in {"null", "running", "failed"}
    BY DEF Boot, MotionStarted
  <1>6. QED
    BY <1>1, <1>2, <1>3, <1>4, <1>5 DEF Boot, Peers

LEMMA SocketEventType == TypeOK /\ SocketEvent => TypeOK'
  <1> SUFFICES ASSUME TypeOK, SocketEvent PROVE TypeOK'
    OBVIOUS
  <1> USE DEF TypeOK, sessionVars
  <1>m. "main" \in Threads
    BY DEF Threads
  <1>p. None \in Peers /\ DirectPeer \in Peers /\ Clients \subseteq Peers
    BY DEF Peers
  <1>c. "ws" \in Channels /\ "direct" \in Channels
    BY DEF Channels
  <1>pcs. /\ "reg_check" \in PCs /\ "check" \in PCs /\ "msg_proxy" \in PCs
          /\ "disconnect" \in PCs /\ "start" \in PCs
          /\ "direct_close" \in PCs
    BY DEF PCs
  <1>1. ASSUME NEW s \in Sockets, WsConnect(s) PROVE TypeOK'
    BY <1>1 DEF WsConnect
  <1>2. ASSUME NEW s \in Sockets, WsClose(s) PROVE TypeOK'
    BY <1>2, <1>m, <1>p, <1>c, <1>pcs, EnterType DEF WsClose
  <1>3. ASSUME NEW s \in Sockets, WsBye(s) PROVE TypeOK'
    <2>1. client' \in ClientInfos
      BY <1>3 DEF WsBye, NoClient, ClientInfos
    <2>2. QED
      BY <1>3, <2>1, <1>m, <1>p, <1>c, <1>pcs, EnterType DEF WsBye
  <1>4. ASSUME NEW s \in Sockets, WsSend(s) PROVE TypeOK'
    BY <1>4, <1>m, <1>p, <1>c, <1>pcs, EnterType DEF WsSend
  <1>5. ASSUME NEW s \in Sockets, NEW c \in Clients, WsRegister(s, c)
        PROVE  TypeOK'
    <2>1. client' \in ClientInfos
      BY <1>5 DEF WsRegister, ClientInfos
    <2>2. QED
      BY <1>5, <2>1, <1>m, <1>p, <1>c, <1>pcs, EnterType DEF WsRegister
  <1>6. ASSUME DirectAccept PROVE TypeOK'
    <2>1. direct' \in Directs
      BY <1>6 DEF DirectAccept, Directs
    <2>2. QED
      BY <1>6, <2>1, <1>m, <1>p, <1>c, <1>pcs, EnterType DEF DirectAccept
  <1>7. ASSUME DirectReject PROVE TypeOK'
    <2>1. direct.rejects \in Nat /\ direct.rejects + 1 \in Nat
      BY DEF Directs
    <2>2. PICK n \in Nat : direct' = [direct EXCEPT !.recent = TRUE,
                                                   !.rejects = n]
      <3>1. CASE direct.recent
        BY <1>7, <2>1, <3>1 DEF DirectReject
      <3>2. CASE ~direct.recent
        BY <1>7, <3>2 DEF DirectReject
      <3>3. QED
        BY <3>1, <3>2
    <2>3. direct' \in Directs
      BY <2>2 DEF Directs
    <2>4. QED
      BY <1>7, <2>3, <1>m, <1>p, <1>c, <1>pcs, EnterType DEF DirectReject
  <1>8. ASSUME DirectRemoteClose PROVE TypeOK'
    BY <1>8, <1>m, <1>p, <1>c, <1>pcs, EnterType DEF DirectRemoteClose
  <1>9. ASSUME DirectRead PROVE TypeOK'
    BY <1>9, <1>m, <1>p, <1>c, <1>pcs, EnterType DEF DirectRead
  <1>10. ASSUME RejectExpires PROVE TypeOK'
    BY <1>10 DEF RejectExpires, Directs
  <1>11. ASSUME AcceptFails PROVE TypeOK'
    BY <1>11 DEF AcceptFails, Crash
  <1>12. QED
    BY <1>1, <1>2, <1>3, <1>4, <1>5, <1>6, <1>7, <1>8, <1>9, <1>10, <1>11
       DEF SocketEvent

LEMMA PeerConnectionEventType ==
  TypeOK /\ PeerConnectionEvent => TypeOK'
  <1> SUFFICES ASSUME TypeOK, PeerConnectionEvent PROVE TypeOK'
    OBVIOUS
  <1> USE DEF TypeOK, sessionVars
  <1>1. CASE SdpReady
    BY <1>1 DEF SdpReady, Crash, Streamers
  <1>2. CASE CandidateLost
    BY <1>2 DEF CandidateLost, Crash
  <1>3. CASE Connected
    BY <1>3 DEF Connected, Streamers
  <1>4. CASE IceFailed
    <2>1. CASE Crash
      BY <2>1 DEF Crash
    <2>2. CASE ~Crash
      <3>1. failures' \in Nat /\ streamer' \in Streamers
        BY <1>4, <2>2 DEF IceFailed, Streamers
      <3>2. drops' \in SUBSET Drops
        BY <1>4, <2>2 DEF IceFailed, Drops, Channels, ClientInfos
      <3>3. QED
        BY <1>4, <2>2, <3>1, <3>2 DEF IceFailed
    <2>3. QED
      BY <2>1, <2>2
  <1>5. QED
    BY <1>1, <1>2, <1>3, <1>4 DEF PeerConnectionEvent

LEMMA InitializeType ==
  ASSUME TypeOK, NEW sdp \in BOOLEAN, Initialize(sdp)
  PROVE  streamer' \in Streamers /\ drops' \in SUBSET Drops
  <1>1. frame["main"].id \in Peers
    BY FrameType DEF TypeOK, Threads
  <1>2. QED
    BY <1>1 DEF Initialize, Streamers

LEMMA MainStepType == TypeOK /\ MainStep => TypeOK'
  <1> SUFFICES ASSUME TypeOK, MainStep PROVE TypeOK'
    OBVIOUS
  <1>m. "main" \in Threads
    BY DEF Threads
  <1>f. frame \in [Threads -> Frames]
    BY DEF TypeOK
  <1>t. /\ frame["main"].id \in Peers
        /\ Chan("main") \in Channels
    BY <1>m, <1>f, FrameType
  <1>d. ASSUME Done("main") PROVE frame' \in [Threads -> Frames]
    BY <1>m, <1>f, <1>d, DoneType
  <1>g. ASSUME NEW pc \in PCs, Goto("main", pc)
        PROVE  frame' \in [Threads -> Frames]
    BY <1>m, <1>f, <1>g, GotoType
  <1>pcs. /\ "start" \in PCs /\ "bind" \in PCs /\ "connected" \in PCs
          /\ "init" \in PCs /\ "started" \in PCs /\ "attach" \in PCs
          /\ "msg" \in PCs /\ "msg_init" \in PCs /\ "msg_apply" \in PCs
          /\ "disconnect" \in PCs
    BY DEF PCs
  <1>c. ASSUME Crash PROVE TypeOK'
    BY <1>c DEF Crash, TypeOK, sessionVars
  <1>1. CASE RegCheck
    <2>1. frame' \in [Threads -> Frames]
      BY <1>1, <1>g, <1>pcs DEF RegCheck
    <2>2. QED
      BY <1>1, <1>t, <2>1 DEF RegCheck, TypeOK
  <1>2. CASE Start
    <2>1. frame' \in [Threads -> Frames]
      BY <1>2, <1>g, <1>d, <1>pcs DEF Start
    <2>2. QED
      BY <1>2, <2>1 DEF Start, TypeOK, sessionVars
  <1>3. CASE Bind
    <2>1. frame' \in [Threads -> Frames]
      BY <1>3, <1>g, <1>pcs DEF Bind
    <2>2. QED
      BY <1>3, <1>t, <2>1 DEF Bind, TypeOK
  <1>4. CASE PeerConnected
    <2>1. frame' \in [Threads -> Frames]
      BY <1>4, <1>g, <1>pcs DEF PeerConnected
    <2>2. QED
      BY <1>4, <2>1 DEF PeerConnected, TypeOK, sessionVars
  <1>5. CASE InitPeerConnection
    <2>1. frame' \in [Threads -> Frames]
      BY <1>5, <1>g, <1>pcs DEF InitPeerConnection
    <2>2. streamer' \in Streamers /\ drops' \in SUBSET Drops
      BY <1>5, InitializeType DEF InitPeerConnection
    <2>3. QED
      BY <1>5, <2>1, <2>2 DEF InitPeerConnection, TypeOK, sessionVars
  <1>6. CASE InitFails
    BY <1>6, <1>c DEF InitFails
  <1>7. CASE Started
    <2>1. frame' \in [Threads -> Frames]
      BY <1>7, <1>g, <1>d, <1>pcs DEF Started
    <2>2. QED
      BY <1>7, <2>1 DEF Started, TypeOK
  <1>8. CASE Attach
    <2>1. frame' \in [Threads -> Frames]
      BY <1>8, <1>d DEF Attach
    <2>2. QED
      BY <1>8, <2>1 DEF Attach, TypeOK, sessionVars, Directs
  <1>9. CASE MsgProxy
    <2>1. frame' \in [Threads -> Frames]
      BY <1>9, <1>g, <1>d, <1>pcs DEF MsgProxy
    <2>2. QED
      BY <1>9, <2>1 DEF MsgProxy, TypeOK, sessionVars
  <1>10. CASE Msg /\ ~Crash
    <2>1. frame' \in [Threads -> Frames]
      BY <1>10, <1>g, <1>pcs DEF Msg
    <2>2. streamer' \in Streamers
      BY <1>10, <1>t DEF Msg, TypeOK, Streamers
    <2>3. QED
      BY <1>10, <2>1, <2>2 DEF Msg, TypeOK, sessionVars
  <1>11. CASE MsgInit
    <2>1. frame' \in [Threads -> Frames]
      BY <1>11, <1>g, <1>pcs DEF MsgInit
    <2>2. streamer' \in Streamers /\ drops' \in SUBSET Drops
      BY <1>11, InitializeType DEF MsgInit
    <2>3. QED
      BY <1>11, <2>1, <2>2 DEF MsgInit, TypeOK, sessionVars
  <1>12. CASE MsgApply /\ ~Crash
    <2>1. frame' \in [Threads -> Frames]
      BY <1>12, <1>d DEF MsgApply
    <2>2. streamer' \in Streamers
      <3>1. PICK offer \in BOOLEAN :
              streamer' = [streamer EXCEPT !.sdp = @ \/ offer,
                             !.ice = IF @ = "new" THEN "checking" ELSE @]
        BY <1>12 DEF MsgApply
      <3> DEFINE sdp == streamer.sdp \/ offer
                 ice == IF streamer.ice = "new" THEN "checking"
                        ELSE streamer.ice
      <3>2. sdp \in BOOLEAN
        OBVIOUS
      <3>3. ice \in {"new", "checking", "connected", "failed"}
        BY DEF TypeOK, Streamers
      <3>4. streamer' = [streamer EXCEPT !.sdp = sdp, !.ice = ice]
        BY <3>1
      <3> HIDE DEF sdp, ice
      <3>5. QED
        BY <3>2, <3>3, <3>4 DEF TypeOK, Streamers
    <2>3. QED
      BY <1>12, <2>1, <2>2 DEF MsgApply, TypeOK, sessionVars
  <1>13. QED
    BY <1>1, <1>2, <1>3, <1>4, <1>5, <1>6, <1>7, <1>8, <1>9, <1>10, <1>11,
       <1>12, <1>c DEF MainStep

LEMMA TeardownStepType ==
  ASSUME TypeOK, NEW t \in Threads, TeardownStep(t)
  PROVE  TypeOK'
  <1>f. frame \in [Threads -> Frames]
    BY DEF TypeOK
  <1>t. /\ frame[t].ch \in Channels /\ Chan(t) \in Channels
        /\ frame[t].sock \in Sockets \cup {None}
    BY <1>f, FrameType
  <1>g. ASSUME NEW pc \in PCs, Goto(t, pc)
        PROVE  frame' \in [Threads -> Frames]
    BY <1>f, <1>g, GotoType
  <1>d. Done(t) \/ Finish(t) => frame' \in [Threads -> Frames]
    BY <1>f, DoneType, FinishType
  <1>pcs. /\ "reset" \in PCs /\ "check" \in PCs /\ "stop" \in PCs
          /\ "stop_peer" \in PCs /\ "proxy_stop" \in PCs
          /\ "clear" \in PCs /\ "delete" \in PCs
          /\ "close_pc" \in PCs /\ "start_motion" \in PCs
    BY DEF PCs
  <1>1. CASE Disconnect(t)
    <2>1. frame' \in [Threads -> Frames]
      BY <1>1, <1>g, <1>d, <1>pcs DEF Disconnect
    <2>2. client' \in ClientInfos
      BY <1>1 DEF Disconnect, TypeOK, ClientInfos
    <2>3. QED
      BY <1>1, <2>1, <2>2 DEF Disconnect, TypeOK, sessionVars
  <1>2. CASE Reset(t)
    <2>1. frame' \in [Threads -> Frames]
      BY <1>2, <1>g, <1>pcs DEF Reset
    <2>2. client' \in ClientInfos
      BY <1>2 DEF Reset, NoClient, ClientInfos
    <2>3. QED
      BY <1>2, <2>1, <2>2 DEF Reset, TypeOK, sessionVars
  <1>3. CASE Check(t)
    <2>1. frame' \in [Threads -> Frames]
      BY <1>3, <1>g, <1>d, <1>pcs DEF Check
    <2>2. QED
      BY <1>3, <2>1 DEF Check, TypeOK, sessionVars
  <1>4. CASE DirectClose(t)
    <2>1. frame' \in [Threads -> Frames]
      BY <1>4, <1>g, <1>pcs DEF DirectClose
    <2>2. QED
      BY <1>4, <2>1 DEF DirectClose, TypeOK, sessionVars, Directs
  <1>5. CASE Stop(t)
    <2>1. frame' \in [Threads -> Frames]
      BY <1>5, <1>g, <1>pcs DEF Stop
    <2>2. QED
      BY <1>5, <2>1 DEF Stop, TypeOK
  <1>5a. CASE StopPeer(t)
    <2>1. peer[Chan(t)] \in Peers
      BY <1>t DEF TypeOK
    <2>2. frame' \in [Threads -> Frames]
      BY <1>5a, <1>f, <1>pcs, <2>1 DEF StopPeer, Frames
    <2>3. QED
      BY <1>5a, <2>2 DEF StopPeer, TypeOK, sessionVars
  <1>6. CASE ProxyStop(t)
    <2>1. frame' \in [Threads -> Frames]
      BY <1>6, <1>g, <1>d, <1>pcs DEF ProxyStop
    <2>2. QED
      BY <1>6, <2>1 DEF ProxyStop, TypeOK, sessionVars
  <1>7. CASE Clear(t)
    <2>1. frame' \in [Threads -> Frames]
      BY <1>7, <1>g, <1>pcs DEF Clear
    <2>2. QED
      BY <1>7, <2>1 DEF Clear, TypeOK
  <1>8. CASE PeerDisconnected(t)
    <2>1. frame' \in [Threads -> Frames]
      BY <1>8, <1>g, <1>pcs DEF PeerDisconnected
    <2>2. QED
      BY <1>8, <2>1 DEF PeerDisconnected, TypeOK, sessionVars
  <1>9. CASE DeletePeerConnection(t)
    <2>1. CASE Crash
      BY <2>1 DEF Crash, TypeOK, sessionVars
    <2>2. CASE ~Crash
      <3>1. frame' \in [Threads -> Frames]
        BY <1>9, <2>2, <1>g, <1>pcs DEF DeletePeerConnection
      <3>2. streamer' \in Streamers
        <4>1. NoPeerConnection \in Streamers
          BY DEF NoPeerConnection, Streamers, Peers
        <4>2. streamer' = NoPeerConnection
          BY <1>9, <2>2 DEF DeletePeerConnection
        <4>3. QED
          BY <4>1, <4>2
      <3>3. QED
        BY <1>9, <2>2, <3>1, <3>2 DEF DeletePeerConnection, TypeOK,
                                      sessionVars
    <2>3. QED
      BY <2>1, <2>2
  <1>10. CASE StartMotion(t)
    <2>1. frame' \in [Threads -> Frames]
      BY <1>10, <1>d DEF StartMotion
    <2>2. motion' \in {"null", "running", "failed"}
      BY <1>10 DEF StartMotion, MotionStarted, TypeOK
    <2>3. QED
      BY <1>10, <2>1, <2>2 DEF StartMotion, TypeOK, sessionVars
  <1>11. QED
    BY <1>1, <1>2, <1>3, <1>4, <1>5, <1>5a, <1>6, <1>7, <1>8, <1>9, <1>10
       DEF TeardownStep

LEMMA DropType ==
  ASSUME TypeOK, NEW d \in drops, Drop(d)
  PROVE  TypeOK'
  <1>1. "signaling" \in Threads /\ "ws" \in Channels /\ None \in Peers
    BY DEF Threads, Channels, Peers
  <1>2. d.sock \in Sockets \cup {None}
    BY DEF TypeOK, Drops
  <1>3. frame' \in [Threads -> Frames]
    <2>1. CASE d.ch = "ws"
      <3>1. "disconnect" \in PCs
        BY DEF PCs
      <3>2. Enter("signaling", "disconnect", "ws", None, d.sock)
        BY <2>1 DEF Drop
      <3>3. QED
        BY <1>1, <1>2, <3>1, <3>2, EnterType DEF TypeOK
    <2>2. CASE d.ch = "direct"
      <3>1. [pc |-> "direct_close", ch |-> "direct", id |-> None,
             sock |-> None, again |-> TRUE] \in Frames
        BY <1>1 DEF Frames, PCs, Channels
      <3>2. QED
        BY <2>2, <3>1 DEF Drop, TypeOK
    <2>3. QED
      BY <2>1, <2>2 DEF Drop
  <1>4. QED
    BY <1>3 DEF Drop, TypeOK, sessionVars

LEMMA NextType == TypeOK /\ [Next]_vars => TypeOK'
  <1> SUFFICES ASSUME TypeOK, [Next]_vars PROVE TypeOK'
    OBVIOUS
  <1>1. CASE Restart
    <2>1. failures' \in Nat /\ crashed' \in BOOLEAN
      BY <1>1 DEF Restart, TypeOK
    <2>2. Boot(conn', client', active', peer', outbound', streamer', motion',
               direct', drops', frame')
      BY <1>1 DEF Restart
    <2>3. QED
      BY <2>1, <2>2, BootType DEF TypeOK
  <1>2. CASE UNCHANGED vars
    BY <1>2 DEF vars, sessionVars, TypeOK
  <1>3. QED
    BY <1>1, <1>2, SocketEventType, PeerConnectionEventType, MainStepType,
       TeardownStepType, DropType DEF Next

(* Every variable keeps its type, for every set of sockets and clients.      *)
THEOREM TypeCorrect == Spec => []TypeOK
  <1>1. Init => TypeOK
    <2> SUFFICES ASSUME Init PROVE TypeOK
      OBVIOUS
    <2>1. failures \in Nat /\ crashed \in BOOLEAN
      BY DEF Init
    <2>2. Boot(conn, client, active, peer, outbound, streamer, motion, direct,
               drops, frame)
      BY DEF Init
    <2>3. QED
      BY <2>1, <2>2, BootType DEF TypeOK
  <1>2. QED
    BY <1>1, NextType, PTL DEF Spec

-----------------------------------------------------------------------------
(* What changes of frame do to its fields *)

Pc(t) == frame[t].pc

LEMMA GotoFields ==
  ASSUME TypeOK, NEW t \in Threads, NEW pc \in PCs, Goto(t, pc)
  PROVE  /\ Pc(t)' = pc
         /\ Chan(t)' = Chan(t)
         /\ frame'[t].id = frame[t].id
         /\ \A u \in Threads : u # t => frame'[u] = frame[u]
  BY DEF TypeOK, Frames, Goto, Pc, Chan

LEMMA DoneFields ==
  ASSUME TypeOK, NEW t \in Threads, Done(t)
  PROVE  /\ Pc(t)' = "idle"
         /\ \A u \in Threads : u # t => frame'[u] = frame[u]
  BY DEF TypeOK, Done, IdleFrame, Pc

LEMMA EnterFields ==
  ASSUME TypeOK, NEW t \in Threads, NEW pc, NEW ch, NEW id, NEW sock,
         Enter(t, pc, ch, id, sock)
  PROVE  /\ Pc(t)' = pc
         /\ Chan(t)' = ch
         /\ frame'[t].id = id
         /\ \A u \in Threads : u # t => frame'[u] = frame[u]
  BY DEF TypeOK, Enter, Pc, Chan

LEMMA FinishFields ==
  ASSUME TypeOK, NEW t \in Threads, Finish(t)
  PROVE  /\ \/ Pc(t)' = "idle"
            \/ Pc(t)' = "stop" /\ Chan(t)' = Chan(t)
         /\ \A u \in Threads : u # t => frame'[u] = frame[u]
  BY DoneFields DEF TypeOK, Frames, Finish, Pc, Chan

-----------------------------------------------------------------------------
(* The registered client has an open connection *)

(* Steps of the signaling thread leave the main thread's frame alone.        *)
LEMMA SignalingFrame ==
  ASSUME TypeOK,
         PeerConnectionEvent \/ TeardownStep("signaling")
           \/ \E d \in drops : Drop(d)
  PROVE  frame'["main"] = frame["main"]
  <1> USE DEF TypeOK, Threads
  <1>1. CASE PeerConnectionEvent
    BY <1>1 DEF PeerConnectionEvent, SdpReady, CandidateLost, Connected,
                IceFailed, Crash
  <1>2. CASE TeardownStep("signaling")
    BY <1>2 DEF TeardownStep, Disconnect, Reset, Check, DirectClose, Stop,
                StopPeer, ProxyStop, Clear, PeerDisconnected,
                DeletePeerConnection, StartMotion, Goto, Done, Finish, Crash
  <1>3. CASE \E d \in drops : Drop(d)
    BY <1>3 DEF Drop, Enter
  <1>4. QED
    BY <1>1, <1>2, <1>3

LEMMA RegisteredStep ==
  TypeOK /\ RegisteredConnected /\ [Next]_vars => RegisteredConnected'
  <1> SUFFICES ASSUME TypeOK, RegisteredConnected, [Next]_vars
               PROVE  RegisteredConnected'
    OBVIOUS
  <1>k. ASSUME UNCHANGED <<conn, client>>,
               \/ frame["main"].pc # "disconnect"
               \/ frame'["main"] = frame["main"]
        PROVE  RegisteredConnected'
    BY <1>k DEF RegisteredConnected
  <1>1. CASE SocketEvent
    <2>1. CASE UNCHANGED <<conn, client>>
      <3>1. frame["main"].pc # "disconnect" \/ frame'["main"] = frame["main"]
        BY <1>1 DEF SocketEvent, WsConnect, WsClose, WsBye, WsSend, WsRegister,
                    AcceptFails, Crash, DirectAccept, DirectReject,
                    DirectRemoteClose, DirectRead, RejectExpires, Idle
      <3>2. QED
        BY <2>1, <3>1, <1>k
    <2>2. ASSUME NEW s \in Sockets, WsConnect(s) PROVE RegisteredConnected'
      BY <2>2 DEF WsConnect, RegisteredConnected
    <2>3. ASSUME NEW s \in Sockets, WsClose(s) PROVE RegisteredConnected'
      <3>1. client' = client /\ conn' = conn \ {s}
        BY <2>3 DEF WsClose
      <3>2. client.state = "registered" => client.sock \in conn
        BY <2>3 DEF WsClose, Idle, RegisteredConnected
      <3>3. frame'["main"].pc = "disconnect" /\ frame'["main"].sock = s
        BY <2>3 DEF WsClose, Enter, TypeOK, Threads
      <3>4. QED
        BY <3>1, <3>2, <3>3 DEF RegisteredConnected
    <2>4. ASSUME NEW s \in Sockets, WsBye(s) PROVE RegisteredConnected'
      BY <2>4 DEF WsBye, NoClient, RegisteredConnected
    <2>5. ASSUME NEW s \in Sockets, NEW c \in Clients, WsRegister(s, c)
          PROVE  RegisteredConnected'
      <3>1. client.state = "registered" => client.sock \in conn
        BY <2>5 DEF WsRegister, Idle, RegisteredConnected
      <3>2. client'.sock \in conn' \/ client'.state # "registered"
        BY <2>5, <3>1 DEF WsRegister
      <3>3. QED
        BY <3>2 DEF RegisteredConnected
    <2>6. QED
      BY <1>1, <2>1, <2>2, <2>3, <2>4, <2>5
         DEF SocketEvent, WsSend, AcceptFails, Crash, DirectAccept,
             DirectReject, DirectRemoteClose, DirectRead, RejectExpires
  <1>2. CASE PeerConnectionEvent
    <2>1. UNCHANGED <<conn, client>>
      BY <1>2 DEF PeerConnectionEvent, SdpReady, CandidateLost, Connected,
                  IceFailed, Crash
    <2>2. QED
      BY <1>2, <2>1, <1>k, SignalingFrame
  <1>3. CASE MainStep
    <2>1. frame["main"].pc # "disconnect"
      BY <1>3 DEF MainStep, RegCheck, Start, Bind, PeerConnected,
                  InitPeerConnection, InitFails, Started, Attach, MsgProxy,
                  Msg, MsgInit, MsgApply, At
    <2>2. CASE RegCheck /\ active["ws"]
      <3>1. client' = client /\ conn' = conn \ {frame["main"].sock}
        BY <2>2 DEF RegCheck
      <3>2. client.state = "registered" => client.sock \in conn
        BY <2>1 DEF RegisteredConnected
      <3>3. /\ frame'["main"].pc = "disconnect"
            /\ frame'["main"].sock = frame["main"].sock
        BY <2>2 DEF RegCheck, Goto, TypeOK, Threads, Frames
      <3>4. QED
        BY <3>1, <3>2, <3>3 DEF RegisteredConnected
    <2>3. CASE ~(RegCheck /\ active["ws"])
      <3>1. UNCHANGED <<conn, client>>
        BY <1>3, <2>3 DEF MainStep, RegCheck, Start, Bind, PeerConnected,
                  InitPeerConnection, InitFails, Started, Attach, MsgProxy,
                  Msg, MsgInit, MsgApply, Crash
      <3>2. QED
        BY <2>1, <3>1, <1>k
    <2>4. QED
      BY <2>2, <2>3
  <1>4. ASSUME NEW t \in Threads, TeardownStep(t) PROVE RegisteredConnected'
    <2>1. CASE Disconnect(t) /\ client.sock = frame[t].sock
      BY <2>1 DEF Disconnect, TypeOK, ClientInfos, RegisteredConnected
    <2>2. CASE Reset(t)
      BY <2>2 DEF Reset, NoClient, RegisteredConnected
    <2>3. CASE ~Reset(t) /\ ~(Disconnect(t) /\ client.sock = frame[t].sock)
      <3>1. UNCHANGED <<conn, client>>
        BY <1>4, <2>3
           DEF TeardownStep, Disconnect, Check, DirectClose, Stop, StopPeer,
               ProxyStop, Clear, PeerDisconnected, DeletePeerConnection,
               StartMotion, Crash
      <3>2. CASE t = "signaling"
        BY <1>4, <3>1, <3>2, <1>k, SignalingFrame
      <3>3. CASE t = "main" /\ ~Disconnect(t)
        BY <1>4, <2>3, <3>1, <3>3, <1>k
           DEF TeardownStep, Check, DirectClose, Stop, StopPeer, ProxyStop,
               Clear, PeerDisconnected, DeletePeerConnection, StartMotion, At
      <3>4. CASE t = "main" /\ Disconnect(t)
        <4>1. client.state = "registered" => client.sock \in conn
          BY <2>3, <3>4 DEF RegisteredConnected
        <4>2. QED
          BY <4>1, <3>1 DEF RegisteredConnected
      <3>5. QED
        BY <3>2, <3>3, <3>4 DEF Threads
    <2>4. QED
      BY <2>1, <2>2, <2>3
  <1>5. ASSUME NEW d \in drops, Drop(d) PROVE RegisteredConnected'
    <2>1. UNCHANGED <<conn, client>>
      BY <1>5 DEF Drop
    <2>2. QED
      BY <1>5, <2>1, <1>k, SignalingFrame
  <1>6. CASE Restart
    BY <1>6 DEF Restart, Boot, RegisteredConnected
  <1>7. CASE UNCHANGED vars
    BY <1>7, <1>k DEF vars
  <1>8. QED
    BY <1>1, <1>2, <1>3, <1>4, <1>5, <1>6, <1>7 DEF Next

(* The one client slot never outlives its WebSocket: a registered client is  *)
(* connected, or its close is being handled.                                 *)
THEOREM RegisteredIsConnected == Spec => []RegisteredConnected
  <1>1. Init => RegisteredConnected
    BY DEF Init, Boot, RegisteredConnected
  <1>2. QED
    BY <1>1, RegisteredStep, TypeCorrect, PTL DEF Spec

-----------------------------------------------------------------------------
(* The streamer is not taken over *)

(* The proxy is free whenever the main thread is about to bind a channel:    *)
(* only the main thread binds, and the signaling thread only releases.       *)
BindsFreeProxy == frame["main"].pc = "bind" => outbound = NoneChannel

LEMMA OutboundSteps ==
  ASSUME Next, ~Bind
  PROVE  outbound' \in {outbound, NoneChannel}
  <1>1. CASE SocketEvent
    BY <1>1 DEF SocketEvent, WsConnect, WsClose, WsBye, WsSend, WsRegister,
                AcceptFails, Crash, DirectAccept, DirectReject,
                DirectRemoteClose, DirectRead, RejectExpires, sessionVars
  <1>2. CASE PeerConnectionEvent
    BY <1>2 DEF PeerConnectionEvent, SdpReady, CandidateLost, Connected,
                IceFailed, Crash, sessionVars
  <1>3. CASE MainStep
    BY <1>3 DEF MainStep, RegCheck, Start, PeerConnected, InitPeerConnection,
                InitFails, Started, Attach, MsgProxy, Msg, MsgInit, MsgApply,
                Crash, sessionVars
  <1>4. ASSUME NEW t \in Threads, TeardownStep(t)
        PROVE  outbound' \in {outbound, NoneChannel}
    BY <1>4 DEF TeardownStep, Disconnect, Reset, Check, DirectClose, Stop,
                StopPeer, ProxyStop, Clear, PeerDisconnected,
                DeletePeerConnection, StartMotion, Crash, sessionVars
  <1>5. ASSUME NEW d \in drops, Drop(d)
        PROVE  outbound' \in {outbound, NoneChannel}
    BY <1>5 DEF Drop, sessionVars
  <1>6. CASE Restart
    BY <1>6 DEF Restart, Boot
  <1>7. QED
    BY <1>1, <1>2, <1>3, <1>4, <1>5, <1>6 DEF Next

LEMMA BindStep ==
  TypeOK /\ BindsFreeProxy /\ [Next]_vars => BindsFreeProxy'
  <1> SUFFICES ASSUME TypeOK, BindsFreeProxy, [Next]_vars,
                      frame'["main"].pc = "bind"
               PROVE  outbound' = NoneChannel
    BY DEF BindsFreeProxy
  <1> USE DEF TypeOK, Threads, Frames
  <1>k. ASSUME outbound' \in {outbound, NoneChannel},
               frame'["main"] = frame["main"]
        PROVE  outbound' = NoneChannel
    BY <1>k DEF BindsFreeProxy
  <1>1. CASE SocketEvent
    <2>1. frame'["main"] = frame["main"]
      BY <1>1 DEF SocketEvent, WsConnect, WsClose, WsBye, WsSend, WsRegister,
                  AcceptFails, Crash, DirectAccept, DirectReject,
                  DirectRemoteClose, DirectRead, RejectExpires, Enter
    <2>2. QED
      BY <1>1, <2>1, <1>k
         DEF SocketEvent, WsConnect, WsClose, WsBye, WsSend, WsRegister,
             AcceptFails, Crash, DirectAccept, DirectReject, DirectRemoteClose,
             DirectRead, RejectExpires, sessionVars
  <1>2. CASE MainStep
    <2>1. CASE Start
      BY <2>1 DEF Start, Done, IdleFrame, sessionVars
    <2>2. CASE ~Start
      <3>0. ~Done("main") /\ \A pc \in PCs : Goto("main", pc) => pc = "bind"
        BY DEF Done, IdleFrame, Goto
      <3>1. Crash
        BY <1>2, <2>2, <3>0
           DEF MainStep, RegCheck, Bind, PeerConnected, InitPeerConnection,
               InitFails, Started, Attach, MsgProxy, Msg, MsgInit, MsgApply,
               PCs
      <3>2. QED
        BY <3>1, <1>k DEF Crash, sessionVars
    <2>3. QED
      BY <2>1, <2>2
  <1>3. CASE PeerConnectionEvent \/ \E d \in drops : Drop(d)
    <2>1. outbound' = outbound
      BY <1>3 DEF PeerConnectionEvent, SdpReady, CandidateLost, Connected,
                  IceFailed, Crash, Drop, sessionVars
    <2>2. QED
      BY <1>3, <2>1, <1>k, SignalingFrame
  <1>4. ASSUME NEW t \in Threads, TeardownStep(t)
        PROVE  outbound' = NoneChannel
    <2>1. outbound' \in {outbound, NoneChannel}
      BY <1>4 DEF TeardownStep, Disconnect, Reset, Check, DirectClose, Stop,
                  StopPeer, ProxyStop, Clear, PeerDisconnected,
                  DeletePeerConnection, StartMotion, Crash, sessionVars
    <2>2. CASE t = "signaling"
      BY <1>4, <2>1, <2>2, <1>k, SignalingFrame
    <2>3. CASE t = "main"
      <3>1. frame'["main"] = frame["main"]
        BY <1>4, <2>3
           DEF TeardownStep, Disconnect, Reset, Check, DirectClose, Stop,
               StopPeer, ProxyStop, Clear, PeerDisconnected,
               DeletePeerConnection, StartMotion, Goto, Done, Finish,
               IdleFrame, Crash
      <3>2. QED
        BY <2>1, <3>1, <1>k
    <2>4. QED
      BY <2>2, <2>3
  <1>5. CASE Restart
    BY <1>5 DEF Restart, Boot
  <1>6. CASE UNCHANGED vars
    BY <1>6, <1>k DEF vars, sessionVars
  <1>7. QED
    BY <1>1, <1>2, <1>3, <1>4, <1>5, <1>6 DEF Next

(* StreamerProxy never passes from one channel to another without having     *)
(* been released in between, however the two threads' handlers interleave.   *)
THEOREM NotTakenOver == Spec => NoTakeover
  <1>1. Init => BindsFreeProxy
    BY DEF Init, Boot, BindsFreeProxy
  <1>2. BindsFreeProxy /\ [Next]_vars =>
          [outbound' # outbound =>
             outbound = NoneChannel \/ outbound' = NoneChannel]_vars
    <2> SUFFICES ASSUME BindsFreeProxy, Next
                 PROVE  \/ outbound' = outbound
                        \/ outbound = NoneChannel
                        \/ outbound' = NoneChannel
      OBVIOUS
    <2>1. CASE Bind
      BY <2>1 DEF Bind, At, BindsFreeProxy
    <2>2. CASE ~Bind
      BY <2>2, OutboundSteps
    <2>3. QED
      BY <2>1, <2>2
  <1>3. QED
    BY <1>1, <1>2, BindStep, TypeCorrect, PTL DEF Spec, NoTakeover

-----------------------------------------------------------------------------
(* A delayed drop is harmless to later sessions *)

(* One delayed drop at most is queued, and none while the signaling thread  *)
(* works on one: the ICE of one PeerConnection fails once, and the next     *)
(* PeerConnection gets a thread with an empty queue.                        *)
OneDrop ==
  /\ \A d, e \in drops : d = e
  /\ Pc("signaling") # "idle" => drops = {}

(* The PeerConnection a queued drop was posted for is the last one made.    *)
DropOfLast == drops # {} => streamer.ice = "failed" \/ ~streamer.pc

(* A channel with a drop queued for it that is active owns the proxy, which *)
(* no longer has an owner when the PeerConnection is gone, unless the main  *)
(* thread is about to make one, and a new queue with it.                    *)
DropOfOwner ==
  /\ \A d \in drops : active[d.ch] => outbound = d.ch
  /\ drops # {} /\ ~streamer.pc =>
       outbound = NoneChannel \/ Pc("main") \in {"connected", "init"}

(* The main thread binds a free proxy and has bound it until it sets the    *)
(* flag, unless the signaling thread has worked on a drop meanwhile.        *)
MainBinds ==
  /\ BindsFreeProxy
  /\ Pc("main") \in {"connected", "init", "started"} =>
       /\ outbound \in {Chan("main"), NoneChannel}
       /\ drops # {} => outbound = Chan("main")

(* The main thread clears the flag before it releases the proxy, and the    *)
(* proxy before it deletes the PeerConnection.                              *)
MainReleases ==
  /\ Pc("main") \in {"stop_peer", "proxy_stop", "clear"} =>
       ~active[Chan("main")]
  /\ Pc("main") = "clear" => outbound \in {Chan("main"), NoneChannel}
  /\ Pc("main") \in {"delete", "close_pc"} => outbound = NoneChannel

DropInv == OneDrop /\ DropOfLast /\ DropOfOwner /\ MainBinds /\ MainReleases

(* The steps of the main thread's handlers that DropInv speaks of.          *)
Handing == {"bind", "connected", "init", "started", "stop_peer", "proxy_stop",
            "clear", "delete", "close_pc"}

(* A step that changes none of the state DropInv speaks of.                  *)
LEMMA SameDrops ==
  ASSUME DropInv, UNCHANGED <<active, outbound, drops>>,
         streamer'.pc = streamer.pc,
         streamer'.ice = streamer.ice \/ streamer.ice = "new",
         frame'["signaling"] = frame["signaling"],
         \/ frame'["main"] = frame["main"]
         \/ Pc("main") \notin {"connected", "init"} /\ Pc("main")' \notin Handing
  PROVE  DropInv'
  BY DEF DropInv, OneDrop, DropOfLast, DropOfOwner, MainBinds, BindsFreeProxy,
         MainReleases, Handing, Pc, Chan

(* A step after which no drop is queued, and which makes no session.         *)
LEMMA NoDrops ==
  ASSUME DropInv, drops' = {}, outbound' \in {outbound, NoneChannel},
         \A ch \in Channels : active'[ch] => active[ch],
         Chan("main") \in Channels, frame'["main"] = frame["main"]
  PROVE  DropInv'
  BY DEF DropInv, OneDrop, DropOfLast, DropOfOwner, MainBinds, BindsFreeProxy,
         MainReleases, Pc, Chan

LEMMA SocketEventDrops ==
  ASSUME TypeOK, DropInv, SocketEvent
  PROVE  DropInv'
  <1>1. UNCHANGED <<active, outbound, drops, streamer>>
    BY DEF SocketEvent, WsConnect, WsClose, WsBye, WsSend, WsRegister,
           AcceptFails, Crash, DirectAccept, DirectReject, DirectRemoteClose,
           DirectRead, RejectExpires, sessionVars
  <1>2. frame'["signaling"] = frame["signaling"]
    BY DEF SocketEvent, WsConnect, WsClose, WsBye, WsSend, WsRegister,
           AcceptFails, Crash, DirectAccept, DirectReject, DirectRemoteClose,
           DirectRead, RejectExpires, Enter, TypeOK, Threads
  <1>3. \/ frame'["main"] = frame["main"]
        \/ Pc("main") = "idle" /\ Pc("main")' \notin Handing
    <2>e. ASSUME NEW pc \in PCs \ Handing, NEW ch, NEW id, NEW sock,
                 Enter("main", pc, ch, id, sock)
          PROVE  Pc("main")' \notin Handing
      BY <2>e, EnterFields DEF Threads
    <2>pcs. {"reg_check", "check", "msg_proxy", "disconnect", "start",
             "direct_close"} \subseteq PCs \ Handing
      BY DEF PCs, Handing
    <2>1. CASE frame' = frame
      BY <2>1
    <2>2. CASE frame' # frame
      <3>1. Pc("main") = "idle"
        BY <2>2 DEF SocketEvent, WsConnect, WsClose, WsBye, WsSend, WsRegister,
                    AcceptFails, Crash, DirectAccept, DirectReject,
                    DirectRemoteClose, DirectRead, RejectExpires, Idle, Pc
      <3>2. Pc("main")' \notin Handing
        BY <2>2, <2>e, <2>pcs
           DEF SocketEvent, WsConnect, WsClose, WsBye, WsSend, WsRegister,
               AcceptFails, Crash, DirectAccept, DirectReject,
               DirectRemoteClose, DirectRead, RejectExpires
      <3>3. QED
        BY <3>1, <3>2
    <2>3. QED
      BY <2>1, <2>2
  <1>4. QED
    BY <1>1, <1>2, <1>3, SameDrops

LEMMA PeerConnectionEventDrops ==
  ASSUME TypeOK, DropInv, PeerConnectionEvent
  PROVE  DropInv'
  <1>m. frame' = frame
    BY DEF PeerConnectionEvent, SdpReady, CandidateLost, Connected, IceFailed,
           Crash
  <1>c. ASSUME Crash PROVE DropInv'
    BY <1>c, SameDrops DEF Crash, sessionVars
  <1>1. CASE SdpReady /\ ~Crash
    <2>1. streamer'.pc = streamer.pc /\ streamer'.ice = streamer.ice
      BY <1>1 DEF SdpReady, TypeOK, Streamers
    <2>2. QED
      BY <1>1, <1>m, <2>1, SameDrops DEF SdpReady, sessionVars
  <1>2. CASE CandidateLost
    BY <1>2, <1>c DEF CandidateLost
  <1>3. CASE Connected
    <2>1. drops = {}
      BY <1>3 DEF Connected, DropInv, DropOfLast
    <2>2. QED
      BY <1>3, <1>m, <2>1, NoDrops, FrameType
         DEF Connected, sessionVars, TypeOK, Threads
  <1>4. CASE IceFailed /\ ~Crash
    <2>1. drops = {} /\ Pc("signaling") = "idle" /\ streamer.pc
      BY <1>4 DEF IceFailed, Idle, Pc, DropInv, DropOfLast
    <2>2. /\ outbound # NoneChannel
          /\ streamer' = [streamer EXCEPT !.ice = "failed"]
          /\ UNCHANGED <<active, outbound>>
      BY <1>4 DEF IceFailed, sessionVars
    <2>3. streamer'.ice = "failed" /\ streamer'.pc
      BY <2>1, <2>2 DEF TypeOK, Streamers
    <2>4. \A d \in drops' : d \in {[ch |-> outbound, sock |-> None],
                                   [ch |-> outbound, sock |-> client.sock]}
      BY <1>4, <2>1, <2>2 DEF IceFailed, TypeOK, Channels
    <2>5. \A d, e \in drops' : d = e
      BY <1>4, <2>1 DEF IceFailed
    <2>6. \A d \in drops' : d.ch = outbound
      BY <2>4
    <2>7. QED
      BY <1>m, <2>1, <2>2, <2>3, <2>5, <2>6
         DEF DropInv, OneDrop, DropOfLast, DropOfOwner, MainBinds,
             BindsFreeProxy, MainReleases, Pc, Chan
  <1>5. QED
    BY <1>1, <1>2, <1>3, <1>4, <1>c DEF PeerConnectionEvent

LEMMA MainStepDrops ==
  ASSUME TypeOK, DropInv, MainStep
  PROVE  DropInv'
  <1>m. "main" \in Threads /\ "signaling" \in Threads /\ "signaling" # "main"
    BY DEF Threads
  <1>t. Chan("main") \in Channels /\ NoneChannel \notin Channels
    BY <1>m, FrameType DEF TypeOK, Channels, NoneChannel
  <1>g. ASSUME NEW pc \in PCs, Goto("main", pc)
        PROVE  /\ Pc("main")' = pc
               /\ Chan("main")' = Chan("main")
               /\ frame'["signaling"] = frame["signaling"]
    BY <1>g, <1>m, GotoFields
  <1>d. ASSUME Done("main")
        PROVE  /\ Pc("main")' = "idle"
               /\ frame'["signaling"] = frame["signaling"]
    BY <1>d, <1>m, DoneFields
  <1>pcs. /\ "start" \in PCs /\ "bind" \in PCs /\ "connected" \in PCs
          /\ "init" \in PCs /\ "started" \in PCs /\ "attach" \in PCs
          /\ "msg" \in PCs /\ "msg_init" \in PCs /\ "msg_apply" \in PCs
          /\ "disconnect" \in PCs
    BY DEF PCs
  <1>c. ASSUME Crash PROVE DropInv'
    BY <1>c, SameDrops DEF Crash, sessionVars
  <1>i. DropInv = (OneDrop /\ DropOfLast /\ DropOfOwner /\ MainBinds
                     /\ MainReleases)
    BY DEF DropInv
  <1>1. CASE RegCheck \/ Attach \/ MsgProxy
    <2>1. Pc("main") \notin {"connected", "init"}
      BY <1>1 DEF RegCheck, Attach, MsgProxy, At, Pc
    <2>2. /\ Pc("main")' \notin Handing
          /\ frame'["signaling"] = frame["signaling"]
      BY <1>1, <1>g, <1>d, <1>pcs DEF RegCheck, Attach, MsgProxy, Handing
    <2>3. UNCHANGED <<active, outbound, drops, streamer>>
      BY <1>1 DEF RegCheck, Attach, MsgProxy, sessionVars
    <2>4. QED
      BY <2>1, <2>2, <2>3, SameDrops
  <1>2. CASE Msg /\ ~Crash
    <2>1. Pc("main") = "msg"
      BY <1>2 DEF Msg, At, Pc
    <2>2. /\ Pc("main")' \in {"msg_init", "msg_apply"}
          /\ frame'["signaling"] = frame["signaling"]
      BY <1>2, <1>g, <1>pcs DEF Msg
    <2>3. UNCHANGED <<active, outbound, drops>>
      BY <1>2 DEF Msg, sessionVars
    <2>4. streamer'.pc = streamer.pc /\ streamer'.ice = streamer.ice
      BY <1>2 DEF Msg, TypeOK, Streamers
    <2>5. QED
      BY <2>1, <2>2, <2>3, <2>4, SameDrops DEF Handing
  <1>3. CASE InitFails
    BY <1>3, <1>c DEF InitFails
  <1>4. CASE Start
    <2>1. UNCHANGED <<active, outbound, drops, streamer>>
      BY <1>4 DEF Start, sessionVars
    <2>2. Pc("main") = "start"
      BY <1>4 DEF Start, At, Pc
    <2>3. CASE outbound # NoneChannel
      <3>1. Pc("main")' = "idle" /\ frame'["signaling"] = frame["signaling"]
        BY <1>4, <2>3, <1>d DEF Start
      <3>2. QED
        BY <2>1, <2>2, <3>1, SameDrops DEF Handing
    <2>4. CASE outbound = NoneChannel
      <3>1. Pc("main")' = "bind" /\ frame'["signaling"] = frame["signaling"]
        BY <1>4, <2>4, <1>g, <1>pcs DEF Start
      <3>2. QED
        BY <2>1, <2>2, <2>4, <3>1
           DEF DropInv, OneDrop, DropOfLast, DropOfOwner, MainBinds,
               BindsFreeProxy, MainReleases, Pc
    <2>5. QED
      BY <2>3, <2>4
  <1>5. CASE Bind
    <2>1. /\ UNCHANGED <<active, drops, streamer>>
          /\ outbound' = Chan("main")
      BY <1>5 DEF Bind
    <2>2. Pc("main") = "bind" /\ outbound = NoneChannel
      BY <1>5 DEF Bind, At, Pc, DropInv, MainBinds, BindsFreeProxy
    <2>3. /\ Pc("main")' = "connected"
          /\ Chan("main")' = Chan("main")
          /\ frame'["signaling"] = frame["signaling"]
      BY <1>5, <1>g, <1>pcs DEF Bind
    <2>4. \A d \in drops : ~active[d.ch]
      BY <1>t, <2>2 DEF DropInv, DropOfOwner, TypeOK, Drops
    <2>5. QED
      BY <2>1, <2>2, <2>3, <2>4
         DEF DropInv, OneDrop, DropOfLast, DropOfOwner, MainBinds,
             BindsFreeProxy, MainReleases, Pc
  <1>6. CASE PeerConnected
    <2>1. UNCHANGED <<active, outbound, drops, streamer>>
      BY <1>6 DEF PeerConnected, sessionVars
    <2>2. Pc("main") = "connected"
      BY <1>6 DEF PeerConnected, At, Pc
    <2>3. /\ Pc("main")' = IF streamer.pc THEN "started" ELSE "init"
          /\ Chan("main")' = Chan("main")
          /\ frame'["signaling"] = frame["signaling"]
      BY <1>6, <1>g, <1>pcs DEF PeerConnected
    <2>4. QED
      BY <2>1, <2>2, <2>3
         DEF DropInv, OneDrop, DropOfLast, DropOfOwner, MainBinds,
             BindsFreeProxy, MainReleases, Pc
  <1>7. CASE InitPeerConnection \/ MsgInit
    <2>1. drops' = {} /\ UNCHANGED <<active, outbound>>
      BY <1>7 DEF InitPeerConnection, MsgInit, Initialize, sessionVars
    <2>2. /\ Pc("main")' \in {"started", "msg_apply"}
          /\ Chan("main")' = Chan("main")
          /\ Pc("main")' = "started" => Pc("main") = "init"
      BY <1>7, <1>g, <1>pcs DEF InitPeerConnection, MsgInit, At, Pc
    <2>3. QED
      BY <2>1, <2>2
         DEF DropInv, OneDrop, DropOfLast, DropOfOwner, MainBinds,
             BindsFreeProxy, MainReleases, Pc
  <1>8. CASE Started
    <2>1. /\ UNCHANGED <<outbound, drops, streamer>>
          /\ active' = [active EXCEPT ![Chan("main")] = TRUE]
      BY <1>8 DEF Started
    <2>2. Pc("main") = "started"
      BY <1>8 DEF Started, At, Pc
    <2>3. /\ Pc("main")' \in {"attach", "idle"}
          /\ frame'["signaling"] = frame["signaling"]
      BY <1>8, <1>g, <1>d, <1>pcs DEF Started
    <2>4. \A d \in drops : active'[d.ch] => outbound = d.ch
      <3>1. SUFFICES ASSUME NEW d \in drops, d.ch # Chan("main"), active'[d.ch]
                     PROVE  outbound = d.ch
        BY <2>2 DEF DropInv, MainBinds
      <3>2. active[d.ch]
        BY <2>1, <3>1 DEF TypeOK, Drops
      <3>3. QED
        BY <3>2 DEF DropInv, DropOfOwner
    <2>5. QED
      BY <2>1, <2>2, <2>3, <2>4
         DEF DropInv, OneDrop, DropOfLast, DropOfOwner, MainBinds,
             BindsFreeProxy, MainReleases, Pc
  <1>9. CASE MsgApply /\ ~Crash
    <2>1. Pc("main") = "msg_apply"
      BY <1>9 DEF MsgApply, At, Pc
    <2>2. Pc("main")' = "idle" /\ frame'["signaling"] = frame["signaling"]
      BY <1>9, <1>d DEF MsgApply
    <2>3. UNCHANGED <<active, outbound, drops>>
      BY <1>9 DEF MsgApply, sessionVars
    <2>4. /\ streamer'.pc = streamer.pc
          /\ streamer'.ice = streamer.ice \/ streamer.ice = "new"
      <3>1. PICK offer \in BOOLEAN :
              streamer' = [streamer EXCEPT !.sdp = @ \/ offer,
                             !.ice = IF @ = "new" THEN "checking" ELSE @]
        BY <1>9 DEF MsgApply
      <3> DEFINE sdp == streamer.sdp \/ offer
      <3>2. streamer' = [streamer EXCEPT !.sdp = sdp,
                           !.ice = IF @ = "new" THEN "checking" ELSE @]
        BY <3>1
      <3> HIDE DEF sdp
      <3>3. QED
        BY <3>2 DEF TypeOK, Streamers
    <2>5. QED
      BY <2>1, <2>2, <2>3, <2>4, SameDrops DEF Handing
  <1>10. QED
    BY <1>1, <1>2, <1>3, <1>4, <1>5, <1>6, <1>7, <1>8, <1>9, <1>c
       DEF MainStep

LEMMA MainTeardownDrops ==
  ASSUME TypeOK, DropInv, TeardownStep("main")
  PROVE  DropInv'
  <1>m. "main" \in Threads /\ "signaling" \in Threads /\ "signaling" # "main"
    BY DEF Threads
  <1>t. Chan("main") \in Channels /\ NoneChannel \notin Channels
    BY <1>m, FrameType DEF TypeOK, Channels, NoneChannel
  <1>g. ASSUME NEW pc \in PCs, Goto("main", pc)
        PROVE  /\ Pc("main")' = pc
               /\ Chan("main")' = Chan("main")
               /\ frame'["signaling"] = frame["signaling"]
    BY <1>g, <1>m, GotoFields
  <1>d. ASSUME Done("main") \/ Finish("main")
        PROVE  /\ Pc("main")' \in {"idle", "stop"}
               /\ frame'["signaling"] = frame["signaling"]
    BY <1>d, <1>m, DoneFields, FinishFields
  <1>pcs. /\ "reset" \in PCs /\ "check" \in PCs /\ "stop" \in PCs
          /\ "stop_peer" \in PCs /\ "clear" \in PCs /\ "delete" \in PCs
          /\ "close_pc" \in PCs /\ "start_motion" \in PCs
    BY DEF PCs
  <1>1. CASE \/ Disconnect("main") \/ Reset("main") \/ Check("main")
             \/ DirectClose("main") \/ StartMotion("main")
    <2>1. Pc("main") \notin {"connected", "init"}
      BY <1>1 DEF Disconnect, Reset, Check, DirectClose, StartMotion, At, Pc
    <2>2. /\ Pc("main")' \notin Handing
          /\ frame'["signaling"] = frame["signaling"]
      BY <1>1, <1>g, <1>d, <1>pcs
         DEF Disconnect, Reset, Check, DirectClose, StartMotion, Handing
    <2>3. UNCHANGED <<active, outbound, drops, streamer>>
      BY <1>1 DEF Disconnect, Reset, Check, DirectClose, StartMotion,
                  sessionVars
    <2>4. QED
      BY <2>1, <2>2, <2>3, SameDrops
  <1>2. CASE Stop("main")
    <2>1. /\ UNCHANGED <<outbound, drops, streamer>>
          /\ active' = [active EXCEPT ![Chan("main")] = FALSE]
      BY <1>2 DEF Stop
    <2>2. Pc("main") = "stop"
      BY <1>2 DEF Stop, At, Pc
    <2>3. /\ Pc("main")' = "stop_peer"
          /\ Chan("main")' = Chan("main")
          /\ frame'["signaling"] = frame["signaling"]
      BY <1>2, <1>g, <1>pcs DEF Stop
    <2>4. \A ch \in Channels : active'[ch] => active[ch] /\ ch # Chan("main")
      BY <2>1 DEF TypeOK
    <2>5. \A d \in drops : d.ch \in Channels
      BY DEF TypeOK, Drops
    <2>6. QED
      BY <1>t, <2>1, <2>2, <2>3, <2>4, <2>5
         DEF DropInv, OneDrop, DropOfLast, DropOfOwner, MainBinds,
             BindsFreeProxy, MainReleases, Pc
  <1>2a. CASE StopPeer("main")
    <2>1. UNCHANGED <<active, outbound, drops, streamer>>
      BY <1>2a DEF StopPeer, sessionVars
    <2>2. Pc("main") = "stop_peer"
      BY <1>2a DEF StopPeer, At, Pc
    <2>3. /\ Pc("main")' = "proxy_stop"
          /\ Chan("main")' = Chan("main")
          /\ frame'["signaling"] = frame["signaling"]
      BY <1>2a, <1>m DEF StopPeer, TypeOK, Frames, Pc, Chan
    <2>4. QED
      BY <2>1, <2>2, <2>3
         DEF DropInv, OneDrop, DropOfLast, DropOfOwner, MainBinds,
             BindsFreeProxy, MainReleases, Pc
  <1>3. CASE ProxyStop("main")
    <2>1. UNCHANGED <<active, outbound, drops, streamer>>
      BY <1>3 DEF ProxyStop, sessionVars
    <2>2. Pc("main") = "proxy_stop"
      BY <1>3 DEF ProxyStop, At, Pc
    <2>3. CASE outbound = Chan("main")
      <3>1. /\ Pc("main")' = "clear"
            /\ Chan("main")' = Chan("main")
            /\ frame'["signaling"] = frame["signaling"]
        BY <1>3, <2>3, <1>g, <1>pcs DEF ProxyStop
      <3>2. QED
        BY <2>1, <2>2, <2>3, <3>1
           DEF DropInv, OneDrop, DropOfLast, DropOfOwner, MainBinds,
               BindsFreeProxy, MainReleases, Pc
    <2>4. CASE outbound # Chan("main")
      <3>1. /\ Pc("main")' \in {"idle", "stop"}
            /\ frame'["signaling"] = frame["signaling"]
        BY <1>3, <2>4, <1>d DEF ProxyStop
      <3>2. QED
        BY <2>1, <2>2, <3>1, SameDrops DEF Handing
    <2>5. QED
      BY <2>3, <2>4
  <1>4. CASE Clear("main")
    <2>1. /\ UNCHANGED <<active, drops, streamer>>
          /\ outbound' = NoneChannel
      BY <1>4 DEF Clear
    <2>2. Pc("main") = "clear"
      BY <1>4 DEF Clear, At, Pc
    <2>3. /\ Pc("main")' = "delete"
          /\ frame'["signaling"] = frame["signaling"]
      BY <1>4, <1>g, <1>pcs DEF Clear
    <2>4. \A d \in drops : ~active[d.ch]
      <3>1. SUFFICES ASSUME NEW d \in drops, active[d.ch] PROVE FALSE
        OBVIOUS
      <3>2. outbound = d.ch /\ d.ch \in Channels
        BY <3>1 DEF DropInv, DropOfOwner, TypeOK, Drops
      <3>3. d.ch # Chan("main")
        BY <2>2, <3>1 DEF DropInv, MainReleases
      <3>4. QED
        BY <1>t, <2>2, <3>2, <3>3 DEF DropInv, MainReleases
    <2>5. QED
      BY <2>1, <2>2, <2>3, <2>4
         DEF DropInv, OneDrop, DropOfLast, DropOfOwner, MainBinds,
             BindsFreeProxy, MainReleases, Pc
  <1>5. CASE PeerDisconnected("main")
    <2>1. UNCHANGED <<active, outbound, drops, streamer>>
      BY <1>5 DEF PeerDisconnected, sessionVars
    <2>2. Pc("main") = "delete"
      BY <1>5 DEF PeerDisconnected, At, Pc
    <2>3. /\ Pc("main")' \in {"close_pc", "start_motion"}
          /\ frame'["signaling"] = frame["signaling"]
      BY <1>5, <1>g, <1>pcs DEF PeerDisconnected
    <2>4. QED
      BY <2>1, <2>2, <2>3
         DEF DropInv, OneDrop, DropOfLast, DropOfOwner, MainBinds,
             BindsFreeProxy, MainReleases, Pc
  <1>6. CASE DeletePeerConnection("main") /\ ~Crash
    <2>1. /\ UNCHANGED <<active, outbound, drops>>
          /\ streamer' = NoPeerConnection
      BY <1>6 DEF DeletePeerConnection, sessionVars
    <2>2. Pc("main") = "close_pc"
      BY <1>6 DEF DeletePeerConnection, At, Pc
    <2>3. /\ Pc("main")' = "start_motion"
          /\ frame'["signaling"] = frame["signaling"]
      BY <1>6, <1>g, <1>pcs DEF DeletePeerConnection
    <2>4. ~streamer'.pc
      BY <2>1 DEF NoPeerConnection
    <2>5. QED
      BY <2>1, <2>2, <2>3, <2>4
         DEF DropInv, OneDrop, DropOfLast, DropOfOwner, MainBinds,
             BindsFreeProxy, MainReleases, Pc
  <1>7. CASE Crash
    BY <1>7, SameDrops DEF Crash, sessionVars
  <1>8. QED
    BY <1>1, <1>2, <1>2a, <1>3, <1>4, <1>5, <1>6, <1>7 DEF TeardownStep

LEMMA SignalingTeardownDrops ==
  ASSUME TypeOK, DropInv,
         TeardownStep("signaling") \/ \E d \in drops : Drop(d)
  PROVE  DropInv'
  <1>1. frame'["main"] = frame["main"]
    BY SignalingFrame
  <1>2. Chan("main") \in Channels
    BY FrameType DEF TypeOK, Threads
  <1>3. CASE TeardownStep("signaling")
    <2>1. drops = {}
      BY <1>3 DEF TeardownStep, Disconnect, Reset, Check, DirectClose, Stop,
                  StopPeer, ProxyStop, Clear, PeerDisconnected,
                  DeletePeerConnection, StartMotion, At, DropInv, OneDrop, Pc
    <2>2. drops' = drops
      BY <1>3 DEF TeardownStep, Disconnect, Reset, Check, DirectClose, Stop,
                  StopPeer, ProxyStop, Clear, PeerDisconnected,
                  DeletePeerConnection, StartMotion, Crash
    <2>3. outbound' \in {outbound, NoneChannel}
      BY <1>3 DEF TeardownStep, Disconnect, Reset, Check, DirectClose, Stop,
                  StopPeer, ProxyStop, Clear, PeerDisconnected,
                  DeletePeerConnection, StartMotion, Crash, sessionVars
    <2>4. \A ch \in Channels : active'[ch] => active[ch]
      <3>1. CASE Stop("signaling")
        BY <3>1 DEF Stop, TypeOK
      <3>2. CASE ~Stop("signaling")
        BY <1>3, <3>2
           DEF TeardownStep, Disconnect, Reset, Check, DirectClose, StopPeer,
               ProxyStop,
               Clear, PeerDisconnected, DeletePeerConnection, StartMotion,
               Crash, sessionVars
      <3>3. QED
        BY <3>1, <3>2
    <2>5. QED
      BY <1>1, <1>2, <2>1, <2>2, <2>3, <2>4, NoDrops
  <1>4. ASSUME NEW d \in drops, Drop(d) PROVE DropInv'
    <2>1. drops' = {}
      BY <1>4 DEF Drop, DropInv, OneDrop
    <2>2. UNCHANGED <<active, outbound>>
      BY <1>4 DEF Drop, sessionVars
    <2>3. QED
      BY <1>1, <1>2, <2>1, <2>2, NoDrops
  <1>5. QED
    BY <1>3, <1>4

LEMMA BootDrops ==
  ASSUME NEW cn, NEW cl, NEW ac, NEW pe, NEW st, NEW mo, NEW di,
         Boot(cn, cl, ac, pe, outbound, st, mo, di, drops, frame)
  PROVE  DropInv
  BY DEF Boot, IdleFrame, Threads, DropInv, OneDrop, DropOfLast, DropOfOwner,
         MainBinds, BindsFreeProxy, MainReleases, Pc

LEMMA DropStep == TypeOK /\ DropInv /\ [Next]_vars => DropInv'
  <1> SUFFICES ASSUME TypeOK, DropInv, [Next]_vars PROVE DropInv'
    OBVIOUS
  <1>1. CASE Restart
    BY <1>1 DEF Restart, Boot, IdleFrame, Threads, DropInv, OneDrop,
                DropOfLast, DropOfOwner, MainBinds, BindsFreeProxy,
                MainReleases, Pc
  <1>2. CASE UNCHANGED vars
    BY <1>2, SameDrops DEF vars, sessionVars
  <1>3. ASSUME NEW t \in Threads, TeardownStep(t) PROVE DropInv'
    BY <1>3, MainTeardownDrops, SignalingTeardownDrops DEF Threads
  <1>4. QED
    BY <1>1, <1>2, <1>3, SocketEventDrops, PeerConnectionEventDrops,
       MainStepDrops, SignalingTeardownDrops DEF Next

(* The delayed drop of an ICE failure, which names a socket descriptor only, *)
(* never ends a session that began after the failure.                        *)
THEOREM StaleDropIsHarmless == Spec => []StaleDropHarmless
  <1>1. Init => DropInv
    BY BootDrops DEF Init
  <1>2. TypeOK /\ DropInv => StaleDropHarmless
    <2> SUFFICES ASSUME TypeOK, DropInv, Settled, NEW d \in drops, Targets(d)
                 PROVE  streamer.ice = "failed"
      BY DEF StaleDropHarmless
    <2>1. d.ch \in Channels /\ active[d.ch]
      BY DEF TypeOK, Drops, Channels, Targets
    <2>2. outbound # NoneChannel
      BY <2>1 DEF DropInv, DropOfOwner, Channels, NoneChannel
    <2>3. Pc("main") = "idle"
      BY DEF Settled, Threads, Idle, Pc
    <2>4. QED
      BY <2>2, <2>3 DEF DropInv, DropOfLast, DropOfOwner
  <1>3. QED
    BY <1>1, <1>2, DropStep, TypeCorrect, PTL DEF Spec

-----------------------------------------------------------------------------
(* Up to the first overlap of handlers.  The invariant says how far the     *)
(* records may be apart at each point of a handler; Phase(t) is about the   *)
(* handler of thread t while the other thread is in none.                   *)

(* Where a handler has changed the owner and not yet the flag, or the flag  *)
(* and not yet the owner.                                                   *)
FlagLags ==
  {"connected", "init", "started", "stop_peer", "proxy_stop", "clear"}

(* Where the channel is on its way to a session.                            *)
Starting == {"start", "bind", "connected", "init", "started"}

(* Where a message is on its way to the PeerConnection.                     *)
Receiving == {"msg_proxy", "msg", "msg_apply"}

(* Where the proxy has been released and motion detection not yet resumed.  *)
Releasing == {"delete", "close_pc", "start_motion"}

(* Which channels the handlers belong to; none makes a PeerConnection for a *)
(* message.                                                                 *)
HandlerChannel(t) ==
  /\ Pc(t) \in {"reg_check", "disconnect", "reset", "check"} => Chan(t) = "ws"
  /\ Pc(t) \in {"attach", "direct_close"} => Chan(t) = "direct"
  /\ Pc(t) # "msg_init"

(* A channel is active iff it owns the proxy, but for the handler's own     *)
(* channel where the flag lags: that one is not active.                     *)
FlagsAgree(t) ==
  /\ \A ch \in Channels : active[ch] => outbound = ch
  /\ Pc(t) \in FlagLags => ~active[Chan(t)]
  /\ \A ch \in Channels :
       outbound = ch => active[ch] \/ (Pc(t) \in FlagLags /\ ch = Chan(t))
  /\ Pc(t) \in Starting => ~active[Chan(t)]
  /\ Pc(t) \in Receiving => active[Chan(t)]

(* Who owns the proxy while a handler changes that.                         *)
OwnerAgrees(t) ==
  /\ Pc(t) \in {"connected", "init", "started", "clear"} => outbound = Chan(t)
  /\ Pc(t) \in {"bind"} \cup Releasing => outbound = NoneChannel

(* The PeerConnection exists iff there is an owner, but for the steps that  *)
(* make it and delete it.                                                   *)
PeerConnectionAgrees(t) ==
  /\ Pc(t) \in {"connected", "init"} => ~streamer.pc
  /\ Pc(t) \in {"delete", "close_pc"} =>
       streamer.pc /\ streamer.peer = frame[t].id
  /\ Pc(t) \notin {"connected", "init", "delete", "close_pc"} =>
       (streamer.pc <=> outbound # NoneChannel)
  /\ ~streamer.pc => streamer.peer = None

(* The PeerConnection is the owner's, and handlers carry its channel's id.  *)
PeerAgrees(t) ==
  /\ \A ch \in Channels :
       outbound = ch /\ streamer.pc => streamer.peer = peer[ch]
  /\ Pc(t) \in Starting \cup Receiving \cup {"proxy_stop", "clear"} =>
       frame[t].id = peer[Chan(t)]

(* Motion detection is stopped from bind on, and resumed at start_motion.   *)
MotionAgrees(t) ==
  /\ outbound # NoneChannel \/ Pc(t) = "bind" => motion # "running"
  /\ outbound = NoneChannel /\ motion = "null" =>
       Pc(t) \in {"bind"} \cup Releasing

(* The client slot is freed at reset, or before check; the session is       *)
(* stopped thereafter.                                                      *)
ClientAgrees(t) ==
  /\ active["ws"] =>
       \/ client.state = "registered" /\ client.id = peer["ws"]
       \/ Pc(t) \in {"reset", "check", "stop"} /\ Chan(t) = "ws"
  /\ Pc(t) \in Starting \cup {"reg_check"} /\ Chan(t) = "ws" =>
       client.state = "registered" /\ client.id = frame[t].id

(* The TCP socket is attached last and closed first.                        *)
SocketAgrees(t) ==
  active["direct"] =>
    direct.sock = "open" \/ (Pc(t) \in {"attach", "stop"} /\ Chan(t) = "direct")

Phase(t) ==
  /\ HandlerChannel(t)
  /\ FlagsAgree(t)
  /\ OwnerAgrees(t)
  /\ PeerConnectionAgrees(t)
  /\ PeerAgrees(t)
  /\ MotionAgrees(t)
  /\ ClientAgrees(t)
  /\ SocketAgrees(t)

(* The thread that may be inside a handler while u is not.                  *)
Alone(t) == \A u \in Threads : u # t => frame[u].pc = "idle"

(* The invariant: until the first overlap one thread at most is inside a    *)
(* handler, and the state is as its phase says.                             *)
QuietInv ==
  ~overlapped => \E t \in Threads : Alone(t) /\ Phase(t)

-----------------------------------------------------------------------------
(* Steps of the teardown *)

LEMMA TeardownPhase ==
  ASSUME TypeOK, NEW t \in Threads, Phase(t), TeardownStep(t)
  PROVE  Phase(t)'
  <1> USE DEF Phase, HandlerChannel, FlagsAgree, OwnerAgrees,
              PeerConnectionAgrees, PeerAgrees, MotionAgrees, ClientAgrees,
              SocketAgrees, FlagLags, Starting, Receiving, Releasing
  <1>t. Chan(t) \in Channels
    BY FrameType DEF TypeOK
  <1>pcs. /\ "reset" \in PCs /\ "check" \in PCs /\ "stop" \in PCs
          /\ "stop_peer" \in PCs /\ "proxy_stop" \in PCs
          /\ "clear" \in PCs /\ "delete" \in PCs
          /\ "close_pc" \in PCs /\ "start_motion" \in PCs
    BY DEF PCs
  <1>1. CASE Disconnect(t)
    <2>1. Pc(t) = "disconnect"
      BY <1>1 DEF Disconnect, At, Pc
    <2>2. CASE client.sock = frame[t].sock
      <3>1. Pc(t)' = "reset" /\ Chan(t)' = "ws"
        BY <1>1, <2>1, <2>2, <1>pcs, GotoFields DEF Disconnect
      <3>2. QED
        BY <1>1, <2>1, <3>1 DEF Disconnect, sessionVars, Channels
    <2>3. CASE client.sock # frame[t].sock
      <3>1. Pc(t)' = "idle"
        BY <1>1, <2>3, DoneFields DEF Disconnect
      <3>2. QED
        BY <1>1, <2>1, <2>3, <3>1 DEF Disconnect, sessionVars
    <2>4. QED
      BY <2>2, <2>3
  <1>2. CASE Reset(t)
    <2>1. Pc(t) = "reset" /\ Pc(t)' = "check" /\ Chan(t)' = "ws"
      BY <1>2, <1>pcs, GotoFields DEF Reset, At, Pc
    <2>2. QED
      BY <1>2, <2>1 DEF Reset, sessionVars, Channels
  <1>3. CASE Check(t)
    <2>1. Pc(t) = "check" /\ Chan(t) = "ws"
      BY <1>3 DEF Check, At, Pc
    <2>2. CASE active["ws"]
      <3>1. Pc(t)' = "stop" /\ Chan(t)' = "ws"
        BY <1>3, <2>1, <2>2, <1>pcs, GotoFields DEF Check
      <3>2. QED
        BY <1>3, <2>1, <3>1 DEF Check, sessionVars, Channels
    <2>3. CASE ~active["ws"]
      <3>1. Pc(t)' = "idle"
        BY <1>3, <2>3, DoneFields DEF Check
      <3>2. QED
        BY <1>3, <2>1, <2>3, <3>1 DEF Check, sessionVars, Channels
    <2>4. QED
      BY <2>2, <2>3
  <1>4. CASE DirectClose(t)
    <2>1. Pc(t) = "direct_close" /\ Pc(t)' = "stop" /\ Chan(t)' = "direct"
      BY <1>4, <1>pcs, GotoFields DEF DirectClose, At, Pc
    <2>2. QED
      BY <1>4, <2>1 DEF DirectClose, sessionVars, Channels
  <1>5. CASE Stop(t)
    <2>1. Pc(t) = "stop"
      BY <1>5 DEF Stop, At, Pc
    <2>2. /\ Pc(t)' = "stop_peer"
          /\ Chan(t)' = Chan(t)
      BY <1>5, <1>pcs, GotoFields DEF Stop
    <2>3. /\ ~active'[Chan(t)]
          /\ \A ch \in Channels : ch # Chan(t) => active'[ch] = active[ch]
      BY <1>5, <1>t DEF Stop, TypeOK
    <2>4. QED
      BY <1>5, <1>t, <2>1, <2>2, <2>3 DEF Stop, Channels
  <1>5a. CASE StopPeer(t)
    <2>1. Pc(t) = "stop_peer"
      BY <1>5a DEF StopPeer, At, Pc
    <2>2. /\ Pc(t)' = "proxy_stop"
          /\ Chan(t)' = Chan(t)
          /\ frame'[t].id = peer[Chan(t)]
      BY <1>5a DEF StopPeer, TypeOK, Frames, Pc, Chan
    <2>3. QED
      BY <1>5a, <2>1, <2>2 DEF StopPeer, sessionVars
  <1>6. CASE ProxyStop(t)
    <2>1. Pc(t) = "proxy_stop"
      BY <1>6 DEF ProxyStop, At, Pc
    <2>2. CASE outbound = Chan(t)
      <3>1. /\ Pc(t)' = "clear"
            /\ Chan(t)' = Chan(t)
            /\ frame'[t].id = frame[t].id
        BY <1>6, <2>2, <1>pcs, GotoFields DEF ProxyStop
      <3>2. QED
        BY <1>6, <2>1, <2>2, <3>1 DEF ProxyStop, sessionVars
    <2>3. CASE outbound # Chan(t)
      <3>1. \/ Pc(t)' = "idle"
            \/ Pc(t)' = "stop" /\ Chan(t)' = Chan(t)
        BY <1>6, <2>3, FinishFields DEF ProxyStop
      <3>2. QED
        BY <1>6, <2>1, <2>3, <3>1 DEF ProxyStop, sessionVars
    <2>4. QED
      BY <2>2, <2>3
  <1>7. CASE Clear(t)
    <2>1. Pc(t) = "clear"
      BY <1>7 DEF Clear, At, Pc
    <2>2. /\ Pc(t)' = "delete"
          /\ Chan(t)' = Chan(t)
          /\ frame'[t].id = frame[t].id
      BY <1>7, <1>pcs, GotoFields DEF Clear
    <2>3. NoneChannel \notin Channels
      BY DEF NoneChannel, Channels
    <2>4. \A ch \in Channels : ~active[ch]
      BY <2>1
    <2>5. streamer.pc /\ streamer.peer = frame[t].id
      BY <1>t, <2>1, <2>3
    <2>6. QED
      BY <1>7, <2>1, <2>2, <2>3, <2>4, <2>5 DEF Clear, Channels
  <1>8. CASE PeerDisconnected(t)
    <2>1. Pc(t) = "delete"
      BY <1>8 DEF PeerDisconnected, At, Pc
    <2>2. /\ Pc(t)' = "close_pc"
          /\ Chan(t)' = Chan(t)
          /\ frame'[t].id = frame[t].id
      BY <1>8, <2>1, <1>pcs, GotoFields DEF PeerDisconnected
    <2>3. QED
      BY <1>8, <2>1, <2>2 DEF PeerDisconnected, sessionVars
  <1>9. CASE DeletePeerConnection(t)
    <2>1. Pc(t) = "close_pc"
      BY <1>9 DEF DeletePeerConnection, At, Pc
    <2>2. /\ Pc(t)' = "start_motion"
          /\ Chan(t)' = Chan(t)
          /\ streamer' = NoPeerConnection
      BY <1>9, <2>1, <1>pcs, GotoFields DEF DeletePeerConnection
    <2>3. ~streamer'.pc /\ streamer'.peer = None
      BY <2>2 DEF NoPeerConnection
    <2>4. UNCHANGED <<active, peer, outbound, client, motion, direct>>
      BY <1>9, <2>1 DEF DeletePeerConnection, sessionVars
    <2>5. QED
      BY <2>1, <2>2, <2>3, <2>4
  <1>10. CASE StartMotion(t)
    <2>1. Pc(t) = "start_motion"
      BY <1>10 DEF StartMotion, At, Pc
    <2>2. \/ Pc(t)' = "idle"
          \/ Pc(t)' = "stop" /\ Chan(t)' = Chan(t)
      BY <1>10, FinishFields DEF StartMotion
    <2>3. motion' # "null"
      BY <1>10 DEF StartMotion, MotionStarted
    <2>4. UNCHANGED <<active, peer, outbound, client, streamer, direct>>
      BY <1>10 DEF StartMotion, sessionVars
    <2>5. QED
      BY <2>1, <2>2, <2>3, <2>4
  <1>11. QED
    BY <1>1, <1>2, <1>3, <1>4, <1>5, <1>5a, <1>6, <1>7, <1>8, <1>9, <1>10
       DEF TeardownStep

-----------------------------------------------------------------------------
(* Steps that begin a handler, or leave the phase alone *)

LEMMA IdlePhase ==
  ASSUME NEW t \in Threads, NEW u \in Threads, Phase(t),
         Pc(t) = "idle", Pc(u) = "idle"
  PROVE  Phase(u)
  BY DEF Phase, HandlerChannel, FlagsAgree, OwnerAgrees, PeerConnectionAgrees,
         PeerAgrees, MotionAgrees, ClientAgrees, SocketAgrees, FlagLags,
         Starting, Receiving, Releasing

LEMMA SamePhase ==
  ASSUME NEW t \in Threads, Phase(t),
         UNCHANGED <<active, peer, outbound, motion, client>>,
         streamer'.pc = streamer.pc, streamer'.peer = streamer.peer,
         direct'.sock = direct.sock, frame'[t] = frame[t]
  PROVE  Phase(t)'
  BY DEF Phase, HandlerChannel, FlagsAgree, OwnerAgrees, PeerConnectionAgrees,
         PeerAgrees, MotionAgrees, ClientAgrees, SocketAgrees, FlagLags,
         Starting, Receiving, Releasing, Pc, Chan

LEMMA SocketEventPhase ==
  ASSUME TypeOK, Phase("main"), Pc("main") = "idle", SocketEvent,
         frame' # frame
  PROVE  Phase("main")'
  <1> USE DEF Phase, HandlerChannel, FlagsAgree, OwnerAgrees,
              PeerConnectionAgrees, PeerAgrees, MotionAgrees, ClientAgrees,
              SocketAgrees, FlagLags, Starting, Receiving, Releasing
  <1>m. "main" \in Threads
    BY DEF Threads
  <1>c. \A ch \in Channels : ch \in {"ws", "direct"}
    BY DEF Channels
  <1>e. ASSUME NEW pc, NEW ch, NEW id, NEW sock,
               Enter("main", pc, ch, id, sock)
        PROVE  /\ Pc("main")' = pc
               /\ Chan("main")' = ch
               /\ frame'["main"].id = id
    BY <1>e, <1>m, EnterFields
  <1>1. ASSUME NEW s \in Sockets, WsClose(s) PROVE Phase("main")'
    <2>1. Pc("main")' = "disconnect" /\ Chan("main")' = "ws"
      BY <1>1, <1>e DEF WsClose
    <2>2. QED
      BY <1>1, <2>1 DEF WsClose, sessionVars
  <1>2. ASSUME NEW s \in Sockets, WsBye(s) PROVE Phase("main")'
    <2>1. Pc("main")' = "check" /\ Chan("main")' = "ws"
      BY <1>2, <1>e DEF WsBye
    <2>2. QED
      BY <1>2, <2>1 DEF WsBye, sessionVars
  <1>3. ASSUME NEW s \in Sockets, WsSend(s) PROVE Phase("main")'
    <2>1. /\ Pc("main")' = "msg_proxy"
          /\ Chan("main")' = "ws"
          /\ frame'["main"].id = peer["ws"]
      BY <1>3, <1>e DEF WsSend
    <2>2. QED
      BY <1>3, <2>1 DEF WsSend, sessionVars
  <1>4. ASSUME NEW s \in Sockets, NEW c \in Clients, WsRegister(s, c)
        PROVE  Phase("main")'
    <2>1. /\ Pc("main")' = "reg_check"
          /\ Chan("main")' = "ws"
          /\ frame'["main"].id = c
      BY <1>4, <1>e DEF WsRegister
    <2>2. client'.state = "registered" /\ client'.id = c
      BY <1>4 DEF WsRegister
    <2>3. active["ws"] => client' = client
      BY <1>4 DEF WsRegister
    <2>4. QED
      BY <1>4, <2>1, <2>2, <2>3 DEF WsRegister, sessionVars
  <1>5. ASSUME DirectAccept PROVE Phase("main")'
    <2>1. /\ Pc("main")' = "start"
          /\ Chan("main")' = "direct"
          /\ frame'["main"].id = DirectPeer
      BY <1>5, <1>e DEF DirectAccept
    <2>2. /\ peer'["direct"] = DirectPeer
          /\ peer'["ws"] = peer["ws"]
      BY <1>5 DEF DirectAccept, TypeOK, Channels
    <2>3. direct'.sock = direct.sock
      BY <1>5 DEF DirectAccept, TypeOK, Directs
    <2>4. outbound # "direct"
      BY <1>5 DEF DirectAccept, Channels
    <2>5. UNCHANGED <<client, active, outbound, streamer, motion>>
      BY <1>5 DEF DirectAccept
    <2>6. QED
      BY <1>5, <1>c, <2>1, <2>2, <2>3, <2>4, <2>5 DEF DirectAccept
  <1>6. ASSUME DirectReject PROVE Phase("main")'
    <2>1. Enter("main", "direct_close", "direct", None, None)
      BY <1>6 DEF DirectReject
    <2>2. Pc("main")' = "direct_close" /\ Chan("main")' = "direct"
      BY <2>1, <1>e
    <2>3. direct'.sock = direct.sock
      BY <1>6 DEF DirectReject, TypeOK, Directs
    <2>4. QED
      BY <1>6, <2>2, <2>3 DEF DirectReject, sessionVars
  <1>7. ASSUME DirectRemoteClose PROVE Phase("main")'
    <2>1. Pc("main")' = "direct_close" /\ Chan("main")' = "direct"
      BY <1>7, <1>e DEF DirectRemoteClose
    <2>2. QED
      BY <1>7, <2>1 DEF DirectRemoteClose, sessionVars
  <1>8. ASSUME DirectRead PROVE Phase("main")'
    <2>1. /\ Pc("main")' = "msg_proxy"
          /\ Chan("main")' = "direct"
          /\ frame'["main"].id = peer["direct"]
      BY <1>8, <1>e DEF DirectRead
    <2>2. QED
      BY <1>8, <2>1 DEF DirectRead, sessionVars
  <1>9. QED
    BY <1>1, <1>2, <1>3, <1>4, <1>5, <1>6, <1>7, <1>8
       DEF SocketEvent, WsConnect, RejectExpires, AcceptFails, Crash

LEMMA DropPhase ==
  ASSUME TypeOK, Phase("signaling"), Pc("signaling") = "idle",
         NEW d \in drops, Drop(d), frame' # frame
  PROVE  Phase("signaling")'
  <1> USE DEF Phase, HandlerChannel, FlagsAgree, OwnerAgrees,
              PeerConnectionAgrees, PeerAgrees, MotionAgrees, ClientAgrees,
              SocketAgrees, FlagLags, Starting, Receiving, Releasing
  <1>1. \/ Pc("signaling")' = "disconnect" /\ Chan("signaling")' = "ws"
        \/ Pc("signaling")' = "direct_close" /\ Chan("signaling")' = "direct"
    BY DEF Drop, Enter, TypeOK, Threads, Pc, Chan
  <1>2. UNCHANGED <<active, peer, outbound, motion, client, streamer, direct>>
    BY DEF Drop, sessionVars
  <1>3. QED
    BY <1>1, <1>2

-----------------------------------------------------------------------------
(* Steps of the main thread's handlers *)

LEMMA MainPhase ==
  ASSUME TypeOK, Phase("main"), MainStep, ~Crash
  PROVE  Phase("main")'
  <1> USE DEF Phase, HandlerChannel, FlagsAgree, OwnerAgrees,
              PeerConnectionAgrees, PeerAgrees, MotionAgrees, ClientAgrees,
              SocketAgrees, FlagLags, Starting, Receiving, Releasing
  <1>m. "main" \in Threads
    BY DEF Threads
  <1>t. Chan("main") \in Channels
    BY <1>m, FrameType DEF TypeOK
  <1>n. NoneChannel \notin Channels
    BY DEF NoneChannel, Channels
  <1>g. ASSUME NEW pc \in PCs, Goto("main", pc)
        PROVE  /\ Pc("main")' = pc
               /\ Chan("main")' = Chan("main")
               /\ frame'["main"].id = frame["main"].id
    BY <1>g, <1>m, GotoFields
  <1>d. Done("main") => Pc("main")' = "idle"
    BY <1>m, DoneFields
  <1>pcs. /\ "start" \in PCs /\ "bind" \in PCs /\ "connected" \in PCs
          /\ "init" \in PCs /\ "started" \in PCs /\ "attach" \in PCs
          /\ "msg" \in PCs /\ "msg_apply" \in PCs /\ "disconnect" \in PCs
    BY DEF PCs
  <1>1. CASE RegCheck
    <2>1. Pc("main") = "reg_check" /\ Chan("main") = "ws"
      BY <1>1 DEF RegCheck, At, Pc
    <2>2. CASE active["ws"]
      <3>1. Pc("main")' = "disconnect" /\ Chan("main")' = "ws"
        BY <1>1, <2>1, <2>2, <1>g, <1>pcs DEF RegCheck
      <3>2. UNCHANGED <<active, peer, outbound, motion, client, streamer,
                        direct>>
        BY <1>1, <2>2 DEF RegCheck
      <3>3. QED
        BY <2>1, <3>1, <3>2
    <2>3. CASE ~active["ws"]
      <3>1. /\ Pc("main")' = "start"
            /\ Chan("main")' = "ws"
            /\ frame'["main"].id = frame["main"].id
        BY <1>1, <2>1, <2>3, <1>g, <1>pcs DEF RegCheck
      <3>2. /\ peer'["ws"] = frame["main"].id
            /\ \A ch \in Channels : ch # "ws" => peer'[ch] = peer[ch]
        BY <1>1, <2>3 DEF RegCheck, TypeOK, Channels
      <3>3. UNCHANGED <<active, outbound, motion, client, streamer, direct>>
        BY <1>1, <2>3 DEF RegCheck
      <3>4. outbound # "ws"
        BY <2>1, <2>3 DEF Channels
      <3>5. QED
        BY <2>1, <2>3, <3>1, <3>2, <3>3, <3>4
    <2>4. QED
      BY <2>2, <2>3
  <1>2. CASE Start
    <2>1. Pc("main") = "start"
      BY <1>2 DEF Start, At, Pc
    <2>2. UNCHANGED <<active, peer, outbound, client, streamer, direct>>
      BY <1>2 DEF Start, sessionVars
    <2>3. CASE outbound # NoneChannel
      <3>1. Pc("main")' = "idle" /\ motion' = motion
        BY <1>2, <2>3, <1>d DEF Start
      <3>2. QED
        BY <2>1, <2>2, <2>3, <3>1
    <2>4. CASE outbound = NoneChannel
      <3>1. /\ Pc("main")' = "bind"
            /\ Chan("main")' = Chan("main")
            /\ frame'["main"].id = frame["main"].id
        BY <1>2, <2>4, <1>g, <1>pcs DEF Start
      <3>2. motion' # "running"
        BY <1>2, <2>4 DEF Start
      <3>3. QED
        BY <2>1, <2>2, <2>4, <3>1, <3>2
    <2>5. QED
      BY <2>3, <2>4
  <1>3. CASE Bind
    <2>1. Pc("main") = "bind"
      BY <1>3 DEF Bind, At, Pc
    <2>2. /\ Pc("main")' = "connected"
          /\ Chan("main")' = Chan("main")
          /\ frame'["main"].id = frame["main"].id
      BY <1>3, <1>g, <1>pcs DEF Bind
    <2>3. outbound' = Chan("main")
      BY <1>3 DEF Bind
    <2>4. \A ch \in Channels : ~active[ch]
      BY <2>1, <1>n
    <2>5. UNCHANGED <<active, peer, motion, client, streamer, direct>>
      BY <1>3 DEF Bind
    <2>6. QED
      BY <1>t, <1>n, <2>1, <2>2, <2>3, <2>4, <2>5
  <1>4. CASE PeerConnected
    <2>1. Pc("main") = "connected"
      BY <1>4 DEF PeerConnected, At, Pc
    <2>2. /\ Pc("main")' = "init"
          /\ Chan("main")' = Chan("main")
          /\ frame'["main"].id = frame["main"].id
      BY <1>4, <2>1, <1>g, <1>pcs DEF PeerConnected
    <2>3. QED
      BY <1>4, <2>1, <2>2 DEF PeerConnected, sessionVars
  <1>5. CASE InitPeerConnection
    <2>1. Pc("main") = "init"
      BY <1>5 DEF InitPeerConnection, At, Pc
    <2>2. /\ Pc("main")' = "started"
          /\ Chan("main")' = Chan("main")
          /\ frame'["main"].id = frame["main"].id
      BY <1>5, <1>g, <1>pcs DEF InitPeerConnection
    <2>3. streamer'.pc /\ streamer'.peer = frame["main"].id
      BY <1>5 DEF InitPeerConnection, Initialize
    <2>4. UNCHANGED <<active, peer, outbound, motion, client, direct>>
      BY <1>5 DEF InitPeerConnection, sessionVars
    <2>5. outbound = Chan("main") /\ frame["main"].id = peer[Chan("main")]
      BY <2>1
    <2>6. outbound # NoneChannel
      BY <2>5, <1>t, <1>n
    <2>7. QED
      BY <1>t, <2>1, <2>2, <2>3, <2>4, <2>5, <2>6
  <1>6. CASE Started
    <2>1. Pc("main") = "started"
      BY <1>6 DEF Started, At, Pc
    <2>2. /\ active'[Chan("main")]
          /\ \A ch \in Channels : ch # Chan("main") => active'[ch] = active[ch]
      BY <1>6, <1>t DEF Started, TypeOK
    <2>3. UNCHANGED <<peer, outbound, motion, client, streamer, direct>>
      BY <1>6 DEF Started
    <2>4. CASE Chan("main") = "direct"
      <3>1. Pc("main")' = "attach" /\ Chan("main")' = "direct"
        BY <1>6, <2>4, <1>g, <1>pcs DEF Started
      <3>2. QED
        BY <1>t, <1>n, <2>1, <2>2, <2>3, <2>4, <3>1 DEF Channels
    <2>5. CASE Chan("main") = "ws"
      <3>1. Pc("main")' = "idle"
        BY <1>6, <2>5, <1>d DEF Started
      <3>2. QED
        BY <1>t, <1>n, <2>1, <2>2, <2>3, <2>5, <3>1 DEF Channels
    <2>6. QED
      BY <1>t, <2>4, <2>5 DEF Channels
  <1>7. CASE Attach
    <2>1. Pc("main") = "attach" /\ Pc("main")' = "idle"
      BY <1>7, <1>d DEF Attach, At, Pc
    <2>2. direct'.sock = "open"
      BY <1>7 DEF Attach, TypeOK, Directs
    <2>3. QED
      BY <1>7, <2>1, <2>2 DEF Attach, sessionVars
  <1>8. CASE MsgProxy
    <2>1. Pc("main") = "msg_proxy"
      BY <1>8 DEF MsgProxy, At, Pc
    <2>2. /\ Pc("main")' = "msg"
          /\ Chan("main")' = Chan("main")
          /\ frame'["main"].id = frame["main"].id
      BY <1>8, <2>1, <1>t, <1>n, <1>g, <1>pcs DEF MsgProxy
    <2>3. QED
      BY <1>8, <2>1, <2>2 DEF MsgProxy, sessionVars
  <1>9. CASE Msg
    <2>1. Pc("main") = "msg"
      BY <1>9 DEF Msg, At, Pc
    <2>2. streamer.pc
      BY <2>1, <1>t, <1>n
    <2>3. /\ Pc("main")' = "msg_apply"
          /\ Chan("main")' = Chan("main")
          /\ frame'["main"].id = frame["main"].id
      BY <1>9, <2>2, <1>g, <1>pcs DEF Msg
    <2>4. QED
      BY <1>9, <2>1, <2>2, <2>3 DEF Msg, sessionVars
  <1>10. CASE MsgApply
    <2>1. Pc("main") = "msg_apply" /\ Pc("main")' = "idle"
      BY <1>10, <1>d DEF MsgApply, At, Pc
    <2>2. streamer'.pc = streamer.pc /\ streamer'.peer = streamer.peer
      BY <1>10 DEF MsgApply, TypeOK, Streamers
    <2>3. UNCHANGED <<client, active, peer, outbound, motion, direct>>
      BY <1>10 DEF MsgApply, sessionVars
    <2>4. QED
      BY <2>1, <2>2, <2>3
  <1>11. CASE MsgInit
    BY <1>11 DEF MsgInit, At, Pc
  <1>12. QED
    BY <1>1, <1>2, <1>3, <1>4, <1>5, <1>6, <1>7, <1>8, <1>9, <1>10, <1>11
       DEF MainStep, InitFails

-----------------------------------------------------------------------------
(* The invariant *)

(* A step of Signaling other than Restart, taken without an overlap.        *)
LEMMA QuietNext ==
  ASSUME TypeOK, NEW t \in Threads, Alone(t), Phase(t), Next, ~Restart,
         ~BothBusy'
  PROVE  \E u \in Threads : Alone(u)' /\ Phase(u)'
  <1> USE DEF Threads, Alone
  <1>s. ASSUME frame' = frame,
               UNCHANGED <<active, peer, outbound, motion, client>>,
               streamer'.pc = streamer.pc, streamer'.peer = streamer.peer,
               direct'.sock = direct.sock
        PROVE  Alone(t)' /\ Phase(t)'
    BY <1>s, SamePhase
  <1>c. ASSUME Crash PROVE Alone(t)' /\ Phase(t)'
    BY <1>c, <1>s DEF Crash, sessionVars
  <1>i. ASSUME \A u \in Threads : Pc(u) = "idle"
        PROVE  \A u \in Threads : Phase(u)
    BY <1>i, IdlePhase
  <1>1. CASE SocketEvent
    <2>1. CASE frame' = frame
      <3>1. UNCHANGED <<active, peer, outbound, motion, client, streamer>>
        BY <1>1, <2>1
           DEF SocketEvent, WsConnect, WsClose, WsBye, WsSend, WsRegister,
               AcceptFails, Crash, DirectAccept, DirectReject,
               DirectRemoteClose, DirectRead, RejectExpires, Enter, Idle,
               TypeOK, sessionVars
      <3>2. direct'.sock = direct.sock
        BY <1>1, <2>1
           DEF SocketEvent, WsConnect, WsClose, WsBye, WsSend, WsRegister,
               AcceptFails, Crash, DirectAccept, DirectReject,
               DirectRemoteClose, DirectRead, RejectExpires, TypeOK, Directs
      <3>3. QED
        BY <2>1, <3>1, <3>2, <1>s
    <2>2. CASE frame' # frame
      <3>1. /\ frame["main"].pc = "idle"
            /\ frame'["main"].pc # "idle"
            /\ frame'["signaling"] = frame["signaling"]
        BY <1>1, <2>2
           DEF SocketEvent, WsConnect, WsClose, WsBye, WsSend, WsRegister,
               AcceptFails, Crash, DirectAccept, DirectReject,
               DirectRemoteClose, DirectRead, RejectExpires, Enter, Idle,
               TypeOK
      <3>2. frame["signaling"].pc = "idle"
        BY <3>1 DEF BothBusy
      <3>3. Phase("main") /\ Pc("main") = "idle"
        BY <3>1, <3>2, <1>i DEF Pc
      <3>4. Phase("main")'
        BY <1>1, <2>2, <3>3, SocketEventPhase
      <3>5. QED
        BY <3>1, <3>2, <3>4
    <2>3. QED
      BY <2>1, <2>2
  <1>2. CASE PeerConnectionEvent
    <2>1. CASE Crash
      BY <2>1, <1>c
    <2>2. CASE ~Crash
      <3>1. /\ frame' = frame
            /\ UNCHANGED <<active, peer, outbound, motion, client, direct>>
        BY <1>2, <2>2 DEF PeerConnectionEvent, SdpReady, CandidateLost,
                          Connected, IceFailed, sessionVars
      <3>2. streamer'.pc = streamer.pc /\ streamer'.peer = streamer.peer
        BY <1>2, <2>2 DEF PeerConnectionEvent, SdpReady, CandidateLost,
                          Connected, IceFailed, TypeOK, Streamers
      <3>3. QED
        BY <3>1, <3>2, <1>s
    <2>3. QED
      BY <2>1, <2>2
  <1>3. CASE MainStep
    <2>1. CASE Crash
      BY <2>1, <1>c
    <2>2. CASE ~Crash
      <3>1. frame["main"].pc # "idle"
        BY <1>3 DEF MainStep, RegCheck, Start, Bind, PeerConnected,
                    InitPeerConnection, InitFails, Started, Attach, MsgProxy,
                    Msg, MsgInit, MsgApply, At
      <3>2. t = "main"
        BY <3>1
      <3>3. Phase("main")'
        BY <1>3, <2>2, <3>2, MainPhase
      <3>4. frame'["signaling"] = frame["signaling"]
        BY <1>3, <2>2
           DEF MainStep, RegCheck, Start, Bind, PeerConnected,
               InitPeerConnection, InitFails, Started, Attach, MsgProxy,
               Msg, MsgInit, MsgApply, Goto, Done, TypeOK
      <3>5. QED
        BY <3>2, <3>3, <3>4
    <2>3. QED
      BY <2>1, <2>2
  <1>4. ASSUME NEW u \in Threads, TeardownStep(u)
        PROVE  Alone(t)' /\ Phase(t)'
    <2>1. frame[u].pc # "idle"
      BY <1>4 DEF TeardownStep, Disconnect, Reset, Check, DirectClose, Stop,
                  StopPeer, ProxyStop, Clear, PeerDisconnected,
                  DeletePeerConnection, StartMotion, At
    <2>2. t = u
      BY <2>1
    <2>3. Phase(t)'
      BY <1>4, <2>2, TeardownPhase
    <2>4. \A v \in Threads : v # t => frame'[v] = frame[v]
      BY <1>4, <2>2
         DEF TeardownStep, Disconnect, Reset, Check, DirectClose, Stop,
             StopPeer, ProxyStop, Clear, PeerDisconnected,
             DeletePeerConnection, StartMotion, Goto, Done, Finish, Crash,
             TypeOK
    <2>5. QED
      BY <2>3, <2>4
  <1>5. ASSUME NEW d \in drops, Drop(d)
        PROVE  \E u \in Threads : Alone(u)' /\ Phase(u)'
    <2>1. CASE frame' = frame
      BY <1>5, <2>1, <1>s DEF Drop, sessionVars
    <2>2. CASE frame' # frame
      <3>1. /\ frame["signaling"].pc = "idle"
            /\ frame'["signaling"].pc # "idle"
            /\ frame'["main"] = frame["main"]
        BY <1>5, <2>2 DEF Drop, Enter, Idle, TypeOK
      <3>2. frame["main"].pc = "idle"
        BY <3>1 DEF BothBusy
      <3>3. Phase("signaling") /\ Pc("signaling") = "idle"
        BY <3>1, <3>2, <1>i DEF Pc
      <3>4. Phase("signaling")'
        BY <1>5, <2>2, <3>3, DropPhase
      <3>5. QED
        BY <3>1, <3>2, <3>4
    <2>3. QED
      BY <2>1, <2>2
  <1>6. QED
    BY <1>1, <1>2, <1>3, <1>4, <1>5 DEF Next

(* The process as it starts, and starts again.                              *)
LEMMA BootPhase ==
  ASSUME Boot(conn, client, active, peer, outbound, streamer, motion, direct,
              drops, frame)
  PROVE  \A t \in Threads : Alone(t) /\ Phase(t)
  <1>1. \A t \in Threads : Pc(t) = "idle"
    BY DEF Boot, IdleFrame, Pc
  <1>2. \A ch \in Channels : ~active[ch] /\ outbound # ch
    BY DEF Boot, NoneChannel, Channels
  <1>3. /\ "ws" \in Channels /\ "direct" \in Channels
        /\ ~streamer.pc /\ streamer.peer = None
        /\ outbound = NoneChannel /\ motion # "null"
    BY DEF Boot, NoPeerConnection, MotionStarted, Channels
  <1>4. QED
    BY <1>1, <1>2, <1>3
       DEF Alone, Pc, Phase, HandlerChannel, FlagsAgree, OwnerAgrees,
           PeerConnectionAgrees, PeerAgrees, MotionAgrees, ClientAgrees,
           SocketAgrees, FlagLags, Starting, Receiving, Releasing

LEMMA RestartPhase ==
  ASSUME Restart
  PROVE  \A t \in Threads : Alone(t)' /\ Phase(t)'
  <1>1. \A t \in Threads : Pc(t)' = "idle"
    BY DEF Restart, Boot, IdleFrame, Pc
  <1>2. \A ch \in Channels : ~active'[ch] /\ outbound' # ch
    BY DEF Restart, Boot, NoneChannel, Channels
  <1>3. /\ "ws" \in Channels /\ "direct" \in Channels
        /\ ~streamer'.pc /\ streamer'.peer = None
        /\ outbound' = NoneChannel /\ motion' # "null"
    BY DEF Restart, Boot, NoPeerConnection, MotionStarted, Channels
  <1>4. QED
    BY <1>1, <1>2, <1>3
       DEF Alone, Pc, Phase, HandlerChannel, FlagsAgree, OwnerAgrees,
           PeerConnectionAgrees, PeerAgrees, MotionAgrees, ClientAgrees,
           SocketAgrees, FlagLags, Starting, Receiving, Releasing

LEMMA QuietStep ==
  TypeOK /\ QuietInv /\ [HistoryNext]_historyVars => QuietInv'
  <1> SUFFICES ASSUME TypeOK, QuietInv, [HistoryNext]_historyVars,
                      ~overlapped'
               PROVE  \E u \in Threads : Alone(u)' /\ Phase(u)'
    BY DEF QuietInv
  <1>1. CASE UNCHANGED historyVars
    <2>1. PICK t \in Threads : Alone(t) /\ Phase(t)
      BY <1>1 DEF QuietInv, historyVars
    <2>2. UNCHANGED <<active, peer, outbound, motion, client, streamer, direct,
                      frame>>
      BY <1>1 DEF historyVars, vars, sessionVars
    <2>3. QED
      BY <2>1, <2>2, SamePhase DEF Alone
  <1>2. CASE HistoryNext
    <2>1. Next /\ ~overlapped /\ ~BothBusy'
      BY <1>2 DEF HistoryNext
    <2>2. PICK t \in Threads : Alone(t) /\ Phase(t)
      BY <2>1 DEF QuietInv
    <2>3. CASE Restart
      BY <2>3, RestartPhase DEF Threads
    <2>4. CASE ~Restart
      BY <2>1, <2>2, <2>4, QuietNext
    <2>5. QED
      BY <2>3, <2>4
  <1>3. QED
    BY <1>1, <1>2

-----------------------------------------------------------------------------
(* The properties of the session *)

LEMMA HistoryTypeCorrect == HistorySpec => []TypeOK
  <1>1. HistorySpec => Spec
    <2>1. HistoryInit => Init
      BY DEF HistoryInit
    <2>2. [HistoryNext]_historyVars => [Next]_vars
      BY DEF HistoryNext, historyVars
    <2>3. QED
      BY <2>1, <2>2, PTL DEF HistorySpec, Spec
  <1>2. QED
    BY <1>1, TypeCorrect, PTL

(* The inductive invariant: each point of a handler leaves the records of   *)
(* the session as far apart as Phase says and no further.                   *)
THEOREM QuietSession == HistorySpec => []QuietInv
  <1>1. HistoryInit => QuietInv
    BY BootPhase DEF HistoryInit, Init, QuietInv, Threads
  <1>2. QED
    BY <1>1, QuietStep, HistoryTypeCorrect, PTL DEF HistorySpec

(* Which thread is alone with no handler running makes no difference.       *)
LEMMA SettledPhase ==
  ASSUME QuietInv, ~overlapped, Settled
  PROVE  \E t \in Threads : Phase(t) /\ Pc(t) = "idle"
  BY DEF QuietInv, Settled, Idle, Pc

(* The two channels never both believe to have the streamer.                *)
THEOREM OneSessionHolds == HistorySpec => []OneSession
  <1>1. QuietInv => OneSession
    BY DEF QuietInv, OneSession, Phase, FlagsAgree, Channels
  <1>2. QED
    BY <1>1, QuietSession, PTL

(* Between handlers the helper's flags, the proxy's owner and the           *)
(* streamer's PeerConnection agree.                                         *)
THEOREM SessionIsConsistent == HistorySpec => []SessionConsistent
  <1>1. TypeOK /\ QuietInv => SessionConsistent
    <2> SUFFICES ASSUME TypeOK, QuietInv, ~overlapped, Settled
                 PROVE  SessionConsistent
      BY DEF SessionConsistent
    <2>1. PICK t \in Threads : Phase(t) /\ Pc(t) = "idle"
      BY SettledPhase
    <2>2. QED
      BY <2>1 DEF SessionConsistent, Phase, FlagsAgree, PeerConnectionAgrees,
                  PeerAgrees, FlagLags, TypeOK, NoneChannel, Channels
  <1>2. QED
    BY <1>1, QuietSession, HistoryTypeCorrect, PTL

(* Motion detection never has the camera while a session has it.            *)
THEOREM MotionIsExcluded == HistorySpec => []MotionExcluded
  <1>1. QuietInv => MotionExcluded
    BY DEF QuietInv, MotionExcluded, Phase, MotionAgrees
  <1>2. QED
    BY <1>1, QuietSession, PTL

(* Motion detection is back once nobody has the streamer.                   *)
THEOREM MotionDoesResume == HistorySpec => []MotionResumes
  <1>1. QuietInv => MotionResumes
    <2> SUFFICES ASSUME QuietInv, ~overlapped, Settled
                 PROVE  MotionResumes
      BY DEF MotionResumes
    <2>1. PICK t \in Threads : Phase(t) /\ Pc(t) = "idle"
      BY SettledPhase
    <2>2. QED
      BY <2>1 DEF MotionResumes, Phase, MotionAgrees, Releasing
  <1>2. QED
    BY <1>1, QuietSession, PTL

(* A WebSocket session belongs to the registered client, a direct session   *)
(* has its socket.                                                          *)
THEOREM ClientHasSession == HistorySpec => []ClientOwnsSession
  <1>1. QuietInv => ClientOwnsSession
    <2> SUFFICES ASSUME QuietInv, ~overlapped, Settled
                 PROVE  ClientOwnsSession
      BY DEF ClientOwnsSession
    <2>1. PICK t \in Threads : Phase(t) /\ Pc(t) = "idle"
      BY SettledPhase
    <2>2. QED
      BY <2>1 DEF ClientOwnsSession, Phase, ClientAgrees, SocketAgrees
  <1>2. QED
    BY <1>1, QuietSession, PTL

(* No message of a peer fails the two RTC_CHECKs about the peer id.         *)
THEOREM MessagesPassPeerChecks == HistorySpec => []PeerChecksHold
  <1>1. TypeOK /\ QuietInv => PeerChecksHold
    <2> SUFFICES ASSUME TypeOK, QuietInv, ~overlapped, At("main", "msg")
                 PROVE  PeerChecksHold
      BY DEF PeerChecksHold
    <2>1. Pc("main") = "msg" /\ Phase("main")
      BY DEF QuietInv, Alone, At, Pc, Threads
    <2>2. active[Chan("main")] /\ Chan("main") \in Channels
      BY <2>1, FrameType DEF Phase, FlagsAgree, Receiving, TypeOK, Threads
    <2>3. outbound = Chan("main") /\ outbound # NoneChannel
      BY <2>1, <2>2 DEF Phase, FlagsAgree, NoneChannel, Channels
    <2>4. streamer.pc /\ streamer.peer = frame["main"].id
      BY <2>1, <2>2, <2>3 DEF Phase, PeerConnectionAgrees, PeerAgrees,
                              Receiving
    <2>5. QED
      BY <2>4 DEF PeerChecksHold
  <1>2. QED
    BY <1>1, QuietSession, HistoryTypeCorrect, PTL
=============================================================================
