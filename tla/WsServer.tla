------------------------------- MODULE WsServer -------------------------------
(***************************************************************************)
(* The WebSocket server and its client protocol, connection by connection: *)
(* what LibWebSocketServer keeps of a connection (a runtime with the       *)
(* messages still to write), what AppWsClient keeps of all of them (the    *)
(* pieces of a JSON message, the session configurations, the registered    *)
(* client), and how each command answers.  Module Signaling has the        *)
(* session behind it in detail; here it is on or off.                      *)
(*                                                                         *)
(* The main thread runs libwebsockets and with it every callback.  The     *)
(* signaling thread sends the session's messages and, a second after an    *)
(* ICE failure, drops the connection.  It goes through the same list of    *)
(* runtimes without a lock, from one to the next until it is at the one it *)
(* looks for, and each access is a step, as is each of the drop's.  The    *)
(* order of the list is left out: a walk begins at any runtime and goes on *)
(* to any other.  What the process does after it used a runtime that was   *)
(* erased is undefined; in the model it ends, and is started again.        *)
(* Descriptors are used again: conn[s] numbers the connection open on      *)
(* descriptor s, and what the code keys by descriptor is recorded with the *)
(* connection it came from.                                                *)
(***************************************************************************)
EXTENDS Naturals, Sequences

CONSTANTS
  Sockets,           \* file descriptors of WebSocket connections
  Clients,           \* the (room id, client id) pairs browsers register with
  None,              \* no descriptor, no client
  MaxChunkedFrames,  \* kMaxChunkedFrames
  MaxConnections,    \* bound: numbers to tell connections apart by
  MaxQueue,          \* bound: messages waiting in one runtime
  MaxPieces          \* bound: pieces sent into a buffer nothing clears

ASSUME NoneAssumption == None \notin Sockets /\ None \notin Clients
ASSUME BoundsAssumption ==
  /\ MaxChunkedFrames \in Nat
  /\ MaxConnections \in Nat
  /\ MaxQueue \in Nat
  /\ MaxPieces \in Nat

VARIABLES
  conn,     \* the connection whose runtime descriptor s has; 0: none
  queue,    \* pending_message_ of each runtime, counted
  ask,      \* libwebsockets owes the descriptor a writeable callback
  burst,    \* two messages have waited there since it was last empty
  chunks,   \* chunked_frames_: pieces, and if a connection came since
  tries,    \* num_chunked_frames_
  config,   \* session_config_: the connection that set descriptor s's
  client,   \* AppClientInfo: sockid_, ids, and the connection registered
  session,  \* is it on, its peer, whose configuration it runs with, and was
            \* that connection the registered client's when it began
  main,     \* the main thread's handler: its step, descriptor and client
  sig,      \* the signaling thread's: the descriptor it looks for, where it
            \* is in the list, and did its client have the session
  dropping, \* the descriptor in a delayed message 3400
  stale     \* the process used a runtime after it was erased, and which

buffers == <<queue, ask, burst>>
pieces == <<chunks, tries>>
vars == <<conn, buffers, pieces, config, client, session, main, sig,
          dropping, stale>>

Numbers == 0 .. MaxConnections
Kinds == {"command", "bare", "head", "tail"}
NoClient == [sock |-> None, id |-> None, conn |-> 0]
NoSession == [on |-> FALSE, peer |-> None, config |-> 0, own |-> FALSE]
MainAt(pc, s) == [pc |-> pc, sock |-> s, id |-> None]
SigAt(pc, s) == [pc |-> pc, sock |-> s, at |-> None, conn |-> 0, live |-> FALSE]
Idle == MainAt("idle", None)
SigIdle == SigAt("idle", None)

TypeOK ==
  /\ conn \in [Sockets -> Numbers]
  /\ queue \in [Sockets -> 0 .. MaxQueue]
  /\ ask \in [Sockets -> BOOLEAN]
  /\ burst \in [Sockets -> BOOLEAN]
  /\ chunks \in Seq([kind : Kinds, old : BOOLEAN])
  /\ tries \in Nat
  /\ config \in [Sockets -> Numbers]
  /\ client \in [sock : Sockets \cup {None}, id : Clients \cup {None},
                 conn : Numbers]
  /\ session \in [on : BOOLEAN, peer : Clients \cup {None}, config : Numbers,
                  own : BOOLEAN]
  /\ main \in [pc : {"idle", "register", "stop", "closing", "leave", "erase",
                      "down"},
               sock : Sockets \cup {None}, id : Clients \cup {None}]
  /\ sig \in [pc : {"idle", "find", "seek", "close", "drop", "reset", "stop"},
              sock : Sockets \cup {None}, at : Sockets \cup {None},
              conn : Numbers, live : BOOLEAN]
  /\ dropping \in Sockets \cup {None}
  /\ stale \in {"no", "passed", "late", "own"}

(* The process as it starts.  The AppClientInfo constructor leaves sockid_  *)
(* uninitialised.                                                           *)
Boot(cn, qu, as, bu, ch, tr, cf, cl, se, si, dr) ==
  /\ cn = [s \in Sockets |-> 0]
  /\ qu = [s \in Sockets |-> 0]
  /\ as = [s \in Sockets |-> FALSE] /\ bu = [s \in Sockets |-> FALSE]
  /\ ch = << >> /\ tr = 0
  /\ cf = [s \in Sockets |-> 0]
  /\ cl \in [sock : Sockets \cup {None}, id : {None}, conn : {0}]
  /\ se = NoSession /\ si = SigIdle /\ dr = None

Init ==
  /\ Boot(conn, queue, ask, burst, chunks, tries, config, client, session,
          sig, dropping)
  /\ main = Idle
  /\ stale = "no"

Open(s) == conn[s] # 0
MainIdle == main = Idle
Close(s) == main' = MainAt("closing", s)

-----------------------------------------------------------------------------
(* LibWebSocketServer: runtimes and their messages *)

(* A number nothing refers to, for a new connection.                        *)
Fresh ==
  Numbers \ ({0, session.config, sig.conn, client.conn}
              \cup {conn[s] : s \in Sockets} \cup {config[s] : s \in Sockets})

Established(s) ==
  /\ MainIdle /\ ~Open(s)
  /\ Fresh # {}
  /\ conn' = [conn EXCEPT ![s] = CHOOSE n \in Fresh : TRUE]

(* Bug: pieces of an unfinished message stay for the next connection.       *)
ConnectKeepsPieces(s) ==
  /\ Established(s)
  /\ chunks' = [i \in DOMAIN chunks |-> [chunks[i] EXCEPT !.old = TRUE]]
  /\ UNCHANGED <<buffers, tries, config, client, session, main, sig, dropping,
                 stale>>

(* LWS_CALLBACK_ESTABLISHED: CreateHandlerRuntime, then OnConnect, which    *)
(* clears the one buffer there is for pieces.  A path without a handler is  *)
(* turned away before, and never gets here.                                 *)
Connect(s) ==
  /\ Established(s)
  /\ chunks' = << >>
  /\ tries' = 0
  /\ UNCHANGED <<buffers, config, client, session, main, sig, dropping, stale>>

(* QueueMessage: finds the runtime of s and appends n messages.             *)
Push(s, n) ==
  /\ queue' = [queue EXCEPT ![s] = @ + n]
  /\ burst' = [burst EXCEPT ![s] = @ \/ queue[s] + n > 1]

(* The bound keeps room for the message the signaling thread is sending.    *)
Reserved(s) == IF sig.pc = "find" /\ sig.sock = s THEN 1 ELSE 0

(* SendMessage on the main thread, n times.  lws_callback_on_writable sets  *)
(* a flag of the connection; it does not count.                             *)
Send(s, n) ==
  /\ queue[s] + n + Reserved(s) <= MaxQueue
  /\ Push(s, n)
  /\ ask' = [ask EXCEPT ![s] = TRUE]

(* pending_message_ after a message was taken out, if there was one.        *)
Pop(s) ==
  /\ queue' = [queue EXCEPT ![s] = IF @ = 0 THEN 0 ELSE @ - 1]
  /\ burst' = [burst EXCEPT ![s] = @ /\ queue[s] > 1]

(* Bug: a message that could not be written is put back, and waits there.   *)
WriteablePutsBack(s) ==
  /\ MainIdle /\ Open(s)
  /\ ask[s] \/ queue[s] > 0
  /\ ask' = [ask EXCEPT ![s] = FALSE]
  /\ Pop(s) \/ UNCHANGED <<queue, burst>>
  /\ UNCHANGED <<conn, pieces, config, client, session, main, sig, dropping,
                 stale>>

(* LWS_CALLBACK_SERVER_WRITEABLE: one message is written, and no further    *)
(* callback asked for.  libwebsockets may call without having been asked.   *)
(* A write that fails ends the connection.                                  *)
Writeable(s) ==
  /\ MainIdle /\ Open(s)
  /\ ask[s] \/ queue[s] > 0
  /\ ask' = [ask EXCEPT ![s] = FALSE]
  /\ Pop(s)
  /\ \/ UNCHANGED main
     \/ queue[s] > 0 /\ Close(s)
  /\ UNCHANGED <<conn, pieces, config, client, session, sig,
                 dropping, stale>>

(* The connection ends: by its peer, or by a ping that is not answered.     *)
Hangup(s) ==
  /\ MainIdle /\ Open(s)
  /\ Close(s)
  /\ UNCHANGED <<conn, buffers, pieces, config, client, session, sig,
                 dropping, stale>>

(* Bug: the configuration stays for whoever gets the descriptor next.       *)
OnDisconnectKeepsConfig ==
  /\ main.pc = "closing"
  /\ client' = IF client.sock = main.sock THEN NoClient ELSE client
  /\ main' = [main EXCEPT !.pc = IF client.sock = main.sock /\ session.on
                                 THEN "leave" ELSE "erase"]
  /\ UNCHANGED <<conn, buffers, pieces, config, session, sig, dropping,
                 stale>>

(* LWS_CALLBACK_CLOSED: AppWsClient::OnDisconnect.                          *)
OnDisconnect ==
  /\ main.pc = "closing"
  /\ config' = [config EXCEPT ![main.sock] = 0]
  /\ client' = IF client.sock = main.sock THEN NoClient ELSE client
  /\ main' = [main EXCEPT !.pc = IF client.sock = main.sock /\ session.on
                                 THEN "leave" ELSE "erase"]
  /\ UNCHANGED <<conn, buffers, pieces, session, sig, dropping, stale>>

(* Bug: the session is stopped without waiting for the signaling thread.    *)
StopAtOnce ==
  /\ main.pc \in {"stop", "leave"}
  /\ session' = NoSession
  /\ main' = IF main.pc = "leave" THEN [main EXCEPT !.pc = "erase"] ELSE Idle
  /\ UNCHANGED <<conn, buffers, pieces, config, client, sig, dropping,
                 stale>>

(* StopSignalingSession on the main thread: the PeerConnection is closed on *)
(* the signaling thread, so the call waits for the handler that is in.      *)
Stop ==
  /\ main.pc \in {"stop", "leave"}
  /\ session.on => sig = SigIdle
  /\ session' = NoSession
  /\ main' = IF main.pc = "leave" THEN [main EXCEPT !.pc = "erase"] ELSE Idle
  /\ UNCHANGED <<conn, buffers, pieces, config, client, sig, dropping,
                 stale>>

(* WSInternalHandlerConfig::OnDisconnect erases the runtime last; what was  *)
(* still queued goes with it.                                               *)
Erase ==
  /\ main.pc = "erase"
  /\ conn' = [conn EXCEPT ![main.sock] = 0]
  /\ queue' = [queue EXCEPT ![main.sock] = 0]
  /\ ask' = [ask EXCEPT ![main.sock] = FALSE]
  /\ burst' = [burst EXCEPT ![main.sock] = FALSE]
  /\ main' = Idle
  /\ UNCHANGED <<pieces, config, client, session, sig, dropping,
                 stale>>

-----------------------------------------------------------------------------
(* AppWsClient: the commands of descriptor s *)

Quiet == UNCHANGED <<buffers, config, client, session, main>>

(* One answer, response or event, and nothing else.                         *)
Answered(s) ==
  /\ Send(s, 1)
  /\ UNCHANGED <<config, client, session, main>>

(* cmd "register", AppClientInfo's part.  Other ids than the registered     *)
(* ones are answered kErrStreamerOccupied.  The same ids are accepted from  *)
(* any descriptor and leave sockid_ alone.                                  *)
Register(s, c) ==
  IF client.id \notin {None, c} THEN Answered(s)
  ELSE /\ queue[s] + 1 + Reserved(s) <= MaxQueue
       /\ client' = IF client.id = c THEN client
                    ELSE [sock |-> s, id |-> c, conn |-> conn[s]]
       /\ main' = [pc |-> "register", sock |-> s, id |-> c]
       /\ UNCHANGED <<buffers, config, session>>

(* cmd "send", type bye, counts from the registered descriptor only.        *)
Bye(s) ==
  /\ IF client.id # None /\ client.sock = s
     THEN /\ client' = NoClient
          /\ main' = IF session.on THEN MainAt("stop", s) ELSE Idle
     ELSE UNCHANGED <<client, main>>
  /\ UNCHANGED <<buffers, config, session>>

(* cmd "send" with a message that is not JSON.                              *)
SendInvalid(s) ==
  /\ Send(s, 1)
  /\ Close(s)
  /\ UNCHANGED <<config, client, session>>

(* cmd "send" without a message: falls through to the unknown command, so   *)
(* that two events answer it.                                               *)
SendEmpty(s) ==
  /\ Send(s, 2)
  /\ UNCHANGED <<config, client, session, main>>

(* cmd "request", type rtcconfig with data that is valid.                   *)
SetRtcConfig(s) ==
  /\ config' = [config EXCEPT ![s] = conn[s]]
  /\ Send(s, 1)
  /\ UNCHANGED <<client, session, main>>

(* The rest: a message for the session or the camera (Quiet), and every     *)
(* other request, unknown type or unknown command, with one answer each.    *)
Command(s) ==
  \/ \E c \in Clients : Register(s, c)
  \/ Bye(s)
  \/ SendInvalid(s)
  \/ SendEmpty(s)
  \/ SetRtcConfig(s)
  \/ Answered(s)
  \/ Quiet

(* What Json::Reader makes of the text in the buffer: it reads one value    *)
(* and does not look at what follows.  A value without cmd at the front is  *)
(* all it ever sees.                                                        *)
Parsed(b) ==
  CASE b[1].kind = "bare" -> "bare"
    [] Len(b) = 2 /\ b[1].kind = "head" /\ b[2].kind = "tail" -> "command"
    [] OTHER -> "incomplete"

(* AppWsClient::OnMessage.  A whole command leaves the buffer as it is.     *)
OnMessage(s) ==
  /\ MainIdle /\ Open(s)
  /\ \E kind \in Kinds :
       LET b == Append(chunks, [kind |-> kind, old |-> FALSE]) IN
       IF kind = "command" THEN Command(s) /\ UNCHANGED pieces
       ELSE CASE Parsed(b) = "command" ->
                   chunks' = << >> /\ tries' = 0 /\ Command(s)
              [] Parsed(b) = "bare" ->
                   /\ Len(chunks) < MaxPieces
                   /\ chunks' = b
                   /\ Quiet /\ UNCHANGED tries
              [] OTHER ->
                   /\ IF tries > MaxChunkedFrames
                      THEN chunks' = << >> /\ tries' = 0
                      ELSE chunks' = b /\ tries' = tries + 1
                   /\ Quiet
  /\ UNCHANGED <<conn, sig, dropping, stale>>

(* cmd "register" of accepted ids: the session takes the configuration of   *)
(* the descriptor that registered, and may fail to start; if one is on, the *)
(* connection ends.                                                         *)
StartSession ==
  /\ main.pc = "register"
  /\ \/ /\ ~session.on
        /\ main' = Idle
        /\ \/ session' = [on |-> TRUE, peer |-> main.id,
                          config |-> config[main.sock],
                          own |-> client.id # None /\ client.sock = main.sock]
           \/ UNCHANGED session
        /\ UNCHANGED buffers
     \/ /\ session.on
        /\ Send(main.sock, 1)
        /\ Close(main.sock)
        /\ UNCHANGED session
  /\ UNCHANGED <<conn, pieces, config, client, sig, dropping, stale>>

-----------------------------------------------------------------------------
(* The signaling thread *)

Walking == sig.pc \in {"find", "seek", "close"}
Erased == conn[sig.at] # sig.conn
Found == sig.at = sig.sock /\ ~Erased

(* begin() of the list of runtimes, of which there is one.                  *)
Begin(pc, s, live) ==
  \E r \in Sockets :
    /\ Open(r)
    /\ sig' = [pc |-> pc, sock |-> s, at |-> r, conn |-> conn[r], live |-> live]

(* It steps from a runtime that is not the one it looks for to another one, *)
(* or there is none for that descriptor, and QueueMessage and Close return. *)
WalkOn ==
  /\ Walking /\ ~Erased /\ sig.at # sig.sock
  /\ \/ \E r \in Sockets \ {sig.at} :
          Open(r) /\ sig' = [sig EXCEPT !.at = r, !.conn = conn[r]]
     \/ /\ ~Open(sig.sock) /\ sig.pc # "seek"
        /\ sig' = IF sig.pc = "close" THEN SigAt("drop", sig.sock) ELSE SigIdle
  /\ UNCHANGED <<conn, buffers, pieces, config, client, session, main, dropping,
                 stale>>

(* SendMessage looks for the wsi of a runtime that is not there: null.      *)
NoWsi == sig.pc = "seek" /\ sig.at # sig.sock /\ ~Open(sig.sock)

(* The runtime it is at has been erased: one it passes, one that is dropped *)
(* when its client had the session no longer, or its own client's.          *)
UseErased ==
  /\ Walking
  /\ Erased \/ NoWsi
  /\ stale' = CASE sig.at # sig.sock /\ ~NoWsi -> "passed"
                [] sig.pc = "close" /\ ~sig.live -> "late"
                [] OTHER -> "own"
  /\ main' = MainAt("down", None)
  /\ Boot(conn', queue', ask', burst', chunks', tries', config', client',
          session', sig', dropping')

(* SendMessageToPeer: GetSockId, for as long as the session's peer is the   *)
(* registered client.  The bound keeps room for the main thread's answer.   *)
Deliver ==
  /\ sig = SigIdle
  /\ session.on /\ client.id = session.peer
  /\ queue[client.sock] + (IF main.pc = "register" /\ main.sock = client.sock
                           THEN 1 ELSE 0) < MaxQueue
  /\ Begin("find", client.sock, TRUE)
  /\ UNCHANGED <<conn, buffers, pieces, config, client, session, main,
                 dropping, stale>>

(* SendMessage: QueueMessage has found the runtime ...                      *)
DeliverQueue ==
  /\ sig.pc = "find" /\ Found
  /\ Push(sig.sock, 1)
  /\ Begin("seek", sig.sock, TRUE)
  /\ UNCHANGED <<conn, ask, pieces, config, client, session, main,
                 dropping, stale>>

(* ... and GetWsiFromHandlerRuntime finds it again: its wsi goes to         *)
(* lws_callback_on_writable.                                                *)
DeliverAsk ==
  /\ sig.pc = "seek" /\ Found
  /\ ask' = [ask EXCEPT ![sig.sock] = TRUE]
  /\ sig' = SigIdle
  /\ UNCHANGED <<conn, queue, burst, pieces, config, client, session,
                 main, dropping, stale>>

(* ReportEvent after an ICE failure: the descriptor, in a second.  (Bound:  *)
(* one at a time.)                                                          *)
IceFails ==
  /\ sig = SigIdle
  /\ session.on /\ client.id = session.peer
  /\ dropping = None
  /\ dropping' = client.sock
  /\ UNCHANGED <<conn, buffers, pieces, config, client, session, main,
                 sig, stale>>

(* Message 3400: Close looks for the runtime, if there is one ...           *)
Drop ==
  /\ sig = SigIdle
  /\ dropping # None
  /\ dropping' = None
  /\ LET live == session.on /\ client.id # None /\ client.sock = dropping
     IN  \/ Begin("close", dropping, live)
         \/ /\ \A r \in Sockets : ~Open(r)
            /\ sig' = SigAt("drop", dropping)
  /\ UNCHANGED <<conn, buffers, pieces, config, client, session, main,
                 stale>>

(* ... and sets a flag and a reason there which nothing reads, so that the  *)
(* connection stays open ...                                                *)
CloseRuntime ==
  /\ sig.pc = "close" /\ Found
  /\ sig' = SigAt("drop", sig.sock)
  /\ UNCHANGED <<conn, buffers, pieces, config, client, session, main,
                 dropping, stale>>

(* ... then AppClientInfo::Disconnect, if that descriptor is the client's   *)
DropClient ==
  /\ sig.pc = "drop"
  /\ IF client.sock = sig.sock
     THEN /\ client' = [client EXCEPT !.id = None, !.conn = 0]
          /\ sig' = SigAt("reset", None)
     ELSE UNCHANGED client /\ sig' = SigIdle
  /\ UNCHANGED <<conn, buffers, pieces, config, session, main, dropping,
                 stale>>

(* Reset, which clears whoever is registered by now                         *)
DropReset ==
  /\ sig.pc = "reset"
  /\ client' = NoClient
  /\ sig' = SigAt("stop", None)
  /\ UNCHANGED <<conn, buffers, pieces, config, session, main, dropping,
                 stale>>

(* and StopSignalingSession, if there is a session.                         *)
DropStop ==
  /\ sig.pc = "stop"
  /\ session' = NoSession
  /\ sig' = SigIdle
  /\ UNCHANGED <<conn, buffers, pieces, config, client, main, dropping,
                 stale>>

-----------------------------------------------------------------------------
(* rws.service starts the program again.                                    *)
Restart ==
  /\ main.pc = "down"
  /\ main' = Idle
  /\ stale' = "no"
  /\ UNCHANGED <<conn, buffers, pieces, config, client, session, sig, dropping>>

Deliveries == Deliver \/ DeliverQueue \/ DeliverAsk \/ WalkOn \/ UseErased
Drops == IceFails \/ Drop \/ CloseRuntime \/ DropClient \/ DropReset \/ DropStop
Callbacks ==
  \/ StartSession \/ OnDisconnect \/ Stop \/ Erase
  \/ \E s \in Sockets :
       Connect(s) \/ Writeable(s) \/ Hangup(s) \/ OnMessage(s)

Next == Callbacks \/ Deliveries \/ Drops \/ Restart

Spec == Init /\ [][Next]_vars

-----------------------------------------------------------------------------
(* Properties *)

(* The signaling thread never uses its client's own runtime after that was  *)
(* erased: a client that leaves is first taken out of AppClientInfo, and    *)
(* its session stopped, which waits for the signaling thread.  That holds   *)
(* for what it sends, and for a drop that comes while its client has the    *)
(* session; not for a drop that comes late, nor for the other connections'  *)
(* runtimes, which the walk to its own one passes.                          *)
RuntimeInUse == stale # "own"

(* A message is left in a runtime with no callback to come only if two      *)
(* messages have waited there at the same time, and then only until all are *)
(* written: a client that waits for each answer, and has no session, gets   *)
(* them all, and so does one whose earlier messages were all written.       *)
AnsweredUnlessBurst ==
  \A s \in Sockets :
    queue[s] > 0 /\ ~ask[s] =>
      burst[s] \/ (sig.pc = "seek" /\ sig.sock = s)

(* A descriptor's session configuration is the one its present connection   *)
(* has set.  The client's messages go to the connection that registered it, *)
(* though another one registers the same ids later, or a descriptor is used *)
(* again.  The session runs with that connection's configuration, if it was *)
(* this connection that began it, and unless a drop is between Disconnect   *)
(* and the end of the session, when another client may register.            *)
ConfigOfConnection ==
  /\ \A s \in Sockets : config[s] \in {0, conn[s]}
  /\ client.id # None => Open(client.sock) /\ conn[client.sock] = client.conn
  /\ session.on /\ session.own /\ client.id # None
       /\ sig.pc \notin {"reset", "stop"} =>
       session.config \in {0, client.conn}

(* The buffer for pieces holds none that came before the newest connection, *)
(* and counts those it has, so that an unfinished message is forgotten      *)
(* after kMaxChunkedFrames + 2 pieces, unless a value without cmd is first. *)
PiecesSinceConnect ==
  /\ \A i \in DOMAIN chunks : ~chunks[i].old
  /\ chunks # << >> /\ chunks[1].kind # "bare" => tries = Len(chunks)
  /\ tries <= MaxChunkedFrames + 1
=============================================================================
