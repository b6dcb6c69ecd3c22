----------------------------- MODULE WsServerProofs -----------------------------
(***************************************************************************)
(* WsServer, for any numbers of descriptors and clients, and any bounds:   *)
(* what the connections' records promise, although the two threads share   *)
(* them without a lock and descriptors are used again.  The second part is *)
(* LineBuffer, for any numbers of bytes and clients: the lines cut out of  *)
(* what native clients send do not depend on the reads.                    *)
(***************************************************************************)
EXTENDS WsServer, LineBuffer, SequenceTheorems, WellFoundedInduction, TLAPS

-----------------------------------------------------------------------------
(* The inductive invariant, in parts *)

(* A thread in a handler has a descriptor.                                  *)
Handling ==
  /\ main.pc \notin {"idle", "down"} => main.sock \in Sockets
  /\ main.pc = "register" => main.id \in Clients
  /\ Walking \/ sig.pc = "drop" => sig.sock \in Sockets
  /\ Walking => sig.at \in Sockets
  /\ session.on => session.peer \in Clients

(* The registered client has an open connection, which is not going away.   *)
ClientOpen ==
  client.id # None =>
    /\ client.sock \in Sockets
    /\ Open(client.sock)
    /\ client.conn = conn[client.sock]
    /\ main.pc \in {"leave", "erase"} => main.sock # client.sock

(* The signaling thread sends, or drops a client that had the session.      *)
HadSession == Walking /\ (sig.pc = "close" => sig.live)

(* That session is still on, and its client is registered, or the session's *)
(* end waits for the signaling thread; so its runtime is there.             *)
Sending ==
  HadSession =>
    /\ session.on
    /\ Open(sig.sock)
    /\ sig.at = sig.sock => ~Erased
    /\ \/ client.id # None /\ client.sock = sig.sock
       \/ main.pc \in {"stop", "leave"}

SessionHasClient ==
  session.on /\ session.own =>
    \/ client.id # None
    \/ main.pc \in {"stop", "leave"}
    \/ sig.pc \in {"reset", "stop"}

ConfigGone == main.pc \in {"leave", "erase"} => config[main.sock] = 0

(* There is room for what is about to be queued.                            *)
Waiting ==
  /\ \A s \in Sockets : ~burst[s] => queue[s] <= 1
  /\ sig.pc = "find" => queue[sig.sock] < MaxQueue
  /\ main.pc = "register" =>
       queue[main.sock] + 1 + Reserved(main.sock) <= MaxQueue

NoPiecesNoTries == chunks = << >> => tries = 0

PieceSet == [kind : Kinds, old : BOOLEAN]

TablesType ==
  /\ conn \in [Sockets -> Numbers]
  /\ queue \in [Sockets -> 0 .. MaxQueue]
  /\ ask \in [Sockets -> BOOLEAN] /\ burst \in [Sockets -> BOOLEAN]
  /\ config \in [Sockets -> Numbers]

ClientSet == [sock : Sockets \cup {None}, id : Clients \cup {None},
              conn : Numbers]
SessionSet == [on : BOOLEAN, peer : Clients \cup {None}, config : Numbers,
               own : BOOLEAN]
MainSet == [pc : {"idle", "register", "stop", "closing", "leave", "erase",
                  "down"},
            sock : Sockets \cup {None}, id : Clients \cup {None}]
SigSet == [pc : {"idle", "find", "seek", "close", "drop", "reset", "stop"},
           sock : Sockets \cup {None}, at : Sockets \cup {None},
           conn : Numbers, live : BOOLEAN]

RecordsType ==
  /\ client \in ClientSet /\ session \in SessionSet
  /\ main \in MainSet /\ sig \in SigSet
  /\ dropping \in Sockets \cup {None}
  /\ stale \in {"no", "passed", "late", "own"}

SessionInv == Handling /\ ClientOpen /\ Sending /\ SessionHasClient
ConfigInv == ConfigOfConnection /\ ConfigGone
BufferInv == AnsweredUnlessBurst /\ Waiting

(* What does not depend on the pieces, and what does.                       *)
RestInv ==
  /\ TablesType /\ RecordsType
  /\ SessionInv /\ ConfigInv /\ BufferInv /\ RuntimeInUse

PiecesInv ==
  /\ chunks \in Seq(PieceSet) /\ tries \in Nat
  /\ PiecesSinceConnect /\ NoPiecesNoTries

LEMMA NumbersType ==
  0 \in Numbers /\ MaxQueue \in Nat /\ MaxChunkedFrames \in Nat
  BY BoundsAssumption DEF Numbers

(* The process as it starts, for the first time or again.                   *)
LEMMA BootInv ==
  /\ Boot(conn, queue, ask, burst, chunks, tries, config, client, session,
          sig, dropping)
  /\ main \in {Idle, MainAt("down", None)}
  /\ stale \in {"no", "passed", "late"}
  => RestInv /\ PiecesInv
PROOF
  <1> SUFFICES ASSUME Boot(conn, queue, ask, burst, chunks, tries, config,
                           client, session, sig, dropping),
                      main \in {Idle, MainAt("down", None)},
                      stale \in {"no", "passed", "late"}
               PROVE  RestInv /\ PiecesInv
    OBVIOUS
  <1>1. TablesType
    BY NumbersType DEF Boot, TablesType
  <1>2. RecordsType
    BY NumbersType
    DEF Boot, RecordsType, ClientSet, SessionSet, MainSet, SigSet, NoSession,
        Idle, MainAt, SigIdle, SigAt
  <1>3. SessionInv
    BY NoneAssumption
    DEF Boot, SessionInv, Handling, ClientOpen, Sending, HadSession, Walking,
        SessionHasClient, NoSession, Idle, MainAt, SigIdle, SigAt
  <1>4. ConfigInv
    BY NoneAssumption
    DEF Boot, ConfigInv, ConfigOfConnection, ConfigGone, NoSession, Idle, MainAt
  <1>5. BufferInv
    BY DEF Boot, BufferInv, AnsweredUnlessBurst, Waiting, Idle, MainAt, SigIdle, SigAt
  <1>6. PiecesInv
    BY NumbersType DEF Boot, PiecesInv, PiecesSinceConnect, NoPiecesNoTries
  <1> QED
    BY <1>1, <1>2, <1>3, <1>4, <1>5, <1>6 DEF RestInv, RuntimeInUse

LEMMA BootInvNext ==
  /\ Boot(conn', queue', ask', burst', chunks', tries', config', client',
          session', sig', dropping')
  /\ main' \in {Idle, MainAt("down", None)}
  /\ stale' \in {"no", "passed", "late"}
  => RestInv' /\ PiecesInv'
PROOF
  <1>1. (/\ Boot(conn, queue, ask, burst, chunks, tries, config, client,
                 session, sig, dropping)
         /\ main \in {Idle, MainAt("down", None)}
         /\ stale \in {"no", "passed", "late"})'
        => (RestInv /\ PiecesInv)'
    BY BootInv, PTL
  <1> QED
    BY <1>1 DEF Boot, Idle, MainAt

-----------------------------------------------------------------------------
(* The server's callbacks *)

LEMMA EstablishedInv ==
  ASSUME RestInv, NEW s \in Sockets,
         UNCHANGED <<buffers, config, client, session, main, sig, dropping,
                     stale>>,
         Established(s)
  PROVE  RestInv'
PROOF
  <1>0. PICK n \in Fresh : conn' = [conn EXCEPT ![s] = n]
    BY DEF Established
  <1>1. TablesType'
    BY <1>0, NumbersType, NoneAssumption
    DEF RestInv, TablesType, SessionInv, Handling, BufferInv, Waiting,
        Established, Fresh, MainIdle, Idle, buffers, MainAt
  <1>2. RecordsType'
    BY <1>0, NumbersType, NoneAssumption
    DEF RestInv, TablesType, RecordsType, SessionInv, Handling, ClientOpen,
        ClientSet, SessionSet, MainSet, SigSet, Established, Fresh, MainIdle,
        Idle, buffers, MainAt
  <1>3. SessionInv'
    BY <1>0, NumbersType, NoneAssumption
    DEF RestInv, TablesType, RecordsType, SessionInv, Handling, ClientOpen,
        Sending, HadSession, Walking, Erased, SessionHasClient, Open,
        Established, Fresh, MainIdle, Idle, buffers, MainAt
  <1>4. ConfigInv'
    BY <1>0, NumbersType, NoneAssumption
    DEF RestInv, TablesType, RecordsType, ConfigInv, ConfigOfConnection,
        ConfigGone, ClientOpen, SessionInv, Handling, SessionHasClient, Open,
        Established, Fresh, MainIdle, Idle, buffers, MainAt
  <1>5. BufferInv'
    BY <1>0, NumbersType, NoneAssumption
    DEF RestInv, TablesType, RecordsType, BufferInv, AnsweredUnlessBurst,
        Waiting, Reserved, SessionInv, Handling, Walking, Open, Established,
        Fresh, MainIdle, Idle, buffers, MainAt
  <1>6. RuntimeInUse'
    BY <1>0, NumbersType, NoneAssumption
    DEF RestInv, RuntimeInUse, SessionInv, Sending, Established, Fresh,
        MainIdle, Idle, buffers, MainAt
  <1> QED
    BY <1>1, <1>2, <1>3, <1>4, <1>5, <1>6 DEF RestInv

LEMMA WriteableInv ==
  ASSUME RestInv, NEW s \in Sockets, Writeable(s)
  PROVE  RestInv'
PROOF
  <1>1. TablesType'
    BY NumbersType, NoneAssumption
    DEF RestInv, TablesType, SessionInv, Handling, BufferInv, Waiting,
        Writeable, Pop, Close, MainIdle, Idle, pieces, MainAt
  <1>2. RecordsType'
    BY NumbersType, NoneAssumption
    DEF RestInv, TablesType, RecordsType, SessionInv, Handling, ClientOpen,
        ClientSet, SessionSet, MainSet, SigSet, Writeable, Pop, Close,
        MainIdle, Idle, pieces, MainAt
  <1>3. SessionInv'
    BY NumbersType, NoneAssumption
    DEF RestInv, TablesType, RecordsType, SessionInv, Handling, ClientOpen,
        Sending, HadSession, Walking, Erased, SessionHasClient, Open,
        Writeable, Pop, Close, MainIdle, Idle, pieces, MainAt
  <1>4. ConfigInv'
    BY NumbersType, NoneAssumption
    DEF RestInv, TablesType, RecordsType, ConfigInv, ConfigOfConnection,
        ConfigGone, ClientOpen, SessionInv, Handling, SessionHasClient, Open,
        Writeable, Pop, Close, MainIdle, Idle, pieces, MainAt
  <1>5. BufferInv'
    BY NumbersType, NoneAssumption
    DEF RestInv, TablesType, RecordsType, BufferInv, AnsweredUnlessBurst,
        Waiting, Reserved, SessionInv, Handling, Walking, Open, Writeable,
        Pop, Close, MainIdle, Idle, pieces, MainAt
  <1>6. RuntimeInUse'
    BY NumbersType, NoneAssumption
    DEF RestInv, RuntimeInUse, SessionInv, Sending, Writeable, Pop, Close,
        MainIdle, Idle, pieces, MainAt
  <1> QED
    BY <1>1, <1>2, <1>3, <1>4, <1>5, <1>6 DEF RestInv

LEMMA HangupInv ==
  ASSUME RestInv, NEW s \in Sockets, Hangup(s)
  PROVE  RestInv'
PROOF
  <1>1. TablesType'
    BY NumbersType, NoneAssumption
    DEF RestInv, TablesType, SessionInv, Handling, BufferInv, Waiting, Hangup,
        Close, MainIdle, Idle, buffers, MainAt
  <1>2. RecordsType'
    BY NumbersType, NoneAssumption
    DEF RestInv, TablesType, RecordsType, SessionInv, Handling, ClientOpen,
        ClientSet, SessionSet, MainSet, SigSet, Hangup, Close, MainIdle, Idle,
        buffers, MainAt
  <1>3. SessionInv'
    BY NumbersType, NoneAssumption
    DEF RestInv, TablesType, RecordsType, SessionInv, Handling, ClientOpen,
        Sending, HadSession, Walking, Erased, SessionHasClient, Open, Hangup,
        Close, MainIdle, Idle, buffers, MainAt
  <1>4. ConfigInv'
    BY NumbersType, NoneAssumption
    DEF RestInv, TablesType, RecordsType, ConfigInv, ConfigOfConnection,
        ConfigGone, ClientOpen, SessionInv, Handling, SessionHasClient, Open,
        Hangup, Close, MainIdle, Idle, buffers, MainAt
  <1>5. BufferInv'
    BY NumbersType, NoneAssumption
    DEF RestInv, TablesType, RecordsType, BufferInv, AnsweredUnlessBurst,
        Waiting, Reserved, SessionInv, Handling, Walking, Open, Hangup, Close,
        MainIdle, Idle, buffers, MainAt
  <1>6. RuntimeInUse'
    BY NumbersType, NoneAssumption
    DEF RestInv, RuntimeInUse, SessionInv, Sending, Hangup, Close, MainIdle,
        Idle, buffers, MainAt
  <1> QED
    BY <1>1, <1>2, <1>3, <1>4, <1>5, <1>6 DEF RestInv

LEMMA OnDisconnectInv ==
  ASSUME RestInv, OnDisconnect
  PROVE  RestInv'
PROOF
  <1>1. TablesType'
    BY NumbersType, NoneAssumption
    DEF RestInv, TablesType, SessionInv, Handling, BufferInv, Waiting,
        OnDisconnect, NoClient, buffers
  <1>2. RecordsType'
    BY NumbersType, NoneAssumption
    DEF RestInv, TablesType, RecordsType, SessionInv, Handling, ClientOpen,
        ClientSet, SessionSet, MainSet, SigSet, OnDisconnect, NoClient,
        buffers
  <1>3. SessionInv'
    BY NumbersType, NoneAssumption
    DEF RestInv, TablesType, RecordsType, SessionInv, Handling, ClientOpen,
        Sending, HadSession, Walking, Erased, SessionHasClient, Open,
        OnDisconnect, NoClient, buffers
  <1>4. ConfigInv'
    BY NumbersType, NoneAssumption
    DEF RestInv, TablesType, RecordsType, ConfigInv, ConfigOfConnection,
        ConfigGone, ClientOpen, SessionInv, Handling, SessionHasClient, Open,
        OnDisconnect, NoClient, buffers
  <1>5. BufferInv'
    BY NumbersType, NoneAssumption
    DEF RestInv, TablesType, RecordsType, BufferInv, AnsweredUnlessBurst,
        Waiting, Reserved, SessionInv, Handling, Walking, Open, OnDisconnect,
        NoClient, buffers
  <1>6. RuntimeInUse'
    BY NumbersType, NoneAssumption
    DEF RestInv, RuntimeInUse, SessionInv, Sending, OnDisconnect, NoClient,
        buffers
  <1> QED
    BY <1>1, <1>2, <1>3, <1>4, <1>5, <1>6 DEF RestInv

LEMMA StopInv ==
  ASSUME RestInv, Stop
  PROVE  RestInv'
PROOF
  <1>1. TablesType'
    BY NumbersType, NoneAssumption
    DEF RestInv, TablesType, SessionInv, Handling, BufferInv, Waiting, Stop,
        NoSession, Idle, SigIdle, buffers, MainAt, SigAt
  <1>2. RecordsType'
    BY NumbersType, NoneAssumption
    DEF RestInv, TablesType, RecordsType, SessionInv, Handling, ClientOpen,
        ClientSet, SessionSet, MainSet, SigSet, Stop, NoSession, Idle,
        SigIdle, buffers, MainAt, SigAt
  <1>3. SessionInv'
    BY NumbersType, NoneAssumption
    DEF RestInv, TablesType, RecordsType, SessionInv, Handling, ClientOpen,
        Sending, HadSession, Walking, Erased, SessionHasClient, Open, Stop,
        NoSession, Idle, SigIdle, buffers, MainAt, SigAt
  <1>4. ConfigInv'
    BY NumbersType, NoneAssumption
    DEF RestInv, TablesType, RecordsType, ConfigInv, ConfigOfConnection,
        ConfigGone, ClientOpen, SessionInv, Handling, SessionHasClient, Open,
        Stop, NoSession, Idle, SigIdle, buffers, MainAt, SigAt
  <1>5. BufferInv'
    BY NumbersType, NoneAssumption
    DEF RestInv, TablesType, RecordsType, BufferInv, AnsweredUnlessBurst,
        Waiting, Reserved, SessionInv, Handling, Walking, Open, Stop,
        NoSession, Idle, SigIdle, buffers, MainAt, SigAt
  <1>6. RuntimeInUse'
    BY NumbersType, NoneAssumption
    DEF RestInv, RuntimeInUse, SessionInv, Sending, Stop, NoSession, Idle,
        SigIdle, buffers, MainAt, SigAt
  <1> QED
    BY <1>1, <1>2, <1>3, <1>4, <1>5, <1>6 DEF RestInv

LEMMA EraseInv ==
  ASSUME RestInv, Erase
  PROVE  RestInv'
PROOF
  <1>1. TablesType'
    BY NumbersType, NoneAssumption
    DEF RestInv, TablesType, SessionInv, Handling, BufferInv, Waiting, Erase,
        Idle, MainAt
  <1>2. RecordsType'
    BY NumbersType, NoneAssumption
    DEF RestInv, TablesType, RecordsType, SessionInv, Handling, ClientOpen,
        ClientSet, SessionSet, MainSet, SigSet, Erase, Idle, MainAt
  <1>3. SessionInv'
    BY NumbersType, NoneAssumption
    DEF RestInv, TablesType, RecordsType, SessionInv, Handling, ClientOpen,
        Sending, HadSession, Walking, Erased, SessionHasClient, Open, Erase,
        Idle, MainAt
  <1>4. ConfigInv'
    BY NumbersType, NoneAssumption
    DEF RestInv, TablesType, RecordsType, ConfigInv, ConfigOfConnection,
        ConfigGone, ClientOpen, SessionInv, Handling, SessionHasClient, Open,
        Erase, Idle, MainAt
  <1>5. BufferInv'
    BY NumbersType, NoneAssumption
    DEF RestInv, TablesType, RecordsType, BufferInv, AnsweredUnlessBurst,
        Waiting, Reserved, SessionInv, Handling, Walking, Open, Erase, Idle,
        MainAt
  <1>6. RuntimeInUse'
    BY NumbersType, NoneAssumption
    DEF RestInv, RuntimeInUse, SessionInv, Sending, Erase, Idle, MainAt
  <1> QED
    BY <1>1, <1>2, <1>3, <1>4, <1>5, <1>6 DEF RestInv

-----------------------------------------------------------------------------
(* The signaling thread *)

LEMMA DeliverInv ==
  ASSUME RestInv, Deliver
  PROVE  RestInv'
PROOF
  <1>1. TablesType'
    BY NumbersType, NoneAssumption
    DEF RestInv, TablesType, SessionInv, Handling, BufferInv, Waiting,
        Deliver, Begin, SigIdle, buffers, SigAt
  <1>2. RecordsType'
    BY NumbersType, NoneAssumption
    DEF RestInv, TablesType, RecordsType, SessionInv, Handling, ClientOpen,
        ClientSet, SessionSet, MainSet, SigSet, Deliver, Begin, SigIdle,
        buffers, SigAt
  <1>3. SessionInv'
    BY NumbersType, NoneAssumption
    DEF RestInv, TablesType, RecordsType, SessionInv, Handling, ClientOpen,
        Sending, HadSession, Walking, Erased, SessionHasClient, Open, Deliver,
        Begin, SigIdle, buffers, SigAt
  <1>4. ConfigInv'
    BY NumbersType, NoneAssumption
    DEF RestInv, TablesType, RecordsType, ConfigInv, ConfigOfConnection,
        ConfigGone, ClientOpen, SessionInv, Handling, SessionHasClient, Open,
        Deliver, Begin, SigIdle, buffers, SigAt
  <1>5. BufferInv'
    <2>1. /\ UNCHANGED <<queue, ask, burst, main>>
          /\ sig = SigIdle /\ sig'.pc = "find" /\ sig'.sock = client.sock
      BY DEF Deliver, Begin, buffers
    <2>2. client.sock \in Sockets
      BY NoneAssumption
      DEF RestInv, SessionInv, Handling, ClientOpen, Deliver
    <2>3. /\ queue[client.sock] \in Nat
          /\ queue[client.sock] + (IF main.pc = "register"
                                      /\ main.sock = client.sock
                                   THEN 1 ELSE 0) < MaxQueue
      BY <2>2, NumbersType DEF RestInv, TablesType, Deliver
    <2>4. queue[client.sock] < MaxQueue
      BY <2>3, NumbersType
    <2>5. AnsweredUnlessBurst'
      BY <2>1
      DEF RestInv, BufferInv, AnsweredUnlessBurst, SigIdle, SigAt
    <2>6. main.pc = "register" =>
            queue[main.sock] + 1 + Reserved(main.sock)' <= MaxQueue
      <3>1. CASE main.sock = client.sock
        <4>1. Reserved(main.sock)' = 1
          BY <2>1, <3>1 DEF Reserved
        <4> QED
          BY <2>3, <3>1, <4>1, NumbersType
      <3>2. CASE main.sock # client.sock
        <4>1. Reserved(main.sock)' = 0 /\ Reserved(main.sock) = 0
          BY <2>1, <3>2 DEF Reserved, SigIdle, SigAt
        <4> QED
          BY <4>1 DEF RestInv, BufferInv, Waiting
      <3> QED
        BY <3>1, <3>2
    <2> QED
      BY <2>1, <2>4, <2>5, <2>6 DEF RestInv, BufferInv, Waiting, Reserved
  <1>6. RuntimeInUse'
    BY NumbersType, NoneAssumption
    DEF RestInv, RuntimeInUse, SessionInv, Sending, Deliver, Begin, SigIdle,
        buffers, SigAt
  <1> QED
    BY <1>1, <1>2, <1>3, <1>4, <1>5, <1>6 DEF RestInv

LEMMA DeliverQueueInv ==
  ASSUME RestInv, DeliverQueue
  PROVE  RestInv'
PROOF
  <1>1. TablesType'
    <2>1. sig.sock \in Sockets /\ queue[sig.sock] \in 0 .. MaxQueue
      BY DEF RestInv, TablesType, SessionInv, Handling, Walking, DeliverQueue
    <2>2. queue[sig.sock] < MaxQueue
      BY DEF RestInv, BufferInv, Waiting, DeliverQueue
    <2>3. queue[sig.sock] + 1 \in 0 .. MaxQueue
      BY <2>1, <2>2, NumbersType
    <2>4. queue' \in [Sockets -> 0 .. MaxQueue]
      BY <2>3 DEF RestInv, TablesType, DeliverQueue, Push
    <2>5. burst' \in [Sockets -> BOOLEAN]
      BY DEF RestInv, TablesType, DeliverQueue, Push
    <2> QED
      BY <2>4, <2>5 DEF RestInv, TablesType, DeliverQueue
  <1>2. RecordsType'
    BY NumbersType, NoneAssumption
    DEF RestInv, TablesType, RecordsType, SessionInv, Handling, ClientOpen,
        ClientSet, SessionSet, MainSet, SigSet, DeliverQueue, Begin, Found,
        Push
  <1>3. SessionInv'
    BY NumbersType, NoneAssumption
    DEF RestInv, TablesType, RecordsType, SessionInv, Handling, ClientOpen,
        Sending, HadSession, Walking, Erased, SessionHasClient, Open,
        DeliverQueue, Begin, Found, Push
  <1>4. ConfigInv'
    BY NumbersType, NoneAssumption
    DEF RestInv, TablesType, RecordsType, ConfigInv, ConfigOfConnection,
        ConfigGone, ClientOpen, SessionInv, Handling, SessionHasClient, Open,
        DeliverQueue, Begin, Found, Push
  <1>5. BufferInv'
    BY NumbersType, NoneAssumption
    DEF RestInv, TablesType, RecordsType, BufferInv, AnsweredUnlessBurst,
        Waiting, Reserved, SessionInv, Handling, Walking, Open, DeliverQueue,
        Begin, Found, Push
  <1>6. RuntimeInUse'
    BY NumbersType, NoneAssumption
    DEF RestInv, RuntimeInUse, SessionInv, Sending, DeliverQueue, Begin,
        Found, Push
  <1> QED
    BY <1>1, <1>2, <1>3, <1>4, <1>5, <1>6 DEF RestInv

LEMMA DeliverAskInv ==
  ASSUME RestInv, DeliverAsk
  PROVE  RestInv'
PROOF
  <1>1. TablesType'
    BY NumbersType, NoneAssumption
    DEF RestInv, TablesType, SessionInv, Handling, BufferInv, Waiting,
        DeliverAsk, Found, SigIdle, SigAt
  <1>2. RecordsType'
    BY NumbersType, NoneAssumption
    DEF RestInv, TablesType, RecordsType, SessionInv, Handling, ClientOpen,
        ClientSet, SessionSet, MainSet, SigSet, DeliverAsk, Found, SigIdle,
        SigAt
  <1>3. SessionInv'
    BY NumbersType, NoneAssumption
    DEF RestInv, TablesType, RecordsType, SessionInv, Handling, ClientOpen,
        Sending, HadSession, Walking, Erased, SessionHasClient, Open,
        DeliverAsk, Found, SigIdle, SigAt
  <1>4. ConfigInv'
    BY NumbersType, NoneAssumption
    DEF RestInv, TablesType, RecordsType, ConfigInv, ConfigOfConnection,
        ConfigGone, ClientOpen, SessionInv, Handling, SessionHasClient, Open,
        DeliverAsk, Found, SigIdle, SigAt
  <1>5. BufferInv'
    BY NumbersType, NoneAssumption
    DEF RestInv, TablesType, RecordsType, BufferInv, AnsweredUnlessBurst,
        Waiting, Reserved, SessionInv, Handling, Walking, Open, DeliverAsk,
        Found, SigIdle, SigAt
  <1>6. RuntimeInUse'
    BY NumbersType, NoneAssumption
    DEF RestInv, RuntimeInUse, SessionInv, Sending, DeliverAsk, Found,
        SigIdle, SigAt
  <1> QED
    BY <1>1, <1>2, <1>3, <1>4, <1>5, <1>6 DEF RestInv

LEMMA WalkOnInv ==
  ASSUME RestInv, WalkOn
  PROVE  RestInv'
PROOF
  <1>1. /\ Walking /\ sig \in SigSet /\ sig.sock \in Sockets
        /\ UNCHANGED <<conn, queue, ask, burst, config, client, session, main,
                       dropping, stale>>
    BY DEF WalkOn, buffers, RestInv, RecordsType, SessionInv, Handling
  <1>2. \/ \E r \in Sockets : sig' = [sig EXCEPT !.at = r, !.conn = conn[r]]
        \/ sig.pc = "close" /\ sig' = SigAt("drop", sig.sock)
    <2>1. CASE ~Open(sig.sock)
      <3>1. sig.pc = "close"
        BY <1>1, <2>1
        DEF RestInv, SessionInv, Sending, HadSession, Walking
      <3> QED
        BY <3>1 DEF WalkOn
    <2>2. CASE Open(sig.sock)
      BY <2>2 DEF WalkOn
    <2> QED
      BY <2>1, <2>2
  <1>3. /\ sig' \in SigSet /\ sig'.sock = sig.sock
        /\ sig'.pc = sig.pc \/ (sig.pc = "close" /\ sig'.pc = "drop")
        /\ sig'.pc = sig.pc =>
             /\ sig'.live = sig.live
             /\ sig'.at \in Sockets /\ sig'.conn = conn[sig'.at]
    <2>1. CASE \E r \in Sockets : sig' = [sig EXCEPT !.at = r, !.conn = conn[r]]
      BY <1>1, <1>2, <2>1 DEF SigSet, RestInv, TablesType
    <2>2. CASE sig.pc = "close" /\ sig' = SigAt("drop", sig.sock)
      BY <1>1, <1>2, <2>2, NumbersType DEF SigSet, SigAt
    <2> QED
      BY <1>2, <2>1, <2>2
  <1>4. TablesType' /\ RecordsType' /\ RuntimeInUse'
    BY <1>1, <1>3 DEF RestInv, TablesType, RecordsType, RuntimeInUse
  <1>5. Handling' /\ ClientOpen' /\ SessionHasClient'
    BY <1>1, <1>3
    DEF RestInv, SessionInv, Handling, ClientOpen, SessionHasClient, Walking,
        Open
  <1>6. Sending'
    <2>1. HadSession' => HadSession /\ ~Erased'
      BY <1>1, <1>3 DEF HadSession, Walking, Erased
    <2> QED
      BY <1>1, <1>3, <2>1 DEF RestInv, SessionInv, Sending, Open
  <1>7. ConfigInv'
    BY <1>1, <1>3
    DEF RestInv, ConfigInv, ConfigOfConnection, ConfigGone, Walking, Open
  <1>8. BufferInv'
    BY <1>1, <1>3
    DEF RestInv, BufferInv, AnsweredUnlessBurst, Waiting, Reserved
  <1> QED
    BY <1>4, <1>5, <1>6, <1>7, <1>8 DEF RestInv, SessionInv

LEMMA IceFailsInv ==
  ASSUME RestInv, IceFails
  PROVE  RestInv'
PROOF
  <1>1. TablesType'
    BY NumbersType, NoneAssumption
    DEF RestInv, TablesType, SessionInv, Handling, BufferInv, Waiting,
        IceFails, SigIdle, buffers, SigAt
  <1>2. RecordsType'
    BY NumbersType, NoneAssumption
    DEF RestInv, TablesType, RecordsType, SessionInv, Handling, ClientOpen,
        ClientSet, SessionSet, MainSet, SigSet, IceFails, SigIdle, buffers,
        SigAt
  <1>3. SessionInv'
    BY NumbersType, NoneAssumption
    DEF RestInv, TablesType, RecordsType, SessionInv, Handling, ClientOpen,
        Sending, HadSession, Walking, Erased, SessionHasClient, Open,
        IceFails, SigIdle, buffers, SigAt
  <1>4. ConfigInv'
    BY NumbersType, NoneAssumption
    DEF RestInv, TablesType, RecordsType, ConfigInv, ConfigOfConnection,
        ConfigGone, ClientOpen, SessionInv, Handling, SessionHasClient, Open,
        IceFails, SigIdle, buffers, SigAt
  <1>5. BufferInv'
    BY NumbersType, NoneAssumption
    DEF RestInv, TablesType, RecordsType, BufferInv, AnsweredUnlessBurst,
        Waiting, Reserved, SessionInv, Handling, Walking, Open, IceFails,
        SigIdle, buffers, SigAt
  <1>6. RuntimeInUse'
    BY NumbersType, NoneAssumption
    DEF RestInv, RuntimeInUse, SessionInv, Sending, IceFails, SigIdle,
        buffers, SigAt
  <1> QED
    BY <1>1, <1>2, <1>3, <1>4, <1>5, <1>6 DEF RestInv

LEMMA DropInv ==
  ASSUME RestInv, Drop
  PROVE  RestInv'
PROOF
  <1> DEFINE live == session.on /\ client.id # None /\ client.sock = dropping
  <1>0. /\ dropping \in Sockets
        /\ \/ sig' = SigAt("drop", dropping)
           \/ \E r \in Sockets :
                sig' = [pc |-> "close", sock |-> dropping, at |-> r,
                        conn |-> conn[r], live |-> live]
    BY DEF Drop, Begin, RestInv, RecordsType
  <1>1. TablesType'
    BY NumbersType, NoneAssumption
    DEF RestInv, TablesType, SessionInv, Handling, BufferInv, Waiting, Drop,
        Begin, SigIdle, buffers, SigAt
  <1>2. RecordsType'
    <2>1. live \in BOOLEAN
      OBVIOUS
    <2>2. sig' \in SigSet
      <3>1. CASE sig' = SigAt("drop", dropping)
        BY <1>0, <3>1, NumbersType DEF SigSet, SigAt
      <3>2. ASSUME NEW r \in Sockets,
                   sig' = [pc |-> "close", sock |-> dropping, at |-> r,
                           conn |-> conn[r], live |-> live]
            PROVE  sig' \in SigSet
        <4>1. conn[r] \in Numbers
          BY DEF RestInv, TablesType
        <4> HIDE DEF live
        <4> QED
          BY <1>0, <2>1, <3>2, <4>1 DEF SigSet
      <3> QED
        BY <1>0, <3>1, <3>2
    <2> QED
      BY <2>2 DEF RestInv, RecordsType, Drop
  <1>3. SessionInv'
    <2>1. UNCHANGED <<conn, client, session, main>> /\ sig = SigIdle
      BY DEF Drop
    <2>2. Handling' /\ ClientOpen' /\ SessionHasClient'
      BY <1>0, <2>1
      DEF RestInv, SessionInv, Handling, ClientOpen, SessionHasClient, Walking,
          Open, SigIdle, SigAt
    <2>3. Sending'
      <3> SUFFICES ASSUME HadSession' PROVE Sending'
        BY DEF Sending
      <3>1. /\ live /\ sig'.sock = dropping /\ ~Erased'
        <4>1. sig' # SigAt("drop", dropping)
          BY DEF HadSession, Walking, SigAt
        <4>2. PICK r \in Sockets :
                sig' = [pc |-> "close", sock |-> dropping, at |-> r,
                        conn |-> conn[r], live |-> live]
          BY <1>0, <4>1
        <4>3. sig'.pc = "close" /\ sig'.sock = dropping /\ sig'.at = r
              /\ sig'.conn = conn[r] /\ (sig'.live <=> live)
          <5> HIDE DEF live
          <5> QED
            BY <4>2
        <4> QED
          BY <2>1, <4>3 DEF HadSession, Erased
      <3> QED
        BY <2>1, <3>1 DEF RestInv, SessionInv, ClientOpen, Sending, Open
    <2> QED
      BY <2>2, <2>3 DEF SessionInv
  <1>4. ConfigInv'
    BY NumbersType, NoneAssumption
    DEF RestInv, TablesType, RecordsType, ConfigInv, ConfigOfConnection,
        ConfigGone, ClientOpen, SessionInv, Handling, SessionHasClient, Open,
        Drop, Begin, SigIdle, buffers, SigAt
  <1>5. BufferInv'
    BY NumbersType, NoneAssumption
    DEF RestInv, TablesType, RecordsType, BufferInv, AnsweredUnlessBurst,
        Waiting, Reserved, SessionInv, Handling, Walking, Open, Drop, Begin,
        SigIdle, buffers, SigAt
  <1>6. RuntimeInUse'
    BY NumbersType, NoneAssumption
    DEF RestInv, RuntimeInUse, SessionInv, Sending, Drop, Begin, SigIdle,
        buffers, SigAt
  <1> QED
    BY <1>1, <1>2, <1>3, <1>4, <1>5, <1>6 DEF RestInv

LEMMA CloseRuntimeInv ==
  ASSUME RestInv, CloseRuntime
  PROVE  RestInv'
PROOF
  <1>1. TablesType'
    BY NumbersType, NoneAssumption
    DEF RestInv, TablesType, SessionInv, Handling, BufferInv, Waiting,
        CloseRuntime, Found, SigIdle, buffers, SigAt
  <1>2. RecordsType'
    BY NumbersType, NoneAssumption
    DEF RestInv, TablesType, RecordsType, SessionInv, Handling, ClientOpen,
        ClientSet, SessionSet, MainSet, SigSet, CloseRuntime, Found, SigIdle,
        buffers, SigAt
  <1>3. SessionInv'
    BY NumbersType, NoneAssumption
    DEF RestInv, TablesType, RecordsType, SessionInv, Handling, ClientOpen,
        Sending, HadSession, Walking, Erased, SessionHasClient, Open,
        CloseRuntime, Found, SigIdle, buffers, SigAt
  <1>4. ConfigInv'
    BY NumbersType, NoneAssumption
    DEF RestInv, TablesType, RecordsType, ConfigInv, ConfigOfConnection,
        ConfigGone, ClientOpen, SessionInv, Handling, SessionHasClient, Open,
        CloseRuntime, Found, SigIdle, buffers, SigAt
  <1>5. BufferInv'
    BY NumbersType, NoneAssumption
    DEF RestInv, TablesType, RecordsType, BufferInv, AnsweredUnlessBurst,
        Waiting, Reserved, SessionInv, Handling, Walking, Open, CloseRuntime,
        Found, SigIdle, buffers, SigAt
  <1>6. RuntimeInUse'
    BY NumbersType, NoneAssumption
    DEF RestInv, RuntimeInUse, SessionInv, Sending, CloseRuntime, Found,
        SigIdle, buffers, SigAt
  <1> QED
    BY <1>1, <1>2, <1>3, <1>4, <1>5, <1>6 DEF RestInv

LEMMA DropClientInv ==
  ASSUME RestInv, DropClient
  PROVE  RestInv'
PROOF
  <1>1. /\ sig.pc = "drop" /\ client \in ClientSet
        /\ UNCHANGED <<conn, queue, ask, burst, config, session, main, dropping,
                       stale>>
    BY DEF DropClient, buffers, RestInv, RecordsType
  <1>2. \/ client' = client /\ sig' = SigIdle
        \/ /\ client' = [client EXCEPT !.id = None, !.conn = 0]
           /\ sig' = SigAt("reset", None)
    BY DEF DropClient
  <1>3. /\ client' \in ClientSet /\ sig' \in SigSet
        /\ sig'.pc \in {"idle", "reset"}
        /\ client' = client \/ (client'.id = None /\ sig'.pc = "reset")
    <2>1. SigIdle \in SigSet /\ SigAt("reset", None) \in SigSet
      BY NumbersType DEF SigSet, SigIdle, SigAt
    <2>2. /\ [client EXCEPT !.id = None, !.conn = 0] \in ClientSet
          /\ [client EXCEPT !.id = None, !.conn = 0].id = None
      BY <1>1, NumbersType DEF ClientSet
    <2>3. SigIdle.pc = "idle" /\ SigAt("reset", None).pc = "reset"
      BY DEF SigIdle, SigAt
    <2> QED
      BY <1>1, <1>2, <2>1, <2>2, <2>3
  <1>4. TablesType' /\ RecordsType' /\ RuntimeInUse'
    BY <1>1, <1>3 DEF RestInv, TablesType, RecordsType, RuntimeInUse
  <1>5. SessionInv'
    BY <1>1, <1>3
    DEF RestInv, SessionInv, Handling, ClientOpen, Sending, HadSession,
        SessionHasClient, Walking, Open
  <1>6. ConfigInv'
    BY <1>1, <1>3
    DEF RestInv, ConfigInv, ConfigOfConnection, ConfigGone, Open
  <1>7. BufferInv'
    BY <1>1, <1>3
    DEF RestInv, BufferInv, AnsweredUnlessBurst, Waiting, Reserved
  <1> QED
    BY <1>4, <1>5, <1>6, <1>7 DEF RestInv

LEMMA DropResetInv ==
  ASSUME RestInv, DropReset
  PROVE  RestInv'
PROOF
  <1>1. TablesType'
    BY NumbersType, NoneAssumption
    DEF RestInv, TablesType, SessionInv, Handling, BufferInv, Waiting,
        DropReset, NoClient, SigIdle, buffers, SigAt
  <1>2. RecordsType'
    BY NumbersType, NoneAssumption
    DEF RestInv, TablesType, RecordsType, SessionInv, Handling, ClientOpen,
        ClientSet, SessionSet, MainSet, SigSet, DropReset, NoClient, SigIdle,
        buffers, SigAt
  <1>3. SessionInv'
    BY NumbersType, NoneAssumption
    DEF RestInv, TablesType, RecordsType, SessionInv, Handling, ClientOpen,
        Sending, HadSession, Walking, Erased, SessionHasClient, Open,
        DropReset, NoClient, SigIdle, buffers, SigAt
  <1>4. ConfigInv'
    BY NumbersType, NoneAssumption
    DEF RestInv, TablesType, RecordsType, ConfigInv, ConfigOfConnection,
        ConfigGone, ClientOpen, SessionInv, Handling, SessionHasClient, Open,
        DropReset, NoClient, SigIdle, buffers, SigAt
  <1>5. BufferInv'
    BY NumbersType, NoneAssumption
    DEF RestInv, TablesType, RecordsType, BufferInv, AnsweredUnlessBurst,
        Waiting, Reserved, SessionInv, Handling, Walking, Open, DropReset,
        NoClient, SigIdle, buffers, SigAt
  <1>6. RuntimeInUse'
    BY NumbersType, NoneAssumption
    DEF RestInv, RuntimeInUse, SessionInv, Sending, DropReset, NoClient,
        SigIdle, buffers, SigAt
  <1> QED
    BY <1>1, <1>2, <1>3, <1>4, <1>5, <1>6 DEF RestInv

LEMMA DropStopInv ==
  ASSUME RestInv, DropStop
  PROVE  RestInv'
PROOF
  <1>1. TablesType'
    BY NumbersType, NoneAssumption
    DEF RestInv, TablesType, SessionInv, Handling, BufferInv, Waiting,
        DropStop, NoSession, SigIdle, buffers, SigAt
  <1>2. RecordsType'
    BY NumbersType, NoneAssumption
    DEF RestInv, TablesType, RecordsType, SessionInv, Handling, ClientOpen,
        ClientSet, SessionSet, MainSet, SigSet, DropStop, NoSession, SigIdle,
        buffers, SigAt
  <1>3. SessionInv'
    BY NumbersType, NoneAssumption
    DEF RestInv, TablesType, RecordsType, SessionInv, Handling, ClientOpen,
        Sending, HadSession, Walking, Erased, SessionHasClient, Open,
        DropStop, NoSession, SigIdle, buffers, SigAt
  <1>4. ConfigInv'
    BY NumbersType, NoneAssumption
    DEF RestInv, TablesType, RecordsType, ConfigInv, ConfigOfConnection,
        ConfigGone, ClientOpen, SessionInv, Handling, SessionHasClient, Open,
        DropStop, NoSession, SigIdle, buffers, SigAt
  <1>5. BufferInv'
    BY NumbersType, NoneAssumption
    DEF RestInv, TablesType, RecordsType, BufferInv, AnsweredUnlessBurst,
        Waiting, Reserved, SessionInv, Handling, Walking, Open, DropStop,
        NoSession, SigIdle, buffers, SigAt
  <1>6. RuntimeInUse'
    BY NumbersType, NoneAssumption
    DEF RestInv, RuntimeInUse, SessionInv, Sending, DropStop, NoSession,
        SigIdle, buffers, SigAt
  <1> QED
    BY <1>1, <1>2, <1>3, <1>4, <1>5, <1>6 DEF RestInv

(* A runtime that was erased is not the client's own, so that what is known *)
(* of a process that starts holds again.                                   *)
LEMMA UseErasedInv ==
  ASSUME RestInv, UseErased
  PROVE  RestInv' /\ PiecesInv'
PROOF
  <1>1. stale' \in {"no", "passed", "late"}
    BY DEF RestInv, SessionInv, Sending, HadSession, Walking, UseErased, NoWsi
  <1> QED
    BY <1>1, BootInvNext DEF UseErased

LEMMA RestartInv ==
  ASSUME RestInv, Restart
  PROVE  RestInv'
PROOF
  <1>1. /\ main.pc = "down" /\ main' = Idle /\ stale' = "no"
        /\ UNCHANGED <<conn, queue, ask, burst, config, client, session, sig,
                       dropping>>
    BY DEF Restart, buffers
  <1>2. main'.pc = "idle" /\ main' \in MainSet
    BY <1>1 DEF MainSet, Idle, MainAt
  <1>3. TablesType' /\ RecordsType' /\ RuntimeInUse'
    BY <1>1, <1>2 DEF RestInv, TablesType, RecordsType, RuntimeInUse
  <1>4. SessionInv'
    BY <1>1, <1>2
    DEF RestInv, SessionInv, Handling, ClientOpen, Sending, HadSession,
        SessionHasClient, Walking, Erased, Open
  <1>5. ConfigInv' /\ BufferInv'
    BY <1>1, <1>2
    DEF RestInv, ConfigInv, ConfigOfConnection, ConfigGone, BufferInv,
        AnsweredUnlessBurst, Waiting, Reserved, Open
  <1> QED
    BY <1>3, <1>4, <1>5 DEF RestInv

-----------------------------------------------------------------------------
(* The commands *)

LEMMA SendInv ==
  ASSUME RestInv, NEW s \in Sockets, NEW n \in 1 .. 2, Send(s, n),
         UNCHANGED <<conn, sig>>, main'.pc # "register"
  PROVE  /\ queue' \in [Sockets -> 0 .. MaxQueue]
         /\ ask' \in [Sockets -> BOOLEAN] /\ burst' \in [Sockets -> BOOLEAN]
         /\ BufferInv'
PROOF
  <1>1. /\ queue[s] \in 0 .. MaxQueue /\ MaxQueue \in Nat
        /\ Reserved(s) \in {0, 1}
    BY NumbersType DEF RestInv, TablesType, Reserved
  <1>2. queue' \in [Sockets -> 0 .. MaxQueue]
    BY <1>1 DEF RestInv, TablesType, Send, Push
  <1>3. ask' \in [Sockets -> BOOLEAN] /\ burst' \in [Sockets -> BOOLEAN]
    BY DEF RestInv, TablesType, Send, Push
  <1>4. AnsweredUnlessBurst'
    BY DEF RestInv, TablesType, BufferInv, AnsweredUnlessBurst, Send, Push
  <1>5. ASSUME NEW r \in Sockets, ~burst'[r] PROVE queue'[r] <= 1
    <2>1. CASE r = s
      <3>1. burst'[s] = (burst[s] \/ queue[s] + n > 1) /\ queue'[s] = queue[s] + n
        BY DEF RestInv, TablesType, Send, Push
      <3>2. ~(queue[s] + n > 1)
        BY <1>5, <2>1, <3>1
      <3> QED
        BY <1>1, <2>1, <3>1, <3>2
    <2>2. CASE r # s
      <3>1. burst'[r] = burst[r] /\ queue'[r] = queue[r]
        BY <2>2 DEF RestInv, TablesType, Send, Push
      <3> QED
        BY <1>5, <3>1 DEF RestInv, BufferInv, Waiting
    <2> QED
      BY <2>1, <2>2
  <1>6. sig'.pc = "find" => queue'[sig'.sock] < MaxQueue
    BY <1>1
    DEF RestInv, TablesType, BufferInv, Waiting, Send, Push, Reserved,
        SessionInv, Handling
  <1> QED
    BY <1>2, <1>3, <1>4, <1>5, <1>6 DEF BufferInv, Waiting

(* A command queues answers for its descriptor, or none, and then there may *)
(* be room for one that registering queues later.                           *)
LEMMA CommandSends ==
  ASSUME NEW s \in Sockets, Command(s), MainIdle
  PROVE  \/ (\E n \in 1 .. 2 : Send(s, n)) /\ main'.pc # "register"
         \/ UNCHANGED buffers /\ main'.pc # "register"
         \/ /\ UNCHANGED buffers
            /\ main'.sock = s /\ queue[s] + 1 + Reserved(s) <= MaxQueue
PROOF
  <1>1. CASE \E c \in Clients : Register(s, c)
    BY <1>1 DEF Register, Answered, buffers, MainIdle, Idle, MainAt
  <1>2. CASE Bye(s)
    BY <1>2 DEF Bye, buffers, MainIdle, Idle, MainAt
  <1>3. CASE Quiet
    BY <1>3 DEF Quiet, buffers, MainIdle, Idle, MainAt
  <1>4. CASE SendInvalid(s) \/ SendEmpty(s) \/ SetRtcConfig(s) \/ Answered(s)
    BY <1>4
    DEF SendInvalid, SendEmpty, SetRtcConfig, Answered, Close, MainIdle, Idle, MainAt
  <1> QED
    BY <1>1, <1>2, <1>3, <1>4 DEF Command

(* What registering may do to client and the main thread.                   *)
LEMMA RegisterInv ==
  ASSUME RestInv, NEW s \in Sockets, NEW c \in Clients, Register(s, c),
         MainIdle, Open(s), UNCHANGED <<conn, sig, dropping, stale>>
  PROVE  RecordsType' /\ SessionInv' /\ ConfigInv'
PROOF
  <1>1. CASE client.id \notin {None, c}
    <2>1. UNCHANGED <<client, session, main, config>>
      BY <1>1 DEF Register, Answered
    <2> QED
      BY <2>1
      DEF RestInv, RecordsType, SessionInv, Handling, ClientOpen, Sending,
          HadSession, Walking, Erased, SessionHasClient, Open, ConfigInv,
          ConfigOfConnection, ConfigGone
  <1>2. CASE client.id \in {None, c}
    <2>1. /\ client' = IF client.id = c THEN client
                       ELSE [sock |-> s, id |-> c, conn |-> conn[s]]
          /\ main' = [pc |-> "register", sock |-> s, id |-> c]
          /\ config' = config /\ session' = session
      BY <1>2 DEF Register
    <2>2. client'.id # None /\ client'.sock \in Sockets
      BY <1>2, <2>1, NoneAssumption
      DEF RestInv, RecordsType, SessionInv, ClientOpen
    <2>3. client.id = None /\ session.on /\ session.own =>
            sig.pc \in {"reset", "stop"}
      BY DEF RestInv, SessionInv, SessionHasClient, MainIdle, Idle, MainAt
    <2>4. RecordsType'
      BY <2>1
      DEF RestInv, TablesType, RecordsType, ClientSet, SessionSet, MainSet,
          SigSet
    <2>5. Handling' /\ SessionHasClient'
      BY <2>1, <2>2
      DEF RestInv, SessionInv, Handling, Walking, SessionHasClient
    <2>6. ClientOpen'
      BY <2>1, <2>2
      DEF RestInv, SessionInv, ClientOpen, Open
    <2>7. Sending'
      <3> SUFFICES ASSUME HadSession PROVE Sending'
        BY DEF Sending, HadSession, Walking
      <3>1. /\ session.on /\ client.id # None /\ client.sock = sig.sock
            /\ Open(sig.sock) /\ (sig.at = sig.sock => ~Erased)
        BY DEF RestInv, SessionInv, Sending, MainIdle, Idle, MainAt
      <3>2. client.id = c
        BY <1>2, <3>1
      <3>3. client' = client
        BY <2>1, <3>2
      <3> QED
        BY <2>1, <3>1, <3>3 DEF Sending, Open, Erased
    <2>8. ConfigGone'
      BY <2>1 DEF ConfigGone
    <2>9. ConfigOfConnection'
      <3>1. \A r \in Sockets : config'[r] \in {0, conn'[r]}
        BY <2>1 DEF RestInv, ConfigInv, ConfigOfConnection
      <3>2. Open(client.sock)' /\ conn'[client'.sock] = client'.conn
        BY <2>2, <2>6 DEF ClientOpen, Open
      <3>3. session'.on /\ session'.own /\ client'.id # None
              /\ sig'.pc \notin {"reset", "stop"} =>
              session'.config \in {0, client'.conn}
        <4>1. CASE client.id = c
          BY <2>1, <4>1, NoneAssumption
          DEF RestInv, ConfigInv, ConfigOfConnection
        <4>2. CASE client.id = None
          BY <2>1, <2>3, <4>2
        <4> QED
          BY <1>2, <4>1, <4>2
      <3> QED
        BY <3>1, <3>2, <3>3 DEF ConfigOfConnection, Open
    <2> QED
      BY <2>4, <2>5, <2>6, <2>7, <2>8, <2>9 DEF SessionInv, ConfigInv
  <1> QED
    BY <1>1, <1>2

LEMMA StartSessionInv ==
  ASSUME RestInv, StartSession
  PROVE  RestInv'
PROOF
  <1> DEFINE own == client.id # None /\ client.sock = main.sock
             begun == [on |-> TRUE, peer |-> main.id,
                       config |-> config[main.sock], own |-> own]
  <1>1. main.pc = "register" /\ main.sock \in Sockets /\ main.id \in Clients
    BY DEF RestInv, SessionInv, Handling, StartSession
  <1>2. UNCHANGED <<conn, config, client, sig, dropping, stale>>
    BY DEF StartSession
  <1>3. \/ main' = Idle
        \/ main' = MainAt("closing", main.sock)
    BY DEF StartSession, Close
  <1>4. \/ session' = session
        \/ ~session.on /\ main' = Idle /\ session' = begun
    BY DEF StartSession
  <1>5. UNCHANGED buffers \/ Send(main.sock, 1)
    BY DEF StartSession
  <1>6. main'.pc \in {"idle", "closing"}
    BY <1>3 DEF Idle, MainAt
  <1>7. /\ queue' \in [Sockets -> 0 .. MaxQueue]
        /\ ask' \in [Sockets -> BOOLEAN] /\ burst' \in [Sockets -> BOOLEAN]
        /\ BufferInv'
    <2>1. CASE UNCHANGED buffers
      BY <1>2, <1>6, <2>1
      DEF buffers, RestInv, TablesType, BufferInv, AnsweredUnlessBurst, Waiting
    <2>2. CASE Send(main.sock, 1)
      <3>1. UNCHANGED <<conn, sig>> /\ main'.pc # "register"
        BY <1>2, <1>6
      <3> QED
        BY <1>1, <2>2, <3>1, SendInv
    <2> QED
      BY <1>5, <2>1, <2>2
  <1>8. TablesType'
    BY <1>2, <1>7 DEF RestInv, TablesType
  <1>9. RecordsType'
    <2>1. main' \in MainSet
      BY <1>1, <1>3 DEF MainSet, Idle, MainAt
    <2>2. begun \in SessionSet
      BY <1>1 DEF RestInv, TablesType, SessionSet
    <2> QED
      BY <1>2, <1>4, <2>1, <2>2 DEF RestInv, RecordsType
  <1>10. SessionInv'
    <2>1. Handling'
      BY <1>1, <1>2, <1>3, <1>4
      DEF RestInv, SessionInv, Handling, Walking, Idle, MainAt
    <2>2. ClientOpen'
      BY <1>2, <1>6 DEF RestInv, SessionInv, ClientOpen, Open
    <2>3. Sending'
      <3>1. HadSession => session' = session
        BY <1>4 DEF RestInv, SessionInv, Sending
      <3> QED
        BY <1>1, <1>2, <3>1
        DEF RestInv, SessionInv, Sending, HadSession, Walking, Erased, Open
    <2>4. SessionHasClient'
      <3>1. CASE session' = session
        BY <1>1, <1>2, <3>1 DEF RestInv, SessionInv, SessionHasClient
      <3>2. CASE session' = begun
        BY <1>2, <3>2 DEF SessionHasClient
      <3> QED
        BY <1>4, <3>1, <3>2
    <2> QED
      BY <2>1, <2>2, <2>3, <2>4 DEF SessionInv
  <1>11. ConfigInv'
    <2>1. session'.on /\ session'.own /\ client'.id # None
            /\ sig'.pc \notin {"reset", "stop"} =>
            session'.config \in {0, client'.conn}
      <3>1. CASE session' = session
        BY <1>2, <3>1 DEF RestInv, ConfigInv, ConfigOfConnection
      <3>2. CASE session' = begun
        BY <1>1, <1>2, <3>2
        DEF RestInv, ConfigInv, ConfigOfConnection, SessionInv, ClientOpen
      <3> QED
        BY <1>4, <3>1, <3>2
    <2> QED
      BY <1>2, <1>6, <2>1
      DEF RestInv, ConfigInv, ConfigOfConnection, ConfigGone, Open
  <1> QED
    BY <1>2, <1>7, <1>8, <1>9, <1>10, <1>11 DEF RestInv, RuntimeInUse

LEMMA ByeInv ==
  ASSUME RestInv, NEW s \in Sockets, Bye(s),
         MainIdle, Open(s), UNCHANGED <<conn, sig, dropping, stale>>
  PROVE  RecordsType' /\ SessionInv' /\ ConfigInv'
PROOF
  <1>1. RecordsType'
    BY NumbersType
    DEF RestInv, RecordsType, ClientSet, SessionSet, MainSet, SigSet, Bye,
        NoClient, Idle, MainAt
  <1>2. SessionInv'
    BY DEF RestInv, SessionInv, Handling, ClientOpen, Sending, HadSession,
           Walking, Erased, SessionHasClient, Open, Bye, NoClient, Idle,
           MainAt, MainIdle
  <1>3. ConfigInv'
    <2>1. /\ config' = config /\ session' = session
          /\ client' = client \/ client'.id = None
          /\ main'.pc \notin {"leave", "erase"}
      BY DEF Bye, NoClient, Idle, MainAt, MainIdle
    <2> QED
      BY <2>1 DEF RestInv, ConfigInv, ConfigOfConnection, ConfigGone, Open
  <1> QED
    BY <1>1, <1>2, <1>3

LEMMA AnswerInv ==
  ASSUME RestInv, NEW s \in Sockets,
         \/ SendInvalid(s) \/ SendEmpty(s) \/ SetRtcConfig(s)
         \/ Answered(s) \/ Quiet,
         MainIdle, Open(s), UNCHANGED <<conn, sig, dropping, stale>>
  PROVE  RecordsType' /\ SessionInv' /\ ConfigInv'
PROOF
  <1>1. /\ client' = client /\ session' = session
        /\ \/ main' = main
           \/ main' = MainAt("closing", s)
        /\ config' = config \/ config' = [config EXCEPT ![s] = conn[s]]
    BY DEF SendInvalid, SendEmpty, SetRtcConfig, Answered, Quiet, Close
  <1>2. RecordsType'
    BY <1>1 DEF RestInv, RecordsType, MainSet, Idle, MainAt
  <1>3. SessionInv'
    BY <1>1
    DEF RestInv, SessionInv, Handling, ClientOpen, Sending, HadSession,
        Walking, Erased, SessionHasClient, Open, MainIdle, Idle, MainAt
  <1>4. ConfigInv'
    <2>1. main'.pc \notin {"leave", "erase"}
      BY <1>1 DEF MainIdle, Idle, MainAt
    <2>2. \A r \in Sockets : config'[r] \in {0, conn'[r]}
      BY <1>1 DEF RestInv, TablesType, ConfigInv, ConfigOfConnection
    <2> QED
      BY <1>1, <2>1, <2>2
      DEF RestInv, ConfigInv, ConfigOfConnection, ConfigGone, Open
  <1> QED
    BY <1>2, <1>3, <1>4

LEMMA CommandConfig ==
  ASSUME NEW s \in Sockets, Command(s)
  PROVE  config' = config \/ config' = [config EXCEPT ![s] = conn[s]]
  BY DEF Command, Register, Bye, SendInvalid, SendEmpty, SetRtcConfig,
         Answered, Quiet

LEMMA CommandInv ==
  ASSUME RestInv, NEW s \in Sockets, Command(s),
         MainIdle, Open(s), UNCHANGED <<conn, sig, dropping, stale>>
  PROVE  RestInv'
PROOF
  <1>1. RecordsType' /\ SessionInv' /\ ConfigInv'
    BY RegisterInv, ByeInv, AnswerInv DEF Command
  <1>2. /\ queue' \in [Sockets -> 0 .. MaxQueue]
        /\ ask' \in [Sockets -> BOOLEAN] /\ burst' \in [Sockets -> BOOLEAN]
        /\ BufferInv'
    <2>1. CASE UNCHANGED buffers
      <3>1. \/ main'.pc # "register"
            \/ main'.sock = s /\ queue[s] + 1 + Reserved(s) <= MaxQueue
        BY CommandSends
      <3> QED
        BY <2>1, <3>1
        DEF buffers, RestInv, TablesType, BufferInv, AnsweredUnlessBurst,
            Waiting, Reserved
    <2>2. CASE (\E n \in 1 .. 2 : Send(s, n)) /\ main'.pc # "register"
      <3>1. UNCHANGED <<conn, sig>>
        OBVIOUS
      <3> QED
        BY <2>2, <3>1, SendInv
    <2> QED
      BY <2>1, <2>2, CommandSends
  <1>3. TablesType'
    BY <1>2, CommandConfig DEF RestInv, TablesType
  <1>4. RuntimeInUse'
    BY DEF RestInv, RuntimeInUse
  <1> QED
    BY <1>1, <1>2, <1>3, <1>4 DEF RestInv

-----------------------------------------------------------------------------
(* The pieces *)

(* The first piece decides what the buffer can become.                      *)
LEMMA FirstPiece ==
  ASSUME NEW c \in Seq(PieceSet), NEW p \in PieceSet
  PROVE  /\ Append(c, p) \in Seq(PieceSet) /\ Append(c, p) # << >>
         /\ Len(Append(c, p)) = Len(c) + 1
         /\ c # << >> => Append(c, p)[1] = c[1]
         /\ c = << >> => Len(c) = 0
         /\ \A i \in DOMAIN Append(c, p) :
              Append(c, p)[i] = p \/ (i \in DOMAIN c /\ Append(c, p)[i] = c[i])
PROOF
  <1>1. Append(c, p) \in Seq(PieceSet) /\ Len(Append(c, p)) = Len(c) + 1
    OBVIOUS
  <1>2. /\ Len(c) \in Nat /\ DOMAIN c = 1 .. Len(c)
        /\ DOMAIN Append(c, p) = 1 .. (Len(c) + 1)
        /\ c = << >> <=> Len(c) = 0
    BY <1>1
  <1>3. \A i \in 1 .. Len(c) : Append(c, p)[i] = c[i]
    BY <1>2
  <1>4. Append(c, p)[Len(c) + 1] = p
    BY <1>2
  <1>5. Append(c, p) # << >>
    BY <1>1, <1>2
  <1>6. c # << >> => Append(c, p)[1] = c[1]
    BY <1>2, <1>3
  <1>7. \A i \in DOMAIN Append(c, p) :
          Append(c, p)[i] = p \/ (i \in DOMAIN c /\ Append(c, p)[i] = c[i])
    <2> SUFFICES ASSUME NEW i \in 1 .. (Len(c) + 1)
                 PROVE  \/ Append(c, p)[i] = p
                        \/ i \in 1 .. Len(c) /\ Append(c, p)[i] = c[i]
      BY <1>2
    <2>1. i \in 1 .. Len(c) \/ i = Len(c) + 1
      BY <1>2
    <2> QED
      BY <1>3, <1>4, <2>1
  <1> QED
    BY <1>1, <1>2, <1>5, <1>6, <1>7

LEMMA NoPieces ==
  ASSUME chunks' = << >>, tries' = 0
  PROVE  PiecesInv'
  BY NumbersType DEF PiecesInv, PiecesSinceConnect, NoPiecesNoTries

LEMMA OnMessagePieces ==
  ASSUME PiecesInv, NEW s \in Sockets, OnMessage(s)
  PROVE  PiecesInv'
PROOF
  <1>2. PICK kind \in Kinds :
          LET b == Append(chunks, [kind |-> kind, old |-> FALSE])
          IN  \/ UNCHANGED pieces
              \/ chunks' = << >> /\ tries' = 0
              \/ chunks' = b /\ tries' = tries /\ Parsed(b) = "bare"
              \/ chunks' = b /\ tries' = tries + 1 /\ ~(tries > MaxChunkedFrames)
    BY DEF OnMessage
  <1> DEFINE p == [kind |-> kind, old |-> FALSE]
             b == Append(chunks, p)
  <1>3. p \in PieceSet /\ chunks \in Seq(PieceSet) /\ tries \in Nat
    BY DEF PieceSet, PiecesInv
  <1>4. /\ b \in Seq(PieceSet) /\ b # << >> /\ Len(b) = Len(chunks) + 1
        /\ chunks # << >> => b[1] = chunks[1]
        /\ \A i \in DOMAIN b : ~b[i].old
    <2>1. ~p.old
      OBVIOUS
    <2> QED
      BY <1>3, <2>1, FirstPiece DEF PiecesInv, PiecesSinceConnect
  <1>5. CASE UNCHANGED pieces
    BY <1>5
    DEF pieces, PiecesInv, PiecesSinceConnect, NoPiecesNoTries
  <1>6. CASE chunks' = << >> /\ tries' = 0
    BY <1>6, NoPieces
  <1>7. CASE chunks' = b /\ tries' = tries /\ Parsed(b) = "bare"
    <2>1. b[1].kind = "bare"
      BY <1>7 DEF Parsed
    <2> QED
      BY <1>3, <1>4, <1>7, <2>1
      DEF PiecesInv, PiecesSinceConnect, NoPiecesNoTries
  <1>8. CASE chunks' = b /\ tries' = tries + 1 /\ ~(tries > MaxChunkedFrames)
    <2>1. b[1].kind # "bare" => tries + 1 = Len(b)
      <3>1. CASE chunks = << >>
        BY <1>3, <1>4, <3>1, FirstPiece DEF PiecesInv, NoPiecesNoTries
      <3>2. CASE chunks # << >>
        BY <1>3, <1>4, <3>2 DEF PiecesInv, PiecesSinceConnect
      <3> QED
        BY <3>1, <3>2
    <2>2. tries + 1 <= MaxChunkedFrames + 1 /\ tries + 1 \in Nat
      BY <1>3, <1>8, NumbersType
    <2> QED
      BY <1>4, <1>8, <2>1, <2>2
      DEF PiecesInv, PiecesSinceConnect, NoPiecesNoTries
  <1> QED
    BY <1>2, <1>5, <1>6, <1>7, <1>8

-----------------------------------------------------------------------------
(* The invariant *)

LEMMA OnMessageInv ==
  ASSUME RestInv, NEW s \in Sockets, OnMessage(s)
  PROVE  RestInv'
PROOF
  <1>1. /\ MainIdle /\ Open(s)
        /\ UNCHANGED <<conn, sig, dropping, stale>>
    BY DEF OnMessage
  <1>2. Command(s) \/ Quiet
    BY DEF OnMessage
  <1>3. Command(s)
    BY <1>2 DEF Command
  <1> QED
    BY <1>1, <1>3, CommandInv

LEMMA ConnectInv ==
  ASSUME RestInv, NEW s \in Sockets, Connect(s)
  PROVE  RestInv' /\ PiecesInv'
PROOF
  <1>1. /\ Established(s) /\ chunks' = << >> /\ tries' = 0
        /\ UNCHANGED <<buffers, config, client, session, main, sig, dropping,
                       stale>>
    BY DEF Connect
  <1>2. RestInv'
    BY <1>1, EstablishedInv
  <1> QED
    BY <1>1, <1>2, NoPieces

LEMMA ServerInvariant == Spec => [](RestInv /\ PiecesInv)
PROOF
  <1>1. RestInv /\ PiecesInv /\ [Next]_vars => (RestInv /\ PiecesInv)'
    <2> SUFFICES ASSUME RestInv, PiecesInv, [Next]_vars
                 PROVE  RestInv' /\ PiecesInv'
      OBVIOUS
    <2> DEFINE SamePieces == UNCHANGED <<chunks, tries>>
    <2>1. SamePieces => PiecesInv'
      BY DEF PiecesInv, PiecesSinceConnect, NoPiecesNoTries
    <2>2. CASE OnDisconnect
      BY <2>1, <2>2, OnDisconnectInv DEF OnDisconnect, pieces
    <2>3. CASE Stop
      BY <2>1, <2>3, StopInv DEF Stop, pieces
    <2>4. CASE Erase
      BY <2>1, <2>4, EraseInv DEF Erase, pieces
    <2>5. CASE Deliver
      BY <2>1, <2>5, DeliverInv DEF Deliver, pieces
    <2>6. CASE DeliverQueue
      BY <2>1, <2>6, DeliverQueueInv DEF DeliverQueue, pieces
    <2>7. CASE DeliverAsk
      BY <2>1, <2>7, DeliverAskInv DEF DeliverAsk, pieces
    <2>8. CASE IceFails
      BY <2>1, <2>8, IceFailsInv DEF IceFails, pieces
    <2>9. CASE Drop
      BY <2>1, <2>9, DropInv DEF Drop, pieces
    <2>10. CASE DropClient
      BY <2>1, <2>10, DropClientInv DEF DropClient, pieces
    <2>10a. CASE StartSession
      BY <2>1, <2>10a, StartSessionInv DEF StartSession, pieces
    <2>10b. CASE WalkOn
      BY <2>1, <2>10b, WalkOnInv DEF WalkOn, pieces
    <2>10c. CASE UseErased
      BY <2>10c, UseErasedInv
    <2>10d. CASE CloseRuntime
      BY <2>1, <2>10d, CloseRuntimeInv DEF CloseRuntime, pieces
    <2>10e. CASE DropReset
      BY <2>1, <2>10e, DropResetInv DEF DropReset, pieces
    <2>10f. CASE DropStop
      BY <2>1, <2>10f, DropStopInv DEF DropStop, pieces
    <2>10g. CASE Restart
      BY <2>1, <2>10g, RestartInv DEF Restart, pieces
    <2>11. ASSUME NEW s \in Sockets, Connect(s) PROVE RestInv' /\ PiecesInv'
      BY <2>11, ConnectInv
    <2>12. ASSUME NEW s \in Sockets, Writeable(s) PROVE RestInv' /\ PiecesInv'
      BY <2>1, <2>12, WriteableInv DEF Writeable, pieces
    <2>13. ASSUME NEW s \in Sockets, Hangup(s) PROVE RestInv' /\ PiecesInv'
      BY <2>1, <2>13, HangupInv DEF Hangup, pieces
    <2>14. ASSUME NEW s \in Sockets, OnMessage(s) PROVE RestInv' /\ PiecesInv'
      BY <2>14, OnMessageInv, OnMessagePieces
    <2>15. CASE UNCHANGED vars
      <3>1. RestInv'
        BY <2>15
        DEF vars, buffers, RestInv, TablesType, RecordsType, SessionInv,
            Handling, ClientOpen, Sending, HadSession, Walking, Erased,
            SessionHasClient, Open, ConfigInv, ConfigOfConnection, ConfigGone,
            BufferInv, AnsweredUnlessBurst, Waiting, Reserved, RuntimeInUse
      <3> QED
        BY <2>1, <2>15, <3>1 DEF vars, pieces
    <2> QED
      BY <2>2, <2>3, <2>4, <2>5, <2>6, <2>7, <2>8, <2>9, <2>10, <2>10a, <2>10b,
         <2>10c, <2>10d, <2>10e, <2>10f, <2>10g, <2>11, <2>12, <2>13, <2>14,
         <2>15
      DEF Next, Callbacks, Deliveries, Drops
  <1>2. Init => RestInv /\ PiecesInv
    BY BootInv DEF Init
  <1> QED
    BY <1>1, <1>2, PTL DEF Spec

(* Every variable keeps its type, for any bounds; no runtime ever has more  *)
(* messages than the bound, with one on its way from the signaling thread.  *)
THEOREM ServerTypeCorrect == Spec => []TypeOK
PROOF
  <1>1. RestInv /\ PiecesInv => TypeOK
    BY DEF RestInv, TablesType, RecordsType, ClientSet, SessionSet, MainSet,
           SigSet, PiecesInv, PieceSet, TypeOK
  <1> QED
    BY <1>1, ServerInvariant, PTL

(* The signaling thread, which takes no lock, never uses the runtime it     *)
(* looks for after it was erased, when it sends or when it drops a client   *)
(* that had the session: who leaves the client slot does so on the main     *)
(* thread, which then waits for it (AppWsClient::OnDisconnect,              *)
(* LibWebSocketServer::SendMessage).  It may use another connection's, and  *)
(* that of a client it drops too late (LibWebSocketServer::Close).          *)
THEOREM RuntimeStaysInUse == Spec => []RuntimeInUse
PROOF
  <1>1. RestInv => RuntimeInUse
    BY DEF RestInv
  <1> QED
    BY <1>1, ServerInvariant, PTL

(* A message waits without a callback to come only after a burst            *)
(* (LibWebSocketServer::SendMessage, LWS_CALLBACK_SERVER_WRITEABLE).        *)
THEOREM MessagesAreAnswered == Spec => []AnsweredUnlessBurst
PROOF
  <1>1. RestInv => AnsweredUnlessBurst
    BY DEF RestInv, BufferInv
  <1> QED
    BY <1>1, ServerInvariant, PTL

(* A descriptor that is used again has no configuration of the connection   *)
(* before, and a session begun by its own client's connection has that      *)
(* one's, except while a drop is under way that has reset the client        *)
(* (SessionConfig, AppWsClient::OnDisconnect, AppWsClient::OnMessage).      *)
THEOREM ConfigIsConnections == Spec => []ConfigOfConnection
PROOF
  <1>1. RestInv => ConfigOfConnection
    BY DEF RestInv, ConfigInv
  <1> QED
    BY <1>1, ServerInvariant, PTL

(* The pieces of a message are never older than the newest connection, and  *)
(* there are no more of them than are counted (AppWsClient::OnMessage).     *)
THEOREM PiecesAreNew == Spec => []PiecesSinceConnect
PROOF
  <1>1. PiecesInv => PiecesSinceConnect
    BY DEF PiecesInv
  <1> QED
    BY <1>1, ServerInvariant, PTL

-----------------------------------------------------------------------------
(* LineBuffer: places of bytes *)

LEMMA LeastNumber ==
  ASSUME NEW T, T \subseteq Nat, T # {}
  PROVE  \E x \in T : \A y \in T : x <= y
<1> DEFINE R == {ij \in Nat \X Nat : ij[1] < ij[2]}
<1>1. IsWellFoundedOn(R, Nat)
  BY NatLessThanWellFounded DEF OpToRel
<1>2. PICK x \in T : \A y \in T : <<y, x>> \notin R
  <2> HIDE DEF R
  <2> QED BY <1>1, WFMin
<1>3. ASSUME NEW y \in T PROVE x <= y
  <2>1. /\ <<y, x>> \notin R /\ <<y, x>> \in Nat \X Nat
        /\ y \in Nat /\ x \in Nat
    BY <1>2
  <2>2. ~(<<y, x>>[1] < <<y, x>>[2])
    BY <2>1
  <2> QED BY <2>1, <2>2
<1> QED BY <1>3

(* Before(E, e) is 0 or an element of E before e, and none comes between.   *)
LEMMA BeforeIs ==
  ASSUME NEW E, E \subseteq Nat, NEW e \in Nat
  PROVE  /\ Before(E, e) \in Nat
         /\ Before(E, e) = 0 \/ (Before(E, e) \in E /\ Before(E, e) < e)
         /\ \A d \in E : d < e => d <= Before(E, e)
<1> DEFINE S == {0} \cup {d \in E : d < e}
           T == {x \in Nat : \A y \in S : y <= x}
<1>1. S \subseteq Nat /\ e \in T
  <2>1. ASSUME NEW y \in S PROVE y \in Nat
    <3>1. CASE y = 0
      BY <3>1
    <3>2. CASE y \in E
      BY <3>2
    <3> QED BY <2>1, <3>1, <3>2
  <2>2. ASSUME NEW y \in S PROVE y <= e
    <3>1. CASE y = 0
      BY <3>1
    <3>2. CASE y \in E /\ y < e
      BY <3>2
    <3> QED BY <2>2, <3>1, <3>2
  <2> QED BY <2>1, <2>2
<1>2. PICK x \in T : \A y \in T : x <= y
  <2>1. T \subseteq Nat /\ T # {}
    BY <1>1
  <2> HIDE DEF T
  <2> QED BY <2>1, LeastNumber
<1>3. x \in S
  <2> SUFFICES ASSUME x \notin S PROVE FALSE
    OBVIOUS
  <2>1. x \in Nat /\ x # 0 /\ \A y \in S : y < x
    BY <1>1, <1>2
  <2>2. x - 1 \in T
    BY <1>1, <2>1
  <2> QED BY <1>2, <2>1, <2>2
<1>4. \E z \in S : \A y \in S : z >= y
  BY <1>1, <1>2, <1>3
<1>5. Before(E, e) \in S /\ \A y \in S : Before(E, e) >= y
  BY <1>4 DEF Before, Max
<1> QED BY <1>1, <1>5

LEMMA BeforeEquals ==
  ASSUME NEW E, E \subseteq Nat, NEW e \in Nat, NEW b \in Nat,
         b = 0 \/ (b \in E /\ b < e), \A d \in E : d < e => d <= b
  PROVE  Before(E, e) = b
<1>1. PICK x : x = Before(E, e)
  OBVIOUS
<1>2. /\ x \in Nat /\ (x = 0 \/ (x \in E /\ x < e))
      /\ \A d \in E : d < e => d <= x
  BY <1>1, BeforeIs
<1>3. x <= b /\ b <= x
  BY <1>2
<1> QED BY <1>1, <1>2, <1>3

LEMMA PlacesType ==
  ASSUME NEW m \in Nat, NEW n \in Nat, m <= n, n <= MaxRead
  PROVE  /\ Places(m, n) \in Seq(Place)
         /\ Len(Places(m, n)) = n - m
         /\ \A i \in 1..(n - m) : Places(m, n)[i] = m + i
<1>1. MaxRead \in Nat
  BY LineBufferAssumption
<1>2. \A i \in 1..(n - m) : m + i \in Place
  BY <1>1 DEF Place
<1> QED BY <1>2, IsASeq DEF Places

LEMMA PlacesJoin ==
  ASSUME NEW m \in Nat, NEW n \in Nat, NEW o \in Nat, m <= n, n <= o, o <= MaxRead
  PROVE  Places(m, n) \o Places(n, o) = Places(m, o)
<1>1. MaxRead \in Nat /\ n <= MaxRead /\ m <= o
  BY LineBufferAssumption
<1>2. PICK s, t, u : s = Places(m, n) /\ t = Places(n, o) /\ u = Places(m, o)
  OBVIOUS
<1>3. /\ s \in Seq(Place) /\ Len(s) = n - m /\ \A i \in 1..(n - m) : s[i] = m + i
      /\ t \in Seq(Place) /\ Len(t) = o - n /\ \A i \in 1..(o - n) : t[i] = n + i
      /\ u \in Seq(Place) /\ Len(u) = o - m /\ \A i \in 1..(o - m) : u[i] = m + i
  BY <1>1, <1>2, PlacesType
<1>4. /\ s \o t \in Seq(Place) /\ Len(s \o t) = (n - m) + (o - n)
      /\ \A i \in 1..((n - m) + (o - n)) :
           (s \o t)[i] = IF i <= n - m THEN s[i] ELSE t[i - (n - m)]
  <2>1. /\ s \o t \in Seq(Place) /\ Len(s \o t) = Len(s) + Len(t)
        /\ \A i \in 1..(Len(s) + Len(t)) :
             (s \o t)[i] = IF i <= Len(s) THEN s[i] ELSE t[i - Len(s)]
    <3>1. s \in Seq(Place) /\ t \in Seq(Place)
      BY <1>3
    <3> QED BY <3>1, ConcatProperties
  <2> QED BY <1>3, <2>1
<1>5. Len(s \o t) = Len(u)
  BY <1>3, <1>4
<1>6. ASSUME NEW i \in 1..Len(u) PROVE (s \o t)[i] = u[i]
  <2>1. i \in 1..(o - m) /\ (o - m) = (n - m) + (o - n)
    BY <1>3
  <2>2. CASE i <= n - m
    BY <1>3, <1>4, <2>1, <2>2
  <2>3. CASE ~(i <= n - m)
    <3>1. i - (n - m) \in 1..(o - n)
      BY <2>1, <2>3
    <3>2. t[i - (n - m)] = n + (i - (n - m))
      BY <1>3, <3>1
    <3> QED BY <1>3, <1>4, <2>1, <2>3, <3>1, <3>2
  <2> QED BY <2>1, <2>2, <2>3
<1>7. s \o t = u
  <2>1. PICK c : c = s \o t
    OBVIOUS
  <2>2. c \in Seq(Place) /\ Len(c) = Len(u) /\ \A i \in 1..Len(c) : c[i] = u[i]
    BY <1>4, <1>5, <1>6, <2>1
  <2> QED BY <1>3, <2>1, <2>2, SeqEqual
<1> QED BY <1>2, <1>7

Part(m, n, first, last) == SubSeq(Places(m, n), first, last)

LEMMA PlacesCut ==
  ASSUME NEW b \in Nat, NEW n \in Nat, b <= n, n <= MaxRead,
         NEW first \in Nat, NEW y \in Nat, 1 <= first, first <= y + 1,
         NEW start \in Nat, start + 1 = b + first, NEW stop \in Nat, stop = b + y, stop <= n
  PROVE  Part(b, n, first, y) = Places(start, stop)
<1>1. PICK s, t : s = Places(b, n) /\ t = Places(start, stop)
  OBVIOUS
<1>10. PICK x \in Nat : first = x + 1 /\ x <= y /\ start = b + x
  <2>1. /\ first - 1 \in Nat /\ first = (first - 1) + 1 /\ first - 1 <= y
        /\ start = b + (first - 1)
    OBVIOUS
  <2> QED BY <2>1
<1>2. /\ MaxRead \in Nat /\ start \in Nat /\ stop \in Nat /\ start <= stop /\ stop <= MaxRead
      /\ stop - start = y - x
  BY <1>10, LineBufferAssumption
<1>3. /\ s \in Seq(Place) /\ Len(s) = n - b /\ \A i \in 1..(n - b) : s[i] = b + i
      /\ t \in Seq(Place) /\ Len(t) = y - x /\ \A i \in 1..(y - x) : t[i] = (b + x) + i
  <2>1. /\ s \in Seq(Place) /\ Len(s) = n - b /\ \A i \in 1..(n - b) : s[i] = b + i
    BY <1>1, <1>2, PlacesType
  <2>2. /\ t \in Seq(Place) /\ Len(t) = stop - start
        /\ \A i \in 1..(stop - start) : t[i] = start + i
    BY <1>1, <1>2, PlacesType
  <2> QED BY <1>2, <1>10, <2>1, <2>2
<1>4. \A i \in (x + 1)..y : s[i] \in Place
  BY <1>3, ElementOfSeq
<1>5. PICK c : c = SubSeq(s, x + 1, y)
  OBVIOUS
<1>6. /\ c \in Seq(Place)
      /\ Len(c) = IF x + 1 <= y THEN y - (x + 1) + 1 ELSE 0
      /\ \A i \in 1..(y - (x + 1) + 1) : c[i] = s[(x + 1) + i - 1]
  BY <1>4, <1>5, SubSeqProperties
<1>7. Len(c) = y - x /\ \A i \in 1..(y - x) : c[i] = t[i]
  <2>1. y - (x + 1) + 1 = y - x
    OBVIOUS
  <2>2. ASSUME NEW i \in 1..(y - x) PROVE c[i] = t[i]
    <3>1. (x + 1) + i - 1 = x + i /\ x + i \in 1..(n - b)
      OBVIOUS
    <3>2. s[x + i] = b + (x + i)
      BY <1>3, <3>1
    <3> QED BY <1>3, <1>6, <2>1, <3>1, <3>2
  <2>3. Len(c) = y - x
    BY <1>6, <1>10
  <2> QED BY <2>2, <2>3
<1>8. c = t
  BY <1>3, <1>6, <1>7, SeqEqual
<1>9. c = Part(b, n, first, y) /\ t = Places(start, stop)
  BY <1>1, <1>5, <1>10 DEF Part
<1> QED BY <1>8, <1>9

-----------------------------------------------------------------------------
(* LineBuffer: the inductive invariant *)

(* Bytes of a client come after those of the clients before it, and end     *)
(* messages to its own session.                                             *)
InTurn ==
  /\ \A p \in 1..Len(stream) : stream[p].of <= native
  /\ \A p, q \in 1..Len(stream) : p <= q => stream[p].of <= stream[q].of
  /\ \A l \in lines : stream[l.end].of = l.to

LineInv == LineTypeOK /\ LinesAreWhole /\ InTurn

LEMMA EndsAre ==
  ASSUME LineTypeOK
  PROVE  /\ Len(stream) \in Nat /\ MaxRead \in Nat /\ MaxNative \in Nat
         /\ Ends \subseteq 1..Len(stream) /\ Ends \subseteq Nat
         /\ \A p \in 1..Len(stream) : stream[p] \in Byte
<1>1. Len(stream) \in Nat /\ \A p \in 1..Len(stream) : stream[p] \in Byte
  BY LenProperties, ElementOfSeq DEF LineTypeOK
<1> QED BY <1>1, LineBufferAssumption DEF Ends

(* A byte of another client in a message to l.to comes before all bytes of  *)
(* l.to, and no delimiter comes between.                                    *)
LEMMA MixedIsFirst == LineInv => OnlyFirstIsMixed
<1> SUFFICES ASSUME LineInv, NEW l \in lines
             PROVE  /\ stream[l.end].of = l.to
                    /\ \A i \in DOMAIN l.bytes : stream[l.bytes[i]].of # l.to =>
                         \A m \in lines : m.to = l.to => l.end <= m.end
  BY DEF OnlyFirstIsMixed
<1> SUFFICES ASSUME NEW i \in DOMAIN l.bytes, stream[l.bytes[i]].of # l.to,
                    NEW m \in lines, m.to = l.to, ~(l.end <= m.end)
             PROVE  FALSE
  BY DEF LineInv, InTurn
<1>1. PICK n, b, f : n = Len(stream) /\ b = Before(Ends, l.end) /\ f = l.bytes[i]
  OBVIOUS
<1>2. /\ n \in Nat /\ Ends \subseteq 1..n /\ Ends \subseteq Nat /\ n <= MaxRead /\ MaxRead \in Nat
      /\ \A p \in 1..n : stream[p] \in Byte
  BY <1>1, EndsAre DEF LineInv, LineTypeOK
<1>3. /\ l.end \in Ends /\ m.end \in Ends /\ l.end \in 1..n /\ m.end \in 1..n
      /\ l.bytes = Places(b, l.end - 1)
  BY <1>1, <1>2 DEF LineInv, LinesAreWhole
<1>4. b \in Nat /\ b < l.end /\ m.end <= b
  <2>1. PICK e, d : e = l.end /\ d = m.end
    OBVIOUS
  <2>2. e \in Nat \ {0} /\ d \in Nat /\ d \in Ends /\ d < e
    BY <1>2, <1>3, <2>1
  <2>3. b \in Nat /\ (b = 0 \/ (b \in Ends /\ b < e)) /\ d <= b
    BY <1>1, <1>2, <2>1, <2>2, BeforeIs
  <2> QED BY <2>1, <2>2, <2>3
<1>5. i \in 1..((l.end - 1) - b) /\ f = b + i
  <2>1. /\ l.end - 1 \in Nat /\ b <= l.end - 1 /\ l.end - 1 <= MaxRead
    BY <1>2, <1>3, <1>4
  <2>2. PICK e : e = l.end - 1
    OBVIOUS
  <2>3. /\ Places(b, e) \in Seq(Place) /\ Len(Places(b, e)) = e - b
        /\ \A j \in 1..(e - b) : Places(b, e)[j] = b + j
    BY <1>4, <2>1, <2>2, PlacesType
  <2>4. DOMAIN Places(b, e) = 1..(e - b)
    BY <2>3, LenProperties
  <2> QED BY <1>1, <1>3, <2>2, <2>3, <2>4
<1>6. f \in 1..n /\ m.end <= f /\ f <= l.end
  BY <1>2, <1>3, <1>4, <1>5
<1>7. stream[m.end].of <= stream[f].of /\ stream[f].of <= stream[l.end].of
  BY <1>1, <1>3, <1>6 DEF LineInv, InTurn
<1>8. stream[m.end].of = l.to /\ stream[l.end].of = l.to
  BY DEF LineInv, InTurn
<1>9. stream[f].of \in Nat /\ l.to \in Nat
  BY <1>2, <1>3, <1>6, <1>8 DEF Byte
<1> QED BY <1>1, <1>7, <1>8, <1>9

LEMMA LineInitInv == LineInit => LineInv
<1> SUFFICES ASSUME LineInit PROVE LineInv
  OBVIOUS
<1>1. native = 0 /\ attached = FALSE /\ stream = <<>> /\ rest = <<>> /\ lines = {}
  BY DEF LineInit
<1>2. Len(stream) = 0 /\ MaxNative \in Nat /\ MaxRead \in Nat
  BY <1>1, LineBufferAssumption
<1>3. LineTypeOK
  <2>1. <<>> \in Seq(Byte) /\ <<>> \in Seq(Place)
    BY EmptySeq
  <2>2. 0 \in 0..MaxNative /\ 0 <= MaxRead
    BY <1>2
  <2>3. {} \subseteq [end : Place, bytes : Seq(Place), to : 1..MaxNative]
    OBVIOUS
  <2>4. /\ native \in 0..MaxNative /\ attached = FALSE /\ Len(stream) <= MaxRead
        /\ stream \in Seq(Byte) /\ rest \in Seq(Place)
    BY <1>1, <1>2, <2>1, <2>2
  <2> QED BY <1>1, <2>3, <2>4 DEF LineTypeOK
<1>4. Ends = {}
  BY <1>2 DEF Ends
<1>5. Before(Ends, Len(stream) + 1) = 0
  <2>1. PICK e : e = Len(stream) + 1
    OBVIOUS
  <2>2. e \in Nat /\ Ends \subseteq Nat
    BY <1>2, <1>4, <2>1
  <2>3. Before(Ends, e) = 0 \/ Before(Ends, e) \in Ends
    BY <2>2, BeforeIs
  <2> QED BY <1>4, <2>1, <2>3
<1>6. Places(0, 0) = <<>>
  <2>1. Places(0, 0) \in Seq(Place) /\ Len(Places(0, 0)) = 0
    BY <1>2, PlacesType
  <2> QED BY <2>1, EmptySeq
<1>7. LinesAreWhole /\ InTurn
  BY <1>1, <1>2, <1>4, <1>5, <1>6 DEF LinesAreWhole, InTurn
<1> QED BY <1>3, <1>7 DEF LineInv

(* What a read finds: the bytes from the last delimiter on, and delimiters  *)
(* only among the new ones.                                                 *)
LEMMA OnReadInv ==
  ASSUME LineInv, NEW k \in 1..MaxRead, NEW chunk \in [1..k -> BOOLEAN], OnRead(chunk)
  PROVE  LineInv'
<1> DEFINE bytes0 == stream \o [i \in 1..k |-> [of |-> native, ends |-> chunk[i]]]
<1>1. PICK n, b, bytes : n = Len(stream) /\ b = Before(Ends, n + 1) /\ bytes = bytes0
  OBVIOUS
<1> HIDE DEF bytes0
<1>2. /\ n \in Nat /\ MaxRead \in Nat /\ MaxNative \in Nat /\ k \in Nat \ {0}
      /\ Ends \subseteq 1..n /\ Ends \subseteq Nat
      /\ \A p \in 1..n : stream[p] \in Byte
  BY <1>1, EndsAre DEF LineInv
<1>3. Len(chunk) = k
  <2>1. chunk \in Seq(BOOLEAN)
    BY <1>2, IsASeq
  <2> QED BY <1>2, <2>1, LenProperties
<1>4. PICK N : N = n + k
  OBVIOUS
<1>5. N \in Nat /\ n < N /\ N <= MaxRead
  BY <1>1, <1>2, <1>3, <1>4 DEF OnRead
<1>6. b \in Nat /\ b <= n /\ (b = 0 \/ b \in Ends) /\ \A d \in Ends : d <= b
  <2>1. PICK e : e = n + 1
    OBVIOUS
  <2>2. e \in Nat
    BY <1>2, <2>1
  <2>3. /\ b \in Nat /\ (b = 0 \/ (b \in Ends /\ b < e))
        /\ \A d \in Ends : d < e => d <= b
    BY <1>1, <1>2, <2>1, <2>2, BeforeIs
  <2> QED BY <1>2, <2>1, <2>3
<1>7. native \in 1..MaxNative
  BY <1>2 DEF OnRead, LineInv, LineTypeOK
<1>8. /\ bytes \in Seq(Byte) /\ Len(bytes) = N
      /\ \A p \in 1..n : bytes[p] = stream[p]
      /\ \A p \in (n + 1)..N : bytes[p] \in Byte /\ bytes[p].of = native
  <2>1. PICK t : t = [i \in 1..k |-> [of |-> native, ends |-> chunk[i]]]
    OBVIOUS
  <2>2. \A i \in 1..k : [of |-> native, ends |-> chunk[i]] \in Byte
    BY <1>7 DEF Byte
  <2>3. t \in Seq(Byte) /\ Len(t) = k /\ \A i \in 1..k : t[i].of = native /\ t[i] \in Byte
    <3>1. t \in [1..k -> Byte]
      BY <2>1, <2>2
    <3>2. t \in Seq(Byte)
      BY <1>2, <3>1, IsASeq
    <3> QED BY <1>2, <2>1, <3>1, <3>2, LenProperties
  <2>4. bytes = stream \o t /\ stream \in Seq(Byte)
    BY <1>1, <2>1 DEF bytes0, LineInv, LineTypeOK
  <2>5. /\ bytes \in Seq(Byte) /\ Len(bytes) = n + k
        /\ \A p \in 1..(n + k) : bytes[p] = IF p <= n THEN stream[p] ELSE t[p - n]
    <3>1. /\ stream \o t \in Seq(Byte) /\ Len(stream \o t) = Len(stream) + Len(t)
          /\ \A p \in 1..(Len(stream) + Len(t)) :
               (stream \o t)[p] = IF p <= Len(stream) THEN stream[p] ELSE t[p - Len(stream)]
      <4>1. stream \in Seq(Byte) /\ t \in Seq(Byte)
        BY <2>3, <2>4
      <4> QED BY <4>1, ConcatProperties
    <3>2. Len(stream) = n /\ Len(t) = k /\ bytes = stream \o t
      BY <1>1, <2>3, <2>4
    <3> QED BY <3>1, <3>2
  <2>6. ASSUME NEW p \in (n + 1)..N PROVE bytes[p] \in Byte /\ bytes[p].of = native
    <3>1. p \in 1..(n + k) /\ ~(p <= n) /\ p - n \in 1..k
      BY <1>2, <1>4
    <3> QED BY <2>3, <2>5, <3>1
  <2> QED BY <1>2, <1>4, <2>5, <2>6
<1>9. \A p \in 1..N : bytes[p] \in Byte
  BY <1>2, <1>4, <1>8
<1>10. PICK s : s = Places(b, N)
  OBVIOUS
<1>101. /\ b \in Nat /\ n \in Nat /\ N \in Nat /\ MaxRead \in Nat
        /\ b <= n /\ n <= N /\ b <= N /\ N <= MaxRead
  BY <1>2, <1>5, <1>6
<1>11. /\ s \in Seq(Place) /\ Len(s) = N - b
       /\ \A i \in 1..(N - b) : s[i] = b + i
  BY <1>10, <1>101, PlacesType
<1>12. rest \o Places(n, N) = s
  <2>1. rest = Places(b, n)
    BY <1>1 DEF LineInv, LinesAreWhole
  <2>2. Places(b, n) \o Places(n, N) = Places(b, N)
    BY <1>101, PlacesJoin
  <2> QED BY <1>10, <2>1, <2>2
<1>13. PICK E : E = Delimiters(s, bytes)
  OBVIOUS
<1>14. /\ E \subseteq 1..(N - b) /\ E \subseteq Nat
       /\ \A i \in 1..(N - b) : i \in E <=> bytes[b + i].ends
  BY <1>5, <1>6, <1>11, <1>13 DEF Delimiters
<1>15. /\ stream' = bytes /\ native' = native /\ attached' = attached
       /\ lines' = lines \cup {[end |-> s[e], bytes |-> SubSeq(s, Before(E, e) + 1, e - 1),
                                to |-> native] : e \in E}
       /\ rest' = Left(s, E)
  BY <1>1, <1>3, <1>4, <1>12, <1>13 DEF OnRead, bytes0
<1>16. PICK D : D = {p \in 1..N : bytes[p].ends}
  OBVIOUS
<1>17. /\ D = Ends' /\ D \subseteq Nat
       /\ \A p \in 1..n : p \in D <=> p \in Ends
       /\ \A i \in 1..(N - b) : b + i \in D <=> i \in E
       /\ \A p \in D : p > b => p - b \in E
  <2>1. D = Ends'
    BY <1>8, <1>15, <1>16 DEF Ends
  <2>2. \A p \in 1..n : p \in D <=> p \in Ends
    BY <1>1, <1>5, <1>8, <1>16 DEF Ends
  <2>3. ASSUME NEW i \in 1..(N - b) PROVE b + i \in D <=> i \in E
    <3>1. b + i \in 1..N
      BY <1>5, <1>6
    <3> QED BY <1>14, <1>16, <3>1
  <2>4. ASSUME NEW p \in D, p > b PROVE p - b \in E
    <3>1. p - b \in 1..(N - b) /\ b + (p - b) = p
      BY <1>5, <1>6, <1>16, <2>4
    <3>2. b + (p - b) \in D
      BY <3>1
    <3> QED BY <2>3, <3>1, <3>2
  <2> QED BY <1>16, <2>1, <2>2, <2>3, <2>4
<1>18. ASSUME NEW e \in 1..(N - b + 1)
       PROVE  /\ Before(E, e) \in Nat /\ Before(E, e) <= e - 1
              /\ Before(D, b + e) = b + Before(E, e)
  <2>1. PICK x : x = Before(E, e)
    OBVIOUS
  <2>2. e \in Nat /\ b + e \in Nat /\ e > 0
    BY <1>5, <1>6
  <2>3. /\ x \in Nat /\ (x = 0 \/ (x \in E /\ x < e))
        /\ \A d \in E : d < e => d <= x
    BY <1>14, <2>1, <2>2, BeforeIs
  <2>4. x \in Nat /\ x <= e - 1
    BY <1>14, <2>2, <2>3
  <2>5. b + x \in Nat /\ (b + x = 0 \/ (b + x \in D /\ b + x < b + e))
    <3>1. CASE x = 0
      BY <1>6, <1>2, <1>17, <2>2, <3>1
    <3>2. CASE x \in E
      BY <1>6, <1>14, <1>17, <2>2, <2>4, <3>2
    <3> QED BY <2>3, <3>1, <3>2
  <2>6. ASSUME NEW d \in D, d < b + e PROVE d <= b + x
    <3>1. CASE d > b
      <4>1. d - b \in E /\ d \in Nat
        BY <1>17, <3>1
      <4>2. d - b < e
        BY <1>6, <2>2, <2>6, <4>1
      <4>3. d - b <= x
        BY <2>3, <4>1, <4>2
      <4> QED BY <1>6, <2>4, <4>1, <4>3
    <3>2. CASE ~(d > b)
      BY <1>6, <1>17, <2>4, <3>2
    <3> QED BY <3>1, <3>2
  <2>7. Before(D, b + e) = b + x
    <3>1. PICK y : y = b + x
      OBVIOUS
    <3>2. /\ y \in Nat /\ (y = 0 \/ (y \in D /\ y < b + e))
          /\ \A d \in D : d < b + e => d <= y
      BY <2>5, <2>6, <3>1
    <3>3. Before(D, b + e) = y
      BY <1>17, <2>2, <3>2, BeforeEquals
    <3> QED BY <3>1, <3>3
  <2> QED BY <2>1, <2>4, <2>7
<1>19. ASSUME NEW e \in E
       PROVE  /\ s[e] = b + e /\ b + e \in D /\ b + e \in (n + 1)..N
              /\ SubSeq(s, Before(E, e) + 1, e - 1) = Places(Before(D, b + e), b + e - 1)
              /\ SubSeq(s, Before(E, e) + 1, e - 1) \in Seq(Place)
  <2>1. e \in 1..(N - b) /\ e \in 1..(N - b + 1)
    BY <1>5, <1>6, <1>14
  <2>2. PICK x : x = Before(E, e)
    OBVIOUS
  <2>3. x \in Nat /\ x <= e - 1 /\ Before(D, b + e) = b + x /\ e - 1 \in Nat /\ e - 1 <= N - b
    BY <1>5, <1>6, <1>18, <2>1, <2>2
  <2>4. SubSeq(s, x + 1, e - 1) = Places(b + x, b + (e - 1))
    <3>1. PICK y : y = e - 1
      OBVIOUS
    <3>2. b <= N /\ y \in Nat /\ x <= y /\ y <= N - b
      BY <1>5, <1>6, <1>2, <2>3, <3>1
    <3>3. PICK first, start, stop : first = x + 1 /\ start = b + x /\ stop = b + y
      OBVIOUS
    <3>4. /\ first \in Nat /\ start \in Nat /\ stop \in Nat /\ 1 <= first
          /\ first <= y + 1 /\ start + 1 = b + first /\ stop = b + y
      BY <1>101, <2>3, <3>2, <3>3
    <3>7. /\ MaxRead \in Nat /\ b \in Nat /\ N \in Nat /\ b <= N /\ N <= MaxRead
          /\ first \in Nat /\ y \in Nat /\ 1 <= first /\ first <= y + 1
          /\ start \in Nat /\ start + 1 = b + first /\ stop \in Nat /\ stop = b + y /\ stop <= N
      BY <1>101, <3>2, <3>4
    <3>6. Part(b, N, first, y) = Places(start, stop)
      BY <3>7, PlacesCut
    <3>5. SubSeq(Places(b, N), x + 1, y) = Places(b + x, b + y)
      BY <3>3, <3>6 DEF Part
    <3> QED BY <1>10, <3>1, <3>5
  <2>5. b + (e - 1) = b + e - 1
    BY <1>6, <2>1
  <2>6. Places(b + x, b + (e - 1)) \in Seq(Place)
    <3>1. b + x \in Nat /\ b + (e - 1) \in Nat /\ b + x <= b + (e - 1) /\ b + (e - 1) <= MaxRead
      BY <1>2, <1>5, <1>6, <2>1, <2>3
    <3> QED BY <3>1, PlacesType
  <2>7. b + e \in D
    BY <1>17, <2>1
  <2>8. b + e \in (n + 1)..N
    <3>1. b + e \in 1..N /\ b + e > b
      BY <1>5, <1>6, <2>1
    <3>2. ~(b + e <= n)
      BY <1>2, <1>6, <1>17, <2>7, <3>1
    <3> QED BY <1>2, <1>5, <3>1, <3>2
  <2> QED BY <1>11, <2>1, <2>2, <2>3, <2>4, <2>5, <2>6, <2>7, <2>8
<1>20. ASSUME NEW l \in lines
       PROVE  /\ l.end \in Ends /\ l.end \in 1..n /\ l.end \in D
              /\ l.bytes = Places(Before(D, l.end), l.end - 1)
  <2>1. l.end \in Ends /\ l.bytes = Places(Before(Ends, l.end), l.end - 1)
    BY DEF LineInv, LinesAreWhole
  <2>2. l.end \in 1..n /\ l.end \in Nat /\ l.end \in D
    BY <1>2, <1>17, <2>1
  <2>3. PICK x : x = Before(Ends, l.end)
    OBVIOUS
  <2>4. /\ x \in Nat /\ (x = 0 \/ (x \in Ends /\ x < l.end))
        /\ \A d \in Ends : d < l.end => d <= x
    BY <1>2, <2>2, <2>3, BeforeIs
  <2>5. x = 0 \/ (x \in D /\ x < l.end)
    BY <1>2, <1>17, <2>4
  <2>51. \A d \in D : d < l.end => d <= x
    <3>1. ASSUME NEW d \in Nat, d < l.end PROVE d \in D <=> d \in Ends
      <4>1. CASE d = 0
        BY <1>2, <1>16, <4>1
      <4>2. CASE d # 0
        BY <1>2, <1>17, <2>2, <3>1, <4>2
      <4> QED BY <4>1, <4>2
    <3> QED BY <1>2, <1>17, <2>4, <3>1
  <2>6. Before(D, l.end) = x
    BY <1>17, <2>2, <2>4, <2>5, <2>51, BeforeEquals
  <2> QED BY <2>1, <2>2, <2>3, <2>6
<1>21. /\ Left(s, E) = Places(Before(D, N + 1), N)
       /\ Left(s, E) \in Seq(Place)
  <2>1. PICK e, x : e = N - b + 1 /\ x = Before(E, e)
    OBVIOUS
  <2>2. e \in 1..(N - b + 1) /\ b + e = N + 1 /\ e - 1 = N - b /\ N - b \in Nat
    BY <1>2, <1>5, <1>6, <2>1
  <2>3. x \in Nat /\ x <= N - b /\ Before(D, N + 1) = b + x
    <3>1. x \in Nat /\ x <= e - 1 /\ Before(D, b + e) = b + x
      BY <1>18, <2>1, <2>2
    <3> QED BY <2>2, <3>1
  <2>4. Left(s, E) = SubSeq(s, x + 1, N - b)
    BY <1>11, <2>1 DEF Left
  <2>5. SubSeq(s, x + 1, N - b) = Places(b + x, N)
    <3>1. PICK y : y = N - b
      OBVIOUS
    <3>2. b <= N /\ y \in Nat /\ x <= y /\ y <= N - b /\ b + y = N
      BY <1>5, <1>6, <1>2, <2>2, <2>3, <3>1
    <3>3. PICK first, start, stop : first = x + 1 /\ start = b + x /\ stop = b + y
      OBVIOUS
    <3>4. /\ first \in Nat /\ start \in Nat /\ stop \in Nat /\ 1 <= first
          /\ first <= y + 1 /\ start + 1 = b + first /\ stop = b + y
      BY <1>101, <2>3, <3>2, <3>3
    <3>6. Part(b, N, first, y) = Places(start, stop)
      BY <1>101, <3>2, <3>4, PlacesCut
    <3>5. SubSeq(Places(b, N), x + 1, y) = Places(b + x, b + y)
      BY <3>3, <3>6 DEF Part
    <3> QED BY <1>10, <3>1, <3>2, <3>5
  <2>6. Places(b + x, N) \in Seq(Place)
    <3>1. b + x \in Nat /\ b + x <= N
      BY <1>5, <1>6, <2>3
    <3> QED BY <1>5, <3>1, PlacesType
  <2> QED BY <2>3, <2>4, <2>5, <2>6
<1>22. ASSUME NEW l \in lines'
       PROVE  l \in lines \/ \E e \in E : l = [end |-> b + e, to |-> native,
                                               bytes |-> Places(Before(D, b + e), b + e - 1)]
  BY <1>15, <1>19
<1>23. LineTypeOK'
  <2>1. lines' \subseteq [end : Place, bytes : Seq(Place), to : 1..MaxNative]
    <3>1. ASSUME NEW e \in E
          PROVE  [end |-> s[e], bytes |-> SubSeq(s, Before(E, e) + 1, e - 1), to |-> native]
                   \in [end : Place, bytes : Seq(Place), to : 1..MaxNative]
      <4>1. s[e] \in Place
        BY <1>2, <1>5, <1>19 DEF Place
      <4> QED BY <1>7, <1>19, <4>1
    <3> QED BY <1>15, <3>1 DEF LineInv, LineTypeOK
  <2>2. stream' \in Seq(Byte) /\ Len(stream') <= MaxRead /\ rest' \in Seq(Place)
    BY <1>5, <1>8, <1>15, <1>21
  <2> QED BY <1>15, <2>1, <2>2 DEF LineInv, LineTypeOK
<1>24. LinesAreWhole'
  <2>1. ASSUME NEW l \in lines'
        PROVE  l.end \in D /\ l.bytes = Places(Before(D, l.end), l.end - 1)
    <3>1. CASE l \in lines
      BY <1>20, <3>1
    <3>2. CASE l \notin lines
      <4>1. PICK e \in E : l = [end |-> b + e, to |-> native,
                                bytes |-> Places(Before(D, b + e), b + e - 1)]
        BY <1>22, <3>2
      <4>2. l.end = b + e /\ l.bytes = Places(Before(D, b + e), b + e - 1)
        BY <4>1
      <4>3. PICK f : f = b + e
        OBVIOUS
      <4>4. l.end = f /\ l.bytes = Places(Before(D, f), f - 1)
        <5>1. b \in Nat /\ e \in Nat /\ f \in Nat
          BY <1>6, <1>14, <4>1, <4>3
        <5>2. f - 1 = b + e - 1
          BY <4>3, <5>1
        <5> QED BY <4>2, <4>3, <5>1, <5>2
      <4>5. f \in D
        BY <1>19, <4>1, <4>3
      <4> QED BY <4>4, <4>5
    <3> QED BY <3>1, <3>2
  <2>2. ASSUME NEW p \in D PROVE \E l \in lines' : l.end = p
    <3>1. CASE p > b
      <4>1. p - b \in E /\ b + (p - b) = p
        BY <1>6, <1>17, <3>1
      <4>2. s[p - b] = p
        BY <1>19, <4>1
      <4>3. PICK l : l = [end |-> s[p - b], to |-> native,
                          bytes |-> SubSeq(s, Before(E, p - b) + 1, (p - b) - 1)]
        OBVIOUS
      <4>4. l \in lines' /\ l.end = p
        BY <1>15, <4>1, <4>2, <4>3
      <4> QED BY <4>4
    <3>2. CASE ~(p > b)
      <4>1. p \in Ends
        BY <1>2, <1>6, <1>16, <1>17, <3>2
      <4> QED BY <1>15, <4>1 DEF LineInv, LinesAreWhole
    <3> QED BY <3>1, <3>2
  <2>3. {l.end : l \in lines'} = D
    BY <2>1, <2>2
  <2>4. rest' = Places(Before(D, Len(stream') + 1), Len(stream'))
    BY <1>8, <1>15, <1>21
  <2> QED BY <1>17, <2>1, <2>3, <2>4 DEF LinesAreWhole
<1>25. InTurn'
  <2>1. \A p \in 1..n : bytes[p].of <= native /\ bytes[p].of \in Nat
    BY <1>1, <1>2, <1>8 DEF LineInv, InTurn, Byte
  <2>2. \A p \in (n + 1)..N : bytes[p].of = native
    BY <1>8
  <2>3. ASSUME NEW p \in 1..N PROVE bytes[p].of <= native
    BY <1>2, <1>5, <1>7, <2>1, <2>2
  <2>4. ASSUME NEW p \in 1..N, NEW q \in 1..N, p <= q PROVE bytes[p].of <= bytes[q].of
    <3>1. CASE q <= n
      <4>1. p \in 1..n /\ q \in 1..n
        BY <1>2, <2>4, <3>1
      <4> QED BY <1>1, <1>8, <2>4, <4>1 DEF LineInv, InTurn
    <3>2. CASE q > n
      <4>1. bytes[q].of = native
        BY <1>2, <1>5, <2>2, <3>2
      <4> QED BY <2>3, <4>1
    <3> QED BY <1>2, <3>1, <3>2
  <2>5. ASSUME NEW l \in lines' PROVE bytes[l.end].of = l.to
    <3>1. CASE l \in lines
      BY <1>8, <1>20, <3>1 DEF LineInv, InTurn
    <3>2. CASE l \notin lines
      BY <1>19, <1>22, <2>2, <3>2
    <3> QED BY <3>1, <3>2
  <2> QED BY <1>8, <1>15, <2>3, <2>4, <2>5 DEF InTurn
<1> QED BY <1>23, <1>24, <1>25 DEF LineInv

LEMMA LineInvariant == LineSpec => []LineInv
<1>1. LineInv /\ [LineNext]_lineVars => LineInv'
  <2> SUFFICES ASSUME LineInv, [LineNext]_lineVars PROVE LineInv'
    OBVIOUS
  <2>1. CASE Accept
    <3>1. /\ stream' = stream /\ rest' = rest /\ lines' = lines
          /\ native' = native + 1 /\ attached' = TRUE /\ native < MaxNative
      BY <2>1 DEF Accept
    <3>2. native \in Nat /\ native' \in 1..MaxNative
      BY <3>1, LineBufferAssumption DEF LineInv, LineTypeOK
    <3>3. LineTypeOK'
      BY <3>1, <3>2 DEF LineInv, LineTypeOK
    <3>4. LinesAreWhole'
      BY <3>1 DEF LineInv, LinesAreWhole, Ends
    <3>5. \A p \in 1..Len(stream) : stream[p].of \in Nat
      BY EndsAre DEF LineInv, Byte
    <3>6. InTurn'
      BY <3>1, <3>2, <3>5 DEF LineInv, InTurn
    <3> QED BY <3>3, <3>4, <3>6 DEF LineInv
  <2>2. CASE CloseNative \/ UNCHANGED lineVars
    <3>1. /\ stream' = stream /\ rest' = rest /\ lines' = lines /\ native' = native
          /\ attached' \in BOOLEAN /\ (attached' => attached)
      <4>1. CASE CloseNative
        BY <4>1 DEF CloseNative
      <4>2. CASE UNCHANGED lineVars
        BY <4>2 DEF lineVars, LineInv, LineTypeOK
      <4> QED BY <2>2, <4>1, <4>2
    <3> QED BY <3>1 DEF LineInv, LineTypeOK, LinesAreWhole, Ends, InTurn
  <2>3. ASSUME NEW k \in 1..MaxRead, NEW chunk \in [1..k -> BOOLEAN], OnRead(chunk)
        PROVE  LineInv'
    BY <2>3, OnReadInv
  <2> QED BY <2>1, <2>2, <2>3 DEF LineNext
<1> QED BY <1>1, LineInitInv, PTL DEF LineSpec

(* LineBuffer's type invariant.                                             *)
THEOREM LineTypeCorrect == LineSpec => []LineTypeOK
<1>1. LineInv => LineTypeOK
  BY DEF LineInv
<1> QED BY <1>1, LineInvariant, PTL

(* However the bytes of the native clients are cut into reads, each message *)
(* is what is between two delimiters, and nothing but the bytes behind the  *)
(* last one waits (direct_socket.cc:168-187).                               *)
THEOREM MessagesAreLines == LineSpec => []LinesAreWhole
<1>1. LineInv => LinesAreWhole
  BY DEF LineInv
<1> QED BY <1>1, LineInvariant, PTL

(* A message has bytes of another client than the one that ended it only if *)
(* it is the first since that client was accepted (direct_socket.cc:180).   *)
THEOREM OnlyFirstHasOldBytes == LineSpec => []OnlyFirstIsMixed
<1> QED BY MixedIsFirst, LineInvariant, PTL
=============================================================================
