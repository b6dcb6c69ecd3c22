------------------------- MODULE MotionRecorderProofs -------------------------
(***************************************************************************)
(* Theorems about MotionRecorder for any number of frames, any key frames, *)
(* any limit and period, and any failures of opening and writing.          *)
(***************************************************************************)
EXTENDS MotionRecorder, SequenceTheorems, TLAPS

-----------------------------------------------------------------------------
(* Sequences of frames *)

(* The latest frames up to n, in order.                                     *)
Run(s, n) == \A i \in 1..Len(s) : s[i] = n - Len(s) + i

LEMMA AppendRun ==
  ASSUME NEW S, NEW s \in Seq(S), NEW n \in Nat, n + 1 \in S, Run(s, n)
  PROVE  Run(Append(s, n + 1), n + 1)
  <1>1. /\ Len(Append(s, n + 1)) = Len(s) + 1
        /\ Len(s) \in Nat
        /\ \A i \in 1..Len(s) : Append(s, n + 1)[i] = s[i]
        /\ Append(s, n + 1)[Len(s) + 1] = n + 1
    BY AppendProperties, LenProperties
  <1>2. QED
    BY <1>1 DEF Run

LEMMA TailRun ==
  ASSUME NEW S, NEW s \in Seq(S), NEW n \in Nat, s # <<>>, Run(s, n)
  PROVE  Run(Tail(s), n)
  <1>1. /\ Len(Tail(s)) = Len(s) - 1
        /\ Len(s) \in Nat \ {0}
        /\ \A i \in 1..(Len(s) - 1) : Tail(s)[i] = s[i + 1]
    BY HeadTailProperties, LenProperties, EmptySeq
  <1>2. QED
    BY <1>1 DEF Run

LEMMA EmptyRun ==
  ASSUME NEW n \in Nat
  PROVE  Run(<<>>, n) /\ Run(<<n>>, n)
  BY DEF Run

LEMMA EmptyConcat ==
  ASSUME NEW S, NEW b \in Seq(S)
  PROVE  <<>> \o b = b
  BY ConcatEmptySeq

LEMMA ConcatAppend ==
  ASSUME NEW S, NEW f \in Seq(S), NEW b \in Seq(S), NEW x \in S
  PROVE  f \o Append(b, x) = Append(f \o b, x)
  <1>1. /\ Len(f) \in Nat /\ Len(b) \in Nat
        /\ Append(b, x) \in Seq(S) /\ Len(Append(b, x)) = Len(b) + 1
        /\ \A i \in 1..Len(b) : Append(b, x)[i] = b[i]
        /\ Append(b, x)[Len(b) + 1] = x
    BY AppendProperties, LenProperties
  <1>2. /\ f \o b \in Seq(S) /\ Len(f \o b) = Len(f) + Len(b)
        /\ \A i \in 1..(Len(f) + Len(b)) :
             (f \o b)[i] = IF i <= Len(f) THEN f[i] ELSE b[i - Len(f)]
    BY ConcatProperties
  <1>3. /\ Append(f \o b, x) \in Seq(S)
        /\ Len(Append(f \o b, x)) = Len(f) + Len(b) + 1
        /\ \A i \in 1..(Len(f) + Len(b)) : Append(f \o b, x)[i] = (f \o b)[i]
        /\ Append(f \o b, x)[Len(f) + Len(b) + 1] = x
    BY <1>2, AppendProperties
  <1>4. /\ f \o Append(b, x) \in Seq(S)
        /\ Len(f \o Append(b, x)) = Len(f) + Len(b) + 1
        /\ \A i \in 1..(Len(f) + Len(b) + 1) :
             (f \o Append(b, x))[i] =
               IF i <= Len(f) THEN f[i] ELSE Append(b, x)[i - Len(f)]
    BY <1>1, ConcatProperties
  <1>5. \A i \in 1..(Len(f) + Len(b) + 1) :
          (f \o Append(b, x))[i] = Append(f \o b, x)[i]
    BY <1>1, <1>2, <1>3, <1>4
  <1>6. QED
    BY <1>3, <1>4, <1>5, SeqEqual

LEMMA MoveHead ==
  ASSUME NEW S, NEW f \in Seq(S), NEW b \in Seq(S), b # <<>>
  PROVE  /\ Head(b) \in S /\ Tail(b) \in Seq(S)
         /\ Append(f, Head(b)) \o Tail(b) = f \o b
  <1>1. /\ Len(f) \in Nat /\ Len(b) \in Nat \ {0}
        /\ Head(b) \in S /\ Head(b) = b[1]
        /\ Tail(b) \in Seq(S) /\ Len(Tail(b)) = Len(b) - 1
        /\ \A i \in 1..(Len(b) - 1) : Tail(b)[i] = b[i + 1]
    BY HeadTailProperties, LenProperties, EmptySeq
  <1> DEFINE g == Append(f, Head(b))
  <1>2. /\ g \in Seq(S) /\ Len(g) = Len(f) + 1
        /\ \A i \in 1..Len(f) : g[i] = f[i]
        /\ g[Len(f) + 1] = b[1]
    BY <1>1, AppendProperties
  <1> HIDE DEF g
  <1>3. /\ f \o b \in Seq(S) /\ Len(f \o b) = Len(f) + Len(b)
        /\ \A i \in 1..(Len(f) + Len(b)) :
             (f \o b)[i] = IF i <= Len(f) THEN f[i] ELSE b[i - Len(f)]
    BY ConcatProperties
  <1>4. /\ g \o Tail(b) \in Seq(S) /\ Len(g \o Tail(b)) = Len(f) + Len(b)
        /\ \A i \in 1..(Len(f) + Len(b)) :
             (g \o Tail(b))[i] = IF i <= Len(g) THEN g[i] ELSE Tail(b)[i - Len(g)]
    BY <1>1, <1>2, ConcatProperties
  <1>5. ASSUME NEW i \in 1..(Len(f) + Len(b))
        PROVE  (g \o Tail(b))[i] = (f \o b)[i]
    <2>1. CASE i <= Len(f)
      BY <1>1, <1>2, <1>3, <1>4, <2>1
    <2>2. CASE i = Len(f) + 1
      BY <1>1, <1>2, <1>3, <1>4, <2>2
    <2>3. CASE i > Len(f) + 1
      <3>1. i - (Len(f) + 1) \in 1..(Len(b) - 1)
        BY <1>1, <2>3
      <3>2. Tail(b)[i - (Len(f) + 1)] = b[i - (Len(f) + 1) + 1]
        BY <1>1, <3>1
      <3>3. i - (Len(f) + 1) + 1 = i - Len(f)
        BY <1>1
      <3>4. QED
        BY <1>1, <1>2, <1>3, <1>4, <2>3, <3>2, <3>3
    <2>4. i \in Nat /\ Len(f) \in Nat
      BY <1>1
    <2>5. i <= Len(f) \/ i = Len(f) + 1 \/ i > Len(f) + 1
      BY <2>4
    <2>6. QED
      BY <2>1, <2>2, <2>3, <2>5
  <1>6. g \o Tail(b) = f \o b
    BY <1>3, <1>4, <1>5, SeqEqual
  <1>7. QED
    BY <1>1, <1>6 DEF g

-----------------------------------------------------------------------------
(* The inductive invariant *)

(* The frames that wait for the writer are the latest ones, also while the  *)
(* file is closed and whatever was lost before them.                        *)
BufferRun == Run(buffer["frame"], frames)

NothingInClosed == ~open["frame"] => file["frame"] = <<>>

(* A key frame that came while the file was closed is still in front, since *)
(* no writer takes from the buffer of a closed file but one that Open has   *)
(* taken the file from.                                                     *)
KeyWaits ==
  /\ fresh /\ ~open["frame"] /\ (writer["frame"] = "none" \/ ~lost["frame"]) =>
       buffer["frame"] # <<>> /\ buffer["frame"][1] \in KeyFrames
  /\ DrainAt("join", "frame") => ~fresh

(* What is saved of the video.                                              *)
VideoInv ==
  /\ BufferRun
  /\ NothingInClosed
  /\ Contiguous
  /\ KeyWaits
  /\ BeginsWithKey

(* The detection state does not change while the drain thread opens or      *)
(* closes files.                                                            *)
MotionPhase ==
  /\ drain.pc \in {"open", "rejoin", "set"} => motion = "triggered" /\ ~active
  /\ drain.pc \in {"close", "join"} => ~active /\ (quitting \/ motion = "cleared")
  /\ drain.pc = "ended" => ~active /\ quitting
  /\ \A h \in Handles : DrainAt("join", h) => ~open[h]

(* A writer that did not run ahead of Open lives as long as its file is     *)
(* open.                                                                    *)
WriterLives ==
  \A h \in Handles :
    open[h] /\ ~raced[h] /\ ~DrainAt("rejoin", h) =>
      /\ writer[h] \notin {"none", "ended"}
      /\ quit[h] => DrainAt("set", h)

(* Who holds writer_lock_: the drain thread while it joins the writer, the  *)
(* writer while it empties the buffer.                                      *)
LockHeld ==
  \A h \in Handles :
    /\ lock[h] = "drain" <=> DrainAt("join", h)
    /\ lock[h] = "writer" <=> writer[h] \in {"write", "discard"}

RecorderInv ==
  /\ TypeOK
  /\ VideoInv
  /\ MotionPhase
  /\ RecordsMotion
  /\ WriterLives
  /\ LockHeld

-----------------------------------------------------------------------------
(* Types *)

LEMMA InitTypeOK == Init => TypeOK
  <1> SUFFICES ASSUME Init PROVE TypeOK
    OBVIOUS
  <1>1. <<>> \in Seq(1..MaxFrames)
    OBVIOUS
  <1>2. /\ buffer \in [Handles -> Seq(1..MaxFrames)]
        /\ file \in [Handles -> Seq(1..MaxFrames)]
    BY <1>1 DEF Init
  <1>3. /\ limit \in [Handles -> {0, FileSizeLimit}]
        /\ quit \in [Handles -> BOOLEAN]
    BY DEF Init
  <1>4. written \in [Handles -> Nat]
    BY LimitAssumption DEF Init
  <1>5. frames \in 0..MaxFrames /\ imvs \in 0..frames
    BY FramesAssumption DEF Init
  <1>6. waited \in 0..(DefaultWaitPeriod + 1)
    BY PeriodAssumption DEF Init
  <1>7. QED
    BY <1>2, <1>3, <1>4, <1>5, <1>6
    DEF Init, TypeOK, Handles, DrainPCs, WriterPCs

(* What the writer's and the drain thread's steps do to their places.       *)
LEMMA GotoType ==
  ASSUME NEW pc \in DrainPCs, NEW h \in Handles, Goto(pc, h)
  PROVE  drain' \in [pc : DrainPCs, h : Handles]
  BY DEF Goto

LEMMA WriterGoesType ==
  ASSUME TypeOK, NEW h \in Handles, NEW pc, NEW next \in WriterPCs,
         WriterGoes(h, pc, next)
  PROVE  /\ writer' \in [Handles -> WriterPCs]
         /\ raced' \in [Handles -> BOOLEAN]
  BY DEF WriterGoes, TypeOK

LEMMA QueuedType ==
  ASSUME TypeOK, NEW f \in 1..MaxFrames, NEW h \in Handles
  PROVE  Queued(f, h) \in Seq(1..MaxFrames)
  <1>1. buffer[h] \in Seq(1..MaxFrames) /\ <<>> \in Seq(1..MaxFrames)
    BY DEF TypeOK
  <1>2. Append(<<>>, f) \in Seq(1..MaxFrames)
        /\ Append(buffer[h], f) \in Seq(1..MaxFrames)
    BY <1>1, AppendProperties
  <1>3. QED
    BY <1>1, <1>2 DEF Queued

LEMMA TakenType ==
  ASSUME TypeOK, NEW h \in Handles, buffer[h] # <<>>
  PROVE  /\ Head(buffer[h]) \in 1..MaxFrames
         /\ [buffer EXCEPT ![h] = Tail(@)] \in [Handles -> Seq(1..MaxFrames)]
         /\ [file EXCEPT ![h] = Append(@, Head(buffer[h]))]
              \in [Handles -> Seq(1..MaxFrames)]
  <1>1. /\ buffer \in [Handles -> Seq(1..MaxFrames)]
        /\ file \in [Handles -> Seq(1..MaxFrames)]
    BY DEF TypeOK
  <1>2. Head(buffer[h]) \in 1..MaxFrames /\ Tail(buffer[h]) \in Seq(1..MaxFrames)
    BY <1>1, HeadTailProperties
  <1>3. Append(file[h], Head(buffer[h])) \in Seq(1..MaxFrames)
    BY <1>1, <1>2, AppendProperties
  <1>4. QED
    BY <1>1, <1>2, <1>3

LEMMA StepTypeOK == TypeOK /\ [Next]_vars => TypeOK'
  <1> SUFFICES ASSUME TypeOK, [Next]_vars PROVE TypeOK'
    OBVIOUS
  <1> USE DEF TypeOK
  <1>1. CASE FrameArrives
    <2>1. frames + 1 \in 1..MaxFrames
      BY <1>1, FramesAssumption DEF FrameArrives
    <2>2. \A h \in Handles : Queued(frames + 1, h) \in Seq(1..MaxFrames)
      BY <2>1, QueuedType
    <2>3. buffer' \in [Handles -> Seq(1..MaxFrames)]
      BY <1>1, <2>2 DEF FrameArrives
    <2>4. QED
      BY <1>1, <2>1, <2>3
      DEF FrameArrives, motionVars, fileVars, limitVars
  <1>2. CASE ImvArrives
    <2>1. frames \in 1..MaxFrames
      BY <1>2, FramesAssumption DEF ImvArrives
    <2>2. Append(buffer["imv"], frames) \in Seq(1..MaxFrames)
      BY <2>1, AppendProperties DEF Handles
    <2>3. buffer' \in [Handles -> Seq(1..MaxFrames)]
      BY <1>2, <2>2 DEF ImvArrives
    <2>4. motion' \in {"cleared", "triggered", "wait_clear"}
      BY <1>2 DEF ImvArrives, AfterPoints, AfterBlobs
    <2>5. waited' \in 0..(DefaultWaitPeriod + 1)
      BY <1>2, PeriodAssumption DEF ImvArrives
    <2>6. drain' \in [pc : DrainPCs, h : Handles] /\ active' \in BOOLEAN
      <3>1. CASE active' = FALSE /\ Goto("close", "frame")
        BY <3>1 DEF Goto, DrainPCs, Handles
      <3>2. CASE Goto("open", "frame") /\ UNCHANGED active
        BY <3>2 DEF Goto, DrainPCs, Handles
      <3>3. CASE UNCHANGED <<active, drain>>
        BY <3>3
      <3>4. QED
        BY <1>2, <3>1, <3>2, <3>3 DEF ImvArrives
    <2>7. imvs' \in 0..frames' /\ frames' \in 0..MaxFrames
      BY <1>2, <2>1 DEF ImvArrives
    <2>8. QED
      BY <1>2, <2>3, <2>4, <2>5, <2>6, <2>7
      DEF ImvArrives, fileVars, limitVars, historyVars
  <1>3. CASE Tick
    BY <1>3, PeriodAssumption
    DEF Tick, WaitPeriod, streamVars, fileVars, limitVars, historyVars
  <1>4. CASE StopCapture
    BY <1>4 DEF StopCapture, streamVars, fileVars, limitVars, historyVars
  <1>5. CASE DrainQuits
    BY <1>5 DEF DrainQuits, Goto, DrainPCs, Handles, streamVars, fileVars,
                limitVars, historyVars
  <1>6. ASSUME NEW h \in Handles, DrainHandle(h) PROVE TypeOK'
    <2> USE DEF streamVars, motionVars, fileVars, limitVars, historyVars,
                DrainPCs, WriterPCs, Handles
    <2>1. CASE Open(h)
      BY <2>1 DEF Open, Goto
    <2>2. CASE Rejoin(h)
      BY <2>2 DEF Rejoin, Goto
    <2>3. CASE OpenFails(h)
      <3>1. /\ open' \in [Handles -> BOOLEAN]
            /\ file' \in [Handles -> Seq(1..MaxFrames)]
            /\ fresh' \in BOOLEAN
        <4>1. CASE UNCHANGED <<fileVars, fresh>>
          BY <4>1
        <4>2. CASE /\ open' = [open EXCEPT ![h] = FALSE]
                   /\ file' = [file EXCEPT ![h] = <<>>]
                   /\ fresh' = (fresh /\ (h = "frame" => ~open[h]))
          BY <4>2
        <4>3. QED
          BY <2>3, <4>1, <4>2 DEF OpenFails
      <3>2. drain' \in [pc : DrainPCs, h : Handles] /\ failed' \in BOOLEAN
        BY <2>3 DEF OpenFails, Goto
      <3>3. QED
        BY <2>3, <3>1, <3>2 DEF OpenFails
    <2>4. CASE OpenSets(h)
      <3>1. /\ quit' \in [Handles -> BOOLEAN]
            /\ limit' \in [Handles -> {0, FileSizeLimit}]
            /\ written' \in [Handles -> Nat]
        BY <2>4 DEF OpenSets
      <3>2. drain' \in [pc : DrainPCs, h : Handles] /\ active' \in BOOLEAN
        <4>1. CASE Goto("open", "imv") /\ UNCHANGED active
          BY <4>1 DEF Goto
        <4>2. CASE Goto("loop", "frame") /\ active' = TRUE
          BY <4>2 DEF Goto
        <4>3. QED
          BY <2>4, <4>1, <4>2 DEF OpenSets
      <3>3. QED
        BY <2>4, <3>1, <3>2 DEF OpenSets
    <2>5. CASE Close(h)
      BY <2>5 DEF Close, Goto
    <2>6. CASE Joined(h)
      BY <2>6 DEF Joined, Goto
    <2>7. QED
      BY <1>6, <2>1, <2>2, <2>3, <2>4, <2>5, <2>6 DEF DrainHandle
  <1>7. ASSUME NEW h \in Handles, Writer(h) PROVE TypeOK'
    <2> USE DEF streamVars, motionVars, fileVars, limitVars, historyVars,
                WriterPCs
    <2>1. CASE WriterLoop(h)
      BY <2>1 DEF WriterLoop, WriterGoes
    <2>2. CASE WriterTest(h)
      BY <2>2 DEF WriterTest, WriterGoes
    <2>3. CASE WriterLock(h)
      BY <2>3 DEF WriterLock, WriterGoes
    <2>4. CASE WriterLockNoFile(h)
      BY <2>4 DEF WriterLockNoFile, WriterGoes
    <2>5. CASE WriterWrites(h)
      <3>1. /\ buffer' \in [Handles -> Seq(1..MaxFrames)]
            /\ file' \in [Handles -> Seq(1..MaxFrames)]
        BY <2>5, TakenType DEF WriterWrites
      <3>2. written' \in [Handles -> Nat] /\ raced' \in [Handles -> BOOLEAN]
        BY <2>5 DEF WriterWrites
      <3>3. UNCHANGED <<streamVars, motionVars, drain, open, writer, lock,
                        quit, limit, fresh, lost, failed>>
        BY <2>5 DEF WriterWrites
      <3>4. QED
        BY <3>1, <3>2, <3>3
    <2>6. CASE WriterFails(h)
      BY <2>6, TakenType DEF WriterFails, WriterGoes
    <2>7. CASE WriterDiscards(h)
      BY <2>7, TakenType DEF WriterDiscards, WriterGoes
    <2>8. CASE WriterReturns(h)
      BY <2>8 DEF WriterReturns, WriterGoes
    <2>9. QED
      BY <1>7, <2>1, <2>2, <2>3, <2>4, <2>5, <2>6, <2>7, <2>8 DEF Writer
  <1>8. CASE UNCHANGED vars
    BY <1>8 DEF vars, streamVars, motionVars, fileVars, limitVars, historyVars
  <1>9. QED
    BY <1>1, <1>2, <1>3, <1>4, <1>5, <1>6, <1>7, <1>8 DEF Next

(* Buffers, files, threads and the writers' variables are well-formed in    *)
(* every state.                                                             *)
THEOREM RecorderTypeCorrect == Spec => []TypeOK
  <1>1. QED
    BY InitTypeOK, StepTypeOK, PTL DEF Spec

-----------------------------------------------------------------------------
(* The video: every frame, in order *)

(* A step that leaves the video alone keeps what is known of it.            *)
LEMMA VideoKept ==
  ASSUME VideoInv,
         frames' = frames, buffer'["frame"] = buffer["frame"],
         open'["frame"] = open["frame"], file'["frame"] = file["frame"],
         lost'["frame"] = lost["frame"], fresh' = fresh,
         writer'["frame"] = "none" => writer["frame"] = "none" \/ ~fresh,
         DrainAt("join", "frame")' => ~fresh
  PROVE  VideoInv'
  <1>1. Saved' = Saved
    BY DEF Saved
  <1>2. BufferRun' /\ NothingInClosed'
    BY DEF VideoInv, BufferRun, NothingInClosed, Run
  <1>3. Contiguous' /\ BeginsWithKey'
    BY <1>1 DEF VideoInv, Contiguous, BeginsWithKey
  <1>4. KeyWaits'
    BY DEF VideoInv, KeyWaits
  <1>5. QED
    BY <1>2, <1>3, <1>4 DEF VideoInv

(* The same for a step of the writer that takes nothing off the buffer.     *)
LEMMA VideoKeptByWriter ==
  ASSUME TypeOK, VideoInv, NEW h \in Handles, NEW pc, NEW next,
         next # "none", WriterGoes(h, pc, next), UNCHANGED <<buffer, lost>>
  PROVE  VideoInv'
  <1>1. writer'["frame"] = "none" => writer["frame"] = "none"
    BY DEF WriterGoes, TypeOK
  <1>2. /\ DrainAt("join", "frame")' => ~fresh
        /\ frames' = frames /\ fresh' = fresh /\ open' = open /\ file' = file
    BY DEF WriterGoes, DrainAt, streamVars, fileVars, VideoInv, KeyWaits
  <1>3. QED
    BY <1>1, <1>2, VideoKept

(* A file that is opened or closed is empty: what is saved is the buffer.   *)
LEMMA VideoEmptied ==
  ASSUME TypeOK, VideoInv, TypeOK',
         file'["frame"] = <<>>, frames' = frames, buffer' = buffer
  PROVE  /\ Saved' = buffer["frame"]
         /\ BufferRun' /\ NothingInClosed' /\ Contiguous'
  <1>1. buffer["frame"] \in Seq(1..MaxFrames)
    BY DEF TypeOK, Handles
  <1>2. Saved' = buffer["frame"]
    BY <1>1, EmptyConcat DEF Saved
  <1>3. BufferRun' /\ NothingInClosed'
    BY DEF VideoInv, BufferRun, NothingInClosed, Run
  <1>4. Contiguous'
    BY <1>2 DEF VideoInv, BufferRun, Run, Contiguous
  <1>5. QED
    BY <1>2, <1>3, <1>4

(* A frame taken off the buffer leaves a run of frames.                     *)
LEMMA VideoTaken ==
  ASSUME TypeOK, VideoInv, buffer["frame"] # <<>>, frames' = frames,
         buffer' = [buffer EXCEPT !["frame"] = Tail(@)]
  PROVE  BufferRun'
  <1>1. buffer["frame"] \in Seq(1..MaxFrames) /\ frames \in Nat
    BY FramesAssumption DEF TypeOK, Handles
  <1>2. buffer'["frame"] = Tail(buffer["frame"])
    BY DEF TypeOK, Handles
  <1>3. Run(Tail(buffer["frame"]), frames)
    BY <1>1, TailRun DEF VideoInv, BufferRun
  <1>4. QED
    BY <1>2, <1>3 DEF BufferRun, Run

(* ... and the loss excuses the file.                                       *)
LEMMA VideoLost ==
  ASSUME TypeOK, VideoInv, NEW h \in Handles, NEW pc, NEW next,
         next # "none", WriterGoes(h, pc, next), buffer[h] # <<>>,
         buffer' = [buffer EXCEPT ![h] = Tail(@)],
         lost' = [lost EXCEPT ![h] = TRUE]
  PROVE  VideoInv'
  <1>1. /\ frames' = frames /\ fresh' = fresh /\ open' = open /\ file' = file
        /\ drain' = drain
    BY DEF WriterGoes, streamVars, fileVars
  <1>2. CASE h = "frame"
    <2>1. lost'["frame"] /\ writer'["frame"] # "none"
      BY <1>2 DEF TypeOK, WriterGoes
    <2>2. BufferRun'
      BY <1>1, <1>2, VideoTaken
    <2>3. NothingInClosed' /\ KeyWaits'
      BY <1>1, <2>1 DEF VideoInv, NothingInClosed, KeyWaits, DrainAt
    <2>4. QED
      BY <2>1, <2>2, <2>3 DEF VideoInv, Contiguous, BeginsWithKey
  <1>3. CASE h = "imv"
    <2>1. /\ buffer'["frame"] = buffer["frame"] /\ lost'["frame"] = lost["frame"]
          /\ writer'["frame"] = writer["frame"]
      BY <1>3 DEF TypeOK, WriterGoes, Handles
    <2>2. DrainAt("join", "frame")' => ~fresh
      BY <1>1 DEF VideoInv, KeyWaits, DrainAt
    <2>3. QED
      BY <1>1, <2>1, <2>2, VideoKept
  <1>4. QED
    BY <1>2, <1>3 DEF Handles

LEMMA FrameArrivesVideo ==
  ASSUME TypeOK, VideoInv, FrameArrives
  PROVE  VideoInv'
  <1> DEFINE f == frames + 1
             b == buffer["frame"]
  <1>1. /\ f \in 1..MaxFrames /\ frames \in Nat /\ f \in Nat
        /\ b \in Seq(1..MaxFrames) /\ file["frame"] \in Seq(1..MaxFrames)
    BY FramesAssumption DEF FrameArrives, TypeOK, Handles
  <1>2. /\ frames' = f /\ open' = open /\ file' = file /\ lost' = lost
        /\ writer' = writer /\ drain' = drain
        /\ fresh' = (fresh \/ (f \in KeyFrames /\ ~open["frame"]))
        /\ buffer'["frame"] = Queued(f, "frame")
    BY DEF FrameArrives, fileVars, Handles
  <1>3. ~DrainAt("join", "frame")'
    BY <1>2 DEF FrameArrives, Looping, DrainAt
  <1> HIDE DEF f
  <1>4. NothingInClosed'
    BY <1>2 DEF VideoInv, NothingInClosed
  <1>5. CASE f \in KeyFrames /\ ~open["frame"]
    <2>1. buffer'["frame"] = <<f>>
      BY <1>2, <1>5 DEF Queued
    <2>2. file'["frame"] = <<>>
      BY <1>2, <1>5 DEF VideoInv, NothingInClosed
    <2>3. Saved' = <<f>>
      BY <1>1, <2>1, <2>2, EmptyConcat DEF Saved
    <2>4. Run(<<f>>, f)
      BY <1>1, EmptyRun
    <2>5. BufferRun' /\ Contiguous'
      BY <1>2, <2>1, <2>3, <2>4 DEF BufferRun, Contiguous, Run
    <2>6. KeyWaits' /\ BeginsWithKey'
      BY <1>2, <1>3, <1>5, <2>1 DEF KeyWaits, BeginsWithKey
    <2>7. QED
      BY <1>4, <2>5, <2>6 DEF VideoInv
  <1>6. CASE ~(f \in KeyFrames /\ ~open["frame"])
    <2>1. buffer'["frame"] = Append(b, f)
      BY <1>2, <1>6 DEF Queued
    <2>2. Saved' = Append(Saved, f)
      <3> DEFINE S == 1..MaxFrames
      <3>1. \A v, w \in Seq(S), x \in S : v \o Append(w, x) = Append(v \o w, x)
        <4> HIDE DEF S
        <4>1. QED
          BY ConcatAppend
      <3>2. QED
        BY <1>1, <1>2, <2>1, <3>1 DEF Saved
    <2>3. Saved \in Seq(1..MaxFrames)
      BY <1>1, ConcatProperties DEF Saved
    <2>4. Run(Append(b, f), f)
      BY <1>1, AppendRun DEF VideoInv, BufferRun, f
    <2>5. ~lost["frame"] => Run(Append(Saved, f), f)
      BY <1>1, <2>3, AppendRun DEF VideoInv, Contiguous, Run, f
    <2>6. BufferRun' /\ Contiguous'
      BY <1>2, <2>1, <2>2, <2>4, <2>5 DEF BufferRun, Contiguous, Run
    <2>7. ASSUME NEW s \in Seq(1..MaxFrames), s # <<>>
          PROVE  Append(s, f) # <<>> /\ Append(s, f)[1] = s[1]
      BY <1>1, <2>7, AppendProperties, LenProperties, EmptySeq
    <2>8. fresh' = fresh
      BY <1>2, <1>6 DEF TypeOK
    <2>9. KeyWaits'
      <3>1. b # <<>> => Append(b, f) # <<>> /\ Append(b, f)[1] = b[1]
        BY <1>1, <2>7
      <3>2. QED
        BY <1>2, <1>3, <2>1, <2>8, <3>1 DEF VideoInv, KeyWaits
    <2>10. BeginsWithKey'
      BY <1>2, <2>2, <2>3, <2>7, <2>8 DEF VideoInv, BeginsWithKey
    <2>11. QED
      BY <1>4, <2>6, <2>9, <2>10 DEF VideoInv
  <1>7. QED
    BY <1>5, <1>6

LEMMA WriterWritesVideo ==
  ASSUME TypeOK, VideoInv, NEW h \in Handles, WriterWrites(h)
  PROVE  VideoInv'
  <1>1. /\ frames' = frames /\ fresh' = fresh /\ open' = open /\ lost' = lost
        /\ drain' = drain /\ writer' = writer
    BY DEF WriterWrites, streamVars
  <1>2. CASE h = "frame"
    <2>1. /\ buffer["frame"] \in Seq(1..MaxFrames)
          /\ file["frame"] \in Seq(1..MaxFrames) /\ buffer["frame"] # <<>>
          /\ open["frame"]
      BY <1>2 DEF TypeOK, WriterWrites, Handles
    <2>2. /\ buffer'["frame"] = Tail(buffer["frame"])
          /\ file'["frame"] = Append(file["frame"], Head(buffer["frame"]))
      BY <1>2 DEF TypeOK, WriterWrites, Handles
    <2>3. Saved' = Saved
      <3>1. Append(file["frame"], Head(buffer["frame"])) \o Tail(buffer["frame"])
              = file["frame"] \o buffer["frame"]
        BY <2>1, MoveHead
      <3>2. QED
        BY <2>2, <3>1 DEF Saved
    <2>4. BufferRun'
      BY <1>1, <1>2, <2>1, VideoTaken DEF WriterWrites
    <2>5. Contiguous' /\ BeginsWithKey'
      BY <1>1, <2>3 DEF VideoInv, Contiguous, BeginsWithKey
    <2>6. NothingInClosed' /\ KeyWaits'
      BY <1>1, <2>1 DEF VideoInv, NothingInClosed, KeyWaits, DrainAt
    <2>7. QED
      BY <2>4, <2>5, <2>6 DEF VideoInv
  <1>3. CASE h = "imv"
    <2>1. buffer'["frame"] = buffer["frame"] /\ file'["frame"] = file["frame"]
      BY <1>3 DEF TypeOK, WriterWrites, Handles
    <2>2. DrainAt("join", "frame")' => ~fresh
      BY <1>1 DEF VideoInv, KeyWaits, DrainAt
    <2>3. QED
      BY <1>1, <2>1, <2>2, VideoKept
  <1>4. QED
    BY <1>2, <1>3 DEF Handles

(* StartWriter, StopWriter and what they do to the handles.                 *)
LEMMA DrainHandleVideo ==
  ASSUME TypeOK, TypeOK', VideoInv, NEW h \in Handles, DrainHandle(h)
  PROVE  VideoInv'
  <1>1. frames' = frames /\ buffer' = buffer
    BY DEF DrainHandle, Open, Rejoin, OpenFails, OpenSets, Close, Joined, streamVars
  <1>2. CASE Open(h)
    <2>1. CASE h = "frame"
      <3>1. /\ open'["frame"] /\ file'["frame"] = <<>>
            /\ lost'["frame"] = (lost["frame"] /\ writer["frame"] # "none")
            /\ fresh' = (fresh /\ ~open["frame"])
        BY <1>2, <2>1 DEF Open, TypeOK
      <3>2. /\ Saved' = buffer["frame"]
            /\ BufferRun' /\ NothingInClosed' /\ Contiguous'
        BY <1>1, <3>1, VideoEmptied
      <3>3. KeyWaits'
        BY <1>2, <3>1 DEF KeyWaits, Open, Goto, DrainAt
      <3>4. BeginsWithKey'
        BY <3>1, <3>2 DEF BeginsWithKey, VideoInv, KeyWaits
      <3>5. QED
        BY <3>2, <3>3, <3>4 DEF VideoInv
    <2>2. CASE h = "imv"
      <3>1. /\ open'["frame"] = open["frame"] /\ file'["frame"] = file["frame"]
            /\ lost'["frame"] = lost["frame"] /\ writer'["frame"] = writer["frame"]
            /\ ~DrainAt("join", "frame")'
        BY <1>2, <2>2 DEF Open, TypeOK, Handles, Goto, DrainAt
      <3>2. fresh' = fresh
        BY <1>2, <2>2 DEF Open, TypeOK
      <3>3. QED
        BY <1>1, <3>1, <3>2, VideoKept
    <2>3. QED
      BY <2>1, <2>2 DEF Handles
  <1>3. CASE Rejoin(h)
    <2>1. /\ open' = open /\ file' = file /\ lost' = lost /\ fresh' = fresh
          /\ writer'["frame"] = "none" => writer["frame"] = "none"
          /\ ~DrainAt("join", "frame")'
      BY <1>3 DEF Rejoin, TypeOK, Goto, DrainAt, fileVars, historyVars
    <2>2. QED
      BY <1>1, <2>1, VideoKept
  <1>4. CASE OpenFails(h)
    <2>1. /\ lost' = lost /\ writer' = writer /\ ~DrainAt("join", "frame")'
      BY <1>4 DEF OpenFails, Goto, DrainAt
    <2>2. CASE UNCHANGED <<fileVars, fresh>>
      BY <1>1, <2>1, <2>2, VideoKept DEF fileVars
    <2>3. CASE /\ open' = [open EXCEPT ![h] = FALSE]
               /\ file' = [file EXCEPT ![h] = <<>>]
               /\ fresh' = (fresh /\ (h = "frame" => ~open[h]))
      <3>1. CASE h = "frame"
        <4>1. ~open'["frame"] /\ file'["frame"] = <<>> /\ (fresh' => fresh /\ ~open["frame"])
          BY <2>3, <3>1 DEF TypeOK
        <4>2. BufferRun' /\ NothingInClosed' /\ Contiguous'
          BY <1>1, <4>1, VideoEmptied
        <4>3. KeyWaits' /\ BeginsWithKey'
          BY <1>1, <2>1, <4>1 DEF VideoInv, KeyWaits, BeginsWithKey
        <4>4. QED
          BY <4>2, <4>3 DEF VideoInv
      <3>2. CASE h = "imv"
        <4>1. open'["frame"] = open["frame"] /\ file'["frame"] = file["frame"]
          BY <2>3, <3>2 DEF TypeOK, Handles
        <4>2. fresh' = fresh
          BY <2>3, <3>2 DEF TypeOK
        <4>3. QED
          BY <1>1, <2>1, <4>1, <4>2, VideoKept
      <3>3. QED
        BY <3>1, <3>2 DEF Handles
    <2>4. QED
      BY <1>4, <2>2, <2>3 DEF OpenFails
  <1>5. CASE OpenSets(h)
    <2>1. /\ open' = open /\ file' = file /\ lost' = lost /\ fresh' = fresh
          /\ writer' = writer
          /\ ~DrainAt("join", "frame")'
      BY <1>5 DEF OpenSets, Goto, DrainAt, fileVars, historyVars
    <2>2. QED
      BY <1>1, <2>1, VideoKept
  <1>6. CASE Close(h)
    <2>1. CASE h = "frame"
      <3>1. ~open'["frame"] /\ file'["frame"] = <<>> /\ ~fresh'
        BY <1>6, <2>1 DEF Close, TypeOK
      <3>2. BufferRun' /\ NothingInClosed' /\ Contiguous'
        BY <1>1, <3>1, VideoEmptied
      <3>3. KeyWaits' /\ BeginsWithKey'
        BY <3>1 DEF KeyWaits, BeginsWithKey
      <3>4. QED
        BY <3>2, <3>3 DEF VideoInv
    <2>2. CASE h = "imv"
      <3>1. /\ open'["frame"] = open["frame"] /\ file'["frame"] = file["frame"]
            /\ lost' = lost /\ writer' = writer /\ ~DrainAt("join", "frame")'
        BY <1>6, <2>2 DEF Close, TypeOK, Handles, Goto, DrainAt
      <3>2. fresh' = fresh
        BY <1>6, <2>2 DEF Close, TypeOK
      <3>3. QED
        BY <1>1, <3>1, <3>2, VideoKept
    <2>3. QED
      BY <2>1, <2>2 DEF Handles
  <1>7. CASE Joined(h)
    <2>1. /\ open' = open /\ file' = file /\ lost' = lost /\ fresh' = fresh
          /\ ~DrainAt("join", "frame")'
      BY <1>7 DEF Joined, Goto, DrainAt, fileVars, historyVars
    <2>2. writer'["frame"] = "none" => writer["frame"] = "none" \/ ~fresh
      <3>1. CASE h = "frame"
        BY <1>7, <3>1 DEF Joined, VideoInv, KeyWaits
      <3>2. CASE h = "imv"
        BY <1>7, <3>2 DEF Joined, TypeOK, Handles
      <3>3. QED
        BY <3>1, <3>2 DEF Handles
    <2>3. QED
      BY <1>1, <2>1, <2>2, VideoKept
  <1>8. QED
    BY <1>2, <1>3, <1>4, <1>5, <1>6, <1>7 DEF DrainHandle

LEMMA WriterVideo ==
  ASSUME TypeOK, VideoInv, NEW h \in Handles, Writer(h)
  PROVE  VideoInv'
  <1>1. CASE WriterLoop(h)
    BY <1>1, VideoKeptByWriter DEF WriterLoop
  <1>2. CASE WriterTest(h)
    BY <1>2, VideoKeptByWriter DEF WriterTest
  <1>3. CASE WriterLock(h)
    BY <1>3, VideoKeptByWriter DEF WriterLock
  <1>4. CASE WriterLockNoFile(h)
    BY <1>4, VideoKeptByWriter DEF WriterLockNoFile
  <1>5. CASE WriterWrites(h)
    BY <1>5, WriterWritesVideo
  <1>6. CASE WriterFails(h)
    BY <1>6, VideoLost DEF WriterFails
  <1>7. CASE WriterDiscards(h)
    BY <1>7, VideoLost DEF WriterDiscards
  <1>8. CASE WriterReturns(h)
    BY <1>8, VideoKeptByWriter DEF WriterReturns
  <1>9. QED
    BY <1>1, <1>2, <1>3, <1>4, <1>5, <1>6, <1>7, <1>8 DEF Writer

LEMMA InitVideo == Init => VideoInv
  <1> SUFFICES ASSUME Init PROVE VideoInv
    OBVIOUS
  <1>1. buffer["frame"] = <<>> /\ file["frame"] = <<>> /\ frames = 0
    BY DEF Init, Handles
  <1>2. Saved = <<>>
    BY <1>1, EmptyConcat DEF Saved
  <1>3. BufferRun /\ Contiguous
    BY <1>1, <1>2 DEF BufferRun, Contiguous, Run
  <1>4. NothingInClosed /\ KeyWaits /\ BeginsWithKey
    BY <1>1 DEF Init, NothingInClosed, KeyWaits, BeginsWithKey
  <1>5. QED
    BY <1>3, <1>4 DEF VideoInv

LEMMA StepVideo == TypeOK /\ VideoInv /\ [Next]_vars => VideoInv'
  <1> SUFFICES ASSUME TypeOK, VideoInv, [Next]_vars PROVE VideoInv'
    OBVIOUS
  <1>1. TypeOK'
    BY StepTypeOK
  <1>2. CASE FrameArrives
    BY <1>2, FrameArrivesVideo
  <1>3. CASE ImvArrives
    <2>1. /\ frames' = frames /\ fresh' = fresh /\ open' = open /\ file' = file
          /\ lost' = lost /\ writer' = writer
          /\ buffer'["frame"] = buffer["frame"]
      BY <1>3 DEF ImvArrives, fileVars, historyVars, TypeOK, Handles
    <2>2. ~DrainAt("join", "frame")'
      BY <1>3 DEF ImvArrives, Looping, Goto, DrainAt
    <2>3. QED
      BY <2>1, <2>2, VideoKept
  <1>4. CASE Tick \/ StopCapture \/ UNCHANGED vars
    <2>1. UNCHANGED <<frames, fresh, open, file, lost, writer, buffer, drain>>
      BY <1>4 DEF Tick, StopCapture, vars, streamVars, fileVars, historyVars
    <2>2. DrainAt("join", "frame")' => ~fresh
      BY <2>1 DEF VideoInv, KeyWaits, DrainAt
    <2>3. QED
      BY <2>1, <2>2, VideoKept
  <1>5. CASE DrainQuits
    <2>1. UNCHANGED <<frames, fresh, open, file, lost, writer, buffer>>
      BY <1>5 DEF DrainQuits, streamVars, fileVars, historyVars
    <2>2. ~DrainAt("join", "frame")'
      BY <1>5 DEF DrainQuits, Goto, DrainAt
    <2>3. QED
      BY <2>1, <2>2, VideoKept
  <1>6. ASSUME NEW h \in Handles, DrainHandle(h) PROVE VideoInv'
    BY <1>1, <1>6, DrainHandleVideo
  <1>7. ASSUME NEW h \in Handles, Writer(h) PROVE VideoInv'
    BY <1>7, WriterVideo
  <1>8. QED
    BY <1>2, <1>3, <1>4, <1>5, <1>6, <1>7 DEF Next

-----------------------------------------------------------------------------
(* Detection and recording *)

DetectionInv == MotionPhase /\ RecordsMotion

LEMMA InitDetection == Init => DetectionInv
  BY DEF Init, DetectionInv, MotionPhase, RecordsMotion, DrainAt

(* A step that changes none of what the detection and the drain thread know *)
(* of each other.                                                           *)
LEMMA DetectionKept ==
  ASSUME DetectionInv, UNCHANGED <<motion, quitting, active, drain, open, failed>>
  PROVE  DetectionInv'
  BY DEF DetectionInv, MotionPhase, RecordsMotion, Looping, DrainAt

LEMMA StepDetection == TypeOK /\ DetectionInv /\ [Next]_vars => DetectionInv'
  <1> SUFFICES ASSUME TypeOK, DetectionInv, [Next]_vars PROVE DetectionInv'
    OBVIOUS
  <1> USE DEF DetectionInv, MotionPhase, RecordsMotion, Looping
  <1>1. CASE FrameArrives \/ UNCHANGED vars
    BY <1>1, DetectionKept
    DEF FrameArrives, vars, motionVars, fileVars, historyVars
  <1>2. CASE ImvArrives
    <2>1. CASE motion' = "cleared" /\ active /\ active' = FALSE /\ Goto("close", "frame")
      BY <2>1 DEF Goto, DrainAt
    <2>2. CASE motion' = "triggered" /\ ~active /\ Goto("open", "frame") /\ UNCHANGED active
      BY <2>2 DEF Goto, DrainAt
    <2>3. CASE /\ ~(motion' = "cleared" /\ active)
               /\ ~(motion' = "triggered" /\ ~active)
               /\ UNCHANGED <<active, drain>>
      BY <1>2, <2>3 DEF ImvArrives, DrainAt
    <2>4. QED
      BY <1>2, <2>1, <2>2, <2>3 DEF ImvArrives
  <1>3. CASE Tick
    BY <1>3, DetectionKept DEF Tick, fileVars, historyVars
  <1>4. CASE StopCapture
    BY <1>4 DEF StopCapture, fileVars, DrainAt
  <1>5. CASE DrainQuits
    BY <1>5 DEF DrainQuits, Goto, DrainAt
  <1>6. ASSUME NEW h \in Handles, DrainHandle(h) PROVE DetectionInv'
    <2>1. CASE Open(h) \/ Rejoin(h)
      BY <2>1 DEF Open, Rejoin, Goto, DrainAt, motionVars
    <2>2. CASE OpenFails(h)
      BY <2>2 DEF OpenFails, Goto, DrainAt, motionVars
    <2>3. CASE OpenSets(h)
      <3>1. CASE Goto("open", "imv") /\ UNCHANGED active
        BY <2>3, <3>1 DEF OpenSets, Goto, DrainAt
      <3>2. CASE Goto("loop", "frame") /\ active' = TRUE
        BY <2>3, <3>2 DEF OpenSets, Goto, DrainAt
      <3>3. QED
        BY <2>3, <3>1, <3>2 DEF OpenSets
    <2>4. CASE Close(h)
      BY <2>4 DEF Close, Goto, DrainAt, motionVars, TypeOK
    <2>5. CASE Joined(h)
      BY <2>5 DEF Joined, Goto, DrainAt, motionVars
    <2>6. QED
      BY <1>6, <2>1, <2>2, <2>3, <2>4, <2>5 DEF DrainHandle
  <1>7. ASSUME NEW h \in Handles, Writer(h) PROVE DetectionInv'
    <2>1. UNCHANGED <<motion, quitting, active, drain, open, failed>>
      BY <1>7 DEF Writer, WriterLoop, WriterTest, WriterLock, WriterLockNoFile,
                  WriterWrites, WriterFails, WriterDiscards, WriterReturns,
                  WriterGoes, motionVars, fileVars
    <2>2. QED
      BY <2>1, DetectionKept
  <1>8. QED
    BY <1>1, <1>2, <1>3, <1>4, <1>5, <1>6, <1>7 DEF Next

-----------------------------------------------------------------------------
(* The writers *)

LEMMA InitWriters == Init => WriterLives
  BY DEF Init, WriterLives

LEMMA StepWriters ==
  TypeOK /\ MotionPhase /\ WriterLives /\ [Next]_vars => WriterLives'
  <1> SUFFICES ASSUME TypeOK, MotionPhase, WriterLives, [Next]_vars,
                      NEW k \in Handles,
                      open'[k], ~raced'[k], ~DrainAt("rejoin", k)'
               PROVE  /\ writer'[k] \notin {"none", "ended"}
                      /\ quit'[k] => DrainAt("set", k)'
    BY DEF WriterLives
  <1> USE DEF WriterLives
  <1>1. CASE FrameArrives \/ Tick \/ StopCapture \/ UNCHANGED vars
    BY <1>1 DEF FrameArrives, Tick, StopCapture, DrainAt, vars, fileVars,
                limitVars, historyVars
  <1>2. CASE ImvArrives \/ DrainQuits
    BY <1>2 DEF ImvArrives, DrainQuits, Looping, Goto, DrainAt, fileVars,
                limitVars, historyVars
  <1>3. ASSUME NEW h \in Handles, DrainHandle(h)
        PROVE  /\ writer'[k] \notin {"none", "ended"}
               /\ quit'[k] => DrainAt("set", k)'
    <2>1. CASE Open(h)
      <3>1. CASE writer[h] = "none"
        BY <2>1, <3>1 DEF Open, Goto, DrainAt, TypeOK, limitVars
      <3>2. CASE writer[h] # "none"
        BY <2>1, <3>2 DEF Open, Goto, DrainAt, TypeOK, limitVars
      <3>3. QED
        BY <3>1, <3>2
    <2>2. CASE Rejoin(h)
      BY <2>2 DEF Rejoin, Goto, DrainAt, TypeOK, fileVars, limitVars, historyVars
    <2>3. CASE OpenFails(h)
      BY <2>3 DEF OpenFails, Goto, DrainAt, TypeOK, fileVars, limitVars
    <2>4. CASE OpenSets(h)
      <3>1. UNCHANGED <<open, writer, raced>> /\ quit' = [quit EXCEPT ![h] = FALSE]
        BY <2>4 DEF OpenSets, fileVars, historyVars
      <3>2. QED
        BY <2>4, <3>1 DEF OpenSets, DrainAt, TypeOK
    <2>5. CASE Close(h)
      BY <2>5 DEF Close, Goto, DrainAt, TypeOK
    <2>6. CASE Joined(h)
      BY <2>6 DEF Joined, Goto, DrainAt, TypeOK, MotionPhase, fileVars, historyVars
    <2>7. QED
      BY <1>3, <2>1, <2>2, <2>3, <2>4, <2>5, <2>6 DEF DrainHandle
  <1>4. ASSUME NEW h \in Handles, Writer(h)
        PROVE  /\ writer'[k] \notin {"none", "ended"}
               /\ quit'[k] => DrainAt("set", k)'
    <2>1. ASSUME NEW pc, NEW next, WriterGoes(h, pc, next),
                 next \in {"none", "ended"} => next = "ended" /\ (~open[h] \/ quit[h])
          PROVE  /\ writer'[k] \notin {"none", "ended"}
                 /\ quit'[k] => DrainAt("set", k)'
      BY <2>1 DEF WriterGoes, TypeOK, DrainAt, fileVars
    <2>2. CASE WriterLoop(h)
      BY <2>1, <2>2 DEF WriterLoop
    <2>3. CASE WriterTest(h)
      BY <2>1, <2>3 DEF WriterTest
    <2>4. CASE WriterLock(h) \/ WriterLockNoFile(h)
      BY <2>1, <2>4 DEF WriterLock, WriterLockNoFile
    <2>5. CASE WriterWrites(h)
      BY <2>5 DEF WriterWrites, TypeOK, DrainAt
    <2>6. CASE WriterFails(h) \/ WriterDiscards(h) \/ WriterReturns(h)
      BY <2>1, <2>6 DEF WriterFails, WriterDiscards, WriterReturns
    <2>7. QED
      BY <1>4, <2>2, <2>3, <2>4, <2>5, <2>6 DEF Writer
  <1>5. QED
    BY <1>1, <1>2, <1>3, <1>4 DEF Next

-----------------------------------------------------------------------------
(* The lock *)

LEMMA InitLock == Init => LockHeld
  BY DEF Init, LockHeld, DrainAt

(* A step at the handle h: the lock goes as the drain thread and the writer *)
(* do.                                                                      *)
LEMMA LockStep ==
  ASSUME TypeOK, LockHeld, NEW h \in Handles, NEW l, NEW w,
         lock' = [lock EXCEPT ![h] = l], writer' = [writer EXCEPT ![h] = w],
         l = "drain" <=> DrainAt("join", h)', l = "writer" <=> w \in {"write", "discard"},
         \A k \in Handles \ {h} : DrainAt("join", k)' <=> DrainAt("join", k)
  PROVE  LockHeld'
  <1>1. SUFFICES ASSUME NEW k \in Handles
                 PROVE  /\ lock'[k] = "drain" <=> DrainAt("join", k)'
                        /\ lock'[k] = "writer" <=> writer'[k] \in {"write", "discard"}
    BY DEF LockHeld
  <1>2. CASE k = h
    <2>1. lock'[k] = l /\ writer'[k] = w
      BY <1>2 DEF TypeOK
    <2>2. QED
      BY <1>2, <2>1, Zenon
  <1>3. CASE k # h
    <2>1. lock'[k] = lock[k] /\ writer'[k] = writer[k]
      BY <1>3 DEF TypeOK
    <2>2. QED
      BY <1>3, <2>1 DEF LockHeld
  <1>4. QED
    BY <1>2, <1>3

LEMMA LockKept ==
  ASSUME LockHeld, lock' = lock, writer' = writer,
         \A k \in Handles : DrainAt("join", k)' <=> DrainAt("join", k)
  PROVE  LockHeld'
  BY DEF LockHeld

LEMMA LockKeptByWriter ==
  ASSUME TypeOK, LockHeld, NEW h \in Handles, NEW pc, NEW w, NEW l,
         WriterGoes(h, pc, w), lock' = [lock EXCEPT ![h] = l],
         l = "drain" <=> lock[h] = "drain", l = "writer" <=> w \in {"write", "discard"}
  PROVE  LockHeld'
  <1>1. drain' = drain /\ writer' = [writer EXCEPT ![h] = w]
    BY DEF WriterGoes
  <1>2. \A k \in Handles : DrainAt("join", k)' <=> DrainAt("join", k)
    BY <1>1 DEF DrainAt
  <1>3. l = "drain" <=> DrainAt("join", h)'
    BY <1>2 DEF LockHeld
  <1>4. QED
    BY <1>1, <1>2, <1>3, LockStep

LEMMA StepLock == TypeOK /\ LockHeld /\ [Next]_vars => LockHeld'
  <1> SUFFICES ASSUME TypeOK, LockHeld, [Next]_vars PROVE LockHeld'
    OBVIOUS
  <1>1. CASE FrameArrives \/ Tick \/ StopCapture \/ UNCHANGED vars
    BY <1>1, LockKept DEF FrameArrives, Tick, StopCapture, DrainAt, vars
  <1>2. CASE ImvArrives \/ DrainQuits
    BY <1>2, LockKept DEF ImvArrives, DrainQuits, Looping, Goto, DrainAt
  <1>3. ASSUME NEW h \in Handles, DrainHandle(h) PROVE LockHeld'
    <2>1. CASE Open(h) \/ Rejoin(h)
      <3>1. ~DrainAt("join", h) /\ \A k \in Handles : DrainAt("join", k)' <=> DrainAt("join", k)
        BY <2>1 DEF Open, Rejoin, Goto, DrainAt
      <3>2. CASE writer' = writer /\ lock' = lock
        BY <3>1, <3>2, LockKept
      <3>3. CASE /\ writer' = [writer EXCEPT ![h] = "loop"] /\ lock' = lock
                 /\ writer[h] \in {"none", "ended"}
        <4>1. lock' = [lock EXCEPT ![h] = lock[h]] /\ lock[h] # "writer"
          BY <3>3 DEF TypeOK, LockHeld
        <4>2. lock[h] = "drain" <=> DrainAt("join", h)'
          BY <3>1 DEF LockHeld
        <4>3. QED
          BY <3>1, <3>3, <4>1, <4>2, LockStep
      <3>4. QED
        BY <2>1, <3>2, <3>3 DEF Open, Rejoin
    <2>2. CASE OpenFails(h) \/ OpenSets(h)
      BY <2>2, LockKept DEF OpenFails, OpenSets, Goto, DrainAt
    <2>3. CASE Close(h)
      <3>1. /\ lock' = [lock EXCEPT ![h] = "drain"] /\ writer[h] \notin {"write", "discard"}
            /\ writer' = [writer EXCEPT ![h] = writer[h]]
        BY <2>3 DEF Close, TypeOK, LockHeld
      <3>2. /\ DrainAt("join", h)'
            /\ \A k \in Handles \ {h} : DrainAt("join", k)' <=> DrainAt("join", k)
        BY <2>3 DEF Close, Goto, DrainAt
      <3>3. QED
        BY <3>1, <3>2, LockStep
    <2>4. CASE Joined(h)
      <3>1. /\ lock' = [lock EXCEPT ![h] = "free"]
            /\ writer' = [writer EXCEPT ![h] = "none"]
        BY <2>4 DEF Joined
      <3>2. /\ ~DrainAt("join", h)'
            /\ \A k \in Handles \ {h} : DrainAt("join", k)' <=> DrainAt("join", k)
        <4>1. drain'.pc # "join" /\ drain = [pc |-> "join", h |-> h]
          BY <2>4 DEF Joined, Goto, DrainAt
        <4>2. QED
          BY <4>1 DEF DrainAt
      <3>3. QED
        BY <3>1, <3>2, LockStep
    <2>5. QED
      BY <1>3, <2>1, <2>2, <2>3, <2>4 DEF DrainHandle
  <1>4. ASSUME NEW h \in Handles, Writer(h) PROVE LockHeld'
    <2>1. lock = [lock EXCEPT ![h] = lock[h]] /\ LockHeld
      BY DEF TypeOK
    <2>2. CASE WriterLoop(h) \/ WriterTest(h) \/ WriterLockNoFile(h)
      <3>1. PICK pc \in {"loop", "test", "lock"}, w \in {"ended", "test", "lock", "loop"} :
              WriterGoes(h, pc, w)
        BY <2>2 DEF WriterLoop, WriterTest, WriterLockNoFile
      <3>2. lock' = lock
        BY <2>2 DEF WriterLoop, WriterTest, WriterLockNoFile
      <3>3. lock[h] # "writer"
        BY <3>1 DEF LockHeld, WriterGoes
      <3>4. lock' = [lock EXCEPT ![h] = lock[h]]
        BY <2>1, <3>2
      <3>5. QED
        BY <3>1, <3>3, <3>4, LockKeptByWriter
    <2>3. CASE WriterLock(h)
      BY <2>3, LockKeptByWriter DEF WriterLock
    <2>4. CASE WriterWrites(h)
      BY <2>4, LockKept DEF WriterWrites, DrainAt
    <2>5. CASE WriterDiscards(h)
      <3>1. lock[h] = "writer" /\ lock' = lock
        BY <2>5 DEF WriterDiscards, WriterGoes, LockHeld
      <3>2. lock' = [lock EXCEPT ![h] = lock[h]]
        BY <2>1, <3>1
      <3>3. QED
        BY <2>5, <3>1, <3>2, LockKeptByWriter DEF WriterDiscards
    <2>6. CASE WriterFails(h) \/ WriterReturns(h)
      <3>1. PICK pc \in {"write", "discard"} : WriterGoes(h, pc, "loop")
        BY <2>6 DEF WriterFails, WriterReturns
      <3>2. lock[h] = "writer"
        BY <3>1 DEF WriterGoes, LockHeld
      <3>3. lock' = [lock EXCEPT ![h] = "free"]
        BY <2>6 DEF WriterFails, WriterReturns
      <3>4. QED
        BY <3>1, <3>2, <3>3, LockKeptByWriter
    <2>7. QED
      BY <1>4, <2>2, <2>3, <2>4, <2>5, <2>6 DEF Writer
  <1>5. QED
    BY <1>1, <1>2, <1>3, <1>4 DEF Next

-----------------------------------------------------------------------------
(* The theorems *)

LEMMA RecorderInvCorrect == Spec => []RecorderInv
  <1>1. Init => RecorderInv
    BY InitTypeOK, InitVideo, InitDetection, InitWriters, InitLock
    DEF RecorderInv, DetectionInv
  <1>2. RecorderInv /\ [Next]_vars => RecorderInv'
    BY StepTypeOK, StepVideo, StepDetection, StepWriters, StepLock
    DEF RecorderInv, DetectionInv
  <1>3. QED
    BY <1>1, <1>2, PTL DEF Spec

(* A recording has every frame up to the latest, in order and once, in its  *)
(* file and its buffer, as long as neither the size limit nor a failed      *)
(* write has cost some.                                                     *)
THEOREM RecordingContiguous == Spec => []Contiguous
  <1>1. RecorderInv => Contiguous
    BY DEF RecorderInv, VideoInv
  <1>2. QED
    BY <1>1, RecorderInvCorrect, PTL

(* A recording begins with a key frame if one has come since the file       *)
(* before it was closed, and so can be played from its start.               *)
THEOREM RecordingBeginsWithKey == Spec => []BeginsWithKey
  <1>1. RecorderInv => BeginsWithKey
    BY DEF RecorderInv, VideoInv
  <1>2. QED
    BY <1>1, RecorderInvCorrect, PTL

(* Whenever the drain thread waits for the encoder, what is recorded is     *)
(* motion, and motion is recorded unless a file could not be opened.        *)
THEOREM MotionIsRecorded == Spec => []RecordsMotion
  <1>1. RecorderInv => RecordsMotion
    BY DEF RecorderInv
  <1>2. QED
    BY <1>1, RecorderInvCorrect, PTL

(* The files of a recording have living writers, but for one that ran ahead *)
(* of Open.                                                                 *)
THEOREM RecordingWritersLive == Spec => []RecordingHasWriters
  <1>1. RecorderInv => RecordingHasWriters
    BY DEF RecorderInv, MotionPhase, WriterLives, RecordingHasWriters, DrainAt
  <1>2. QED
    BY <1>1, RecorderInvCorrect, PTL

(* A writer that Close joins, and that was not about to take the lock when  *)
(* its file was closed, never comes to need the lock that the drain thread  *)
(* holds until it has joined it.                                            *)
THEOREM JoinNeedsNoLock == Spec => JoinedWriterEnds
  <1> DEFINE Ends(h) ==
        DrainAt("join", h) /\ writer[h] # "lock" =>
          \/ writer'[h] = writer[h] /\ ~Writer(h)
          \/ writer[h] = "test" /\ writer'[h] = "loop"
          \/ writer[h] = "loop" /\ writer'[h] = "ended"
          \/ Joined(h)
  <1>1. RecorderInv /\ Next => \A h \in Handles : Ends(h)
    <2> SUFFICES ASSUME RecorderInv, Next, NEW k \in Handles,
                        DrainAt("join", k), writer[k] # "lock"
                 PROVE  \/ writer'[k] = writer[k] /\ ~Writer(k)
                        \/ writer[k] = "test" /\ writer'[k] = "loop"
                        \/ writer[k] = "loop" /\ writer'[k] = "ended"
                        \/ Joined(k)
      OBVIOUS
    <2>1. /\ ~open[k] /\ writer[k] \notin {"write", "discard"}
          /\ lock[k] = "drain" /\ TypeOK
      BY DEF RecorderInv, MotionPhase, LockHeld
    <2>2. CASE Writer(k)
      <3>1. CASE WriterLoop(k)
        BY <2>1, <3>1 DEF WriterLoop, WriterGoes, TypeOK
      <3>2. CASE WriterTest(k)
        BY <2>1, <3>2 DEF WriterTest, WriterGoes, TypeOK
      <3>3. QED
        BY <2>1, <2>2, <3>1, <3>2
        DEF Writer, WriterLock, WriterLockNoFile, WriterWrites, WriterFails,
            WriterDiscards, WriterReturns, WriterGoes
    <2>3. ASSUME ~Writer(k) PROVE Joined(k) \/ writer'[k] = writer[k]
      <3>1. CASE FrameArrives \/ ImvArrives \/ Tick \/ StopCapture \/ DrainQuits
        BY <3>1 DEF FrameArrives, ImvArrives, Tick, StopCapture, DrainQuits
      <3>2. ASSUME NEW h \in Handles, DrainHandle(h) PROVE h = k /\ Joined(k)
        BY <3>2 DEF DrainHandle, Open, Rejoin, OpenFails, OpenSets, Close, Joined, DrainAt
      <3>3. ASSUME NEW h \in Handles, Writer(h) PROVE writer'[k] = writer[k]
        <4>1. h # k
          BY <2>3, <3>3
        <4>2. QED
          BY <2>1, <3>3, <4>1
          DEF Writer, WriterLoop, WriterTest, WriterLock, WriterLockNoFile,
              WriterWrites, WriterFails, WriterDiscards, WriterReturns, WriterGoes, TypeOK
      <3>4. QED
        BY <3>1, <3>2, <3>3 DEF Next
    <2>4. QED
      BY <2>2, <2>3
  <1>2. RecorderInv /\ [Next]_vars => [\A h \in Handles : Ends(h)]_vars
    BY <1>1
  <1>3. QED
    BY <1>2, RecorderInvCorrect, PTL DEF Spec, JoinedWriterEnds

(* A writer that was about to take the lock when Close took it, and the     *)
(* drain thread that joins it, wait for each other for good: nothing that   *)
(* any thread does parts them.                                              *)
THEOREM BlockedStaysBlocked == Spec => BlockedForGood
  <1>1. RecorderInv /\ [Next]_vars => [\A h \in Handles : Blocked(h) => Blocked(h)']_vars
    <2> SUFFICES ASSUME RecorderInv, Next, NEW k \in Handles, Blocked(k) PROVE Blocked(k)'
      OBVIOUS
    <2>1. DrainAt("join", k) /\ writer[k] = "lock" /\ lock[k] = "drain" /\ TypeOK
      BY DEF RecorderInv, Blocked, LockHeld
    <2>2. CASE FrameArrives \/ Tick \/ StopCapture
      BY <2>1, <2>2 DEF FrameArrives, Tick, StopCapture, Blocked, DrainAt
    <2>3. CASE ImvArrives \/ DrainQuits
      BY <2>1, <2>3 DEF ImvArrives, DrainQuits, Looping, DrainAt
    <2>4. ASSUME NEW h \in Handles, DrainHandle(h) PROVE FALSE
      BY <2>1, <2>4 DEF DrainHandle, Open, Rejoin, OpenFails, OpenSets, Close, Joined, DrainAt
    <2>5. ASSUME NEW h \in Handles, Writer(h) PROVE Blocked(k)'
      <3>1. h # k
        BY <2>1, <2>5
        DEF Writer, WriterLoop, WriterTest, WriterLock, WriterLockNoFile,
            WriterWrites, WriterFails, WriterDiscards, WriterReturns, WriterGoes
      <3>2. QED
        BY <2>1, <2>5, <3>1
        DEF Writer, WriterLoop, WriterTest, WriterLock, WriterLockNoFile,
            WriterWrites, WriterFails, WriterDiscards, WriterReturns, WriterGoes,
            TypeOK, Blocked, DrainAt
    <2>6. QED
      BY <2>2, <2>3, <2>4, <2>5 DEF Next
  <1>2. QED
    BY <1>1, RecorderInvCorrect, PTL DEF Spec, BlockedForGood
=============================================================================
