--------------------------- MODULE EncoderDelayProofs ---------------------------
(***************************************************************************)
(* Theorems about EncoderDelay for any resolutions, any number of tasks    *)
(* and any periods in the order of PeriodsOrder.                           *)
(***************************************************************************)
EXTENDS EncoderDelay, TLAPS

-----------------------------------------------------------------------------
(* Types *)

LEMMA ClockBoundNat ==
  /\ ClockBound \in Nat
  /\ \A n \in 0..ClockBound : Older(n) \in 0..ClockBound
  <1>1. CoolingDown \in Nat /\ Delaying \in Nat
    BY PeriodsAssumption
  <1>2. ClockBound \in Nat
    BY <1>1 DEF ClockBound
  <1>3. QED
    BY <1>2 DEF Older

Frames == [Threads -> [pc : PCs, res : AnyResolution]]

LEMMA FrameChanges ==
  ASSUME frame \in Frames, NEW t \in Threads, NEW pc \in PCs,
         NEW r \in AnyResolution
  PROVE  /\ Goto(t, pc) => frame' \in Frames
         /\ Enter(t, pc, r) => frame' \in Frames
         /\ Done(t) => frame' \in Frames
  <1>1. NoCall \in [pc : PCs, res : AnyResolution]
    BY DEF NoCall, PCs, AnyResolution
  <1>2. Goto(t, pc) => frame' \in Frames
    BY DEF Goto, Frames
  <1>3. Enter(t, pc, r) => frame' \in Frames
    BY DEF Enter, Frames
  <1>4. Done(t) => frame' \in Frames
    BY <1>1 DEF Done, Frames
  <1>5. QED
    BY <1>2, <1>3, <1>4

(* Where the threads are after each kind of step.                           *)
LEMMA FrameAfter ==
  ASSUME frame \in Frames, NEW t \in Threads, NEW pc, NEW r
  PROVE  /\ Goto(t, pc) => frame'[t].pc = pc
         /\ Enter(t, pc, r) => frame'[t].pc = pc
         /\ Done(t) => frame'[t].pc = "idle"
         /\ Goto(t, pc) \/ Enter(t, pc, r) \/ Done(t) =>
              \A u \in Threads \ {t} : frame'[u] = frame[u]
  BY DEF Frames, Goto, Enter, Done, NoCall

LEMMA InitTypeOK == Init => TypeOK
  <1> SUFFICES ASSUME Init PROVE TypeOK
    OBVIOUS
  <1>1. NoCall \in [pc : PCs, res : AnyResolution]
    BY DEF NoCall, PCs, AnyResolution
  <1>2. frame \in [Threads -> [pc : PCs, res : AnyResolution]]
    BY <1>1 DEF Init, Boot
  <1>3. 0 \in 0..ClockBound
    BY ClockBoundNat
  <1>4. timer \in [Tasks -> Nat \cup {None}]
    BY DEF Init, Boot
  <1>5. QED
    BY <1>2, <1>3, <1>4 DEF Init, Boot, TypeOK, AnyResolution

LEMMA InitMmalTyped ==
  ASSUME TypeOK, NEW r \in Resolutions \cup {MotionResolution}, InitMmal(r)
  PROVE  /\ wanted' \in AnyResolution /\ encoder' \in AnyResolution
         /\ inited' \in BOOLEAN /\ age' \in 0..ClockBound
         /\ change' = "none"
  <1>1. wanted' = r /\ encoder' \in {r, None} /\ age' = 0
        /\ inited' = (encoder' # None) /\ change' = "none"
    BY DEF InitMmal
  <1>2. age' \in 0..ClockBound
    BY <1>1, ClockBoundNat
  <1>3. QED
    BY <1>1, <1>2 DEF AnyResolution

LEMMA UninitMmalTyped ==
  ASSUME TypeOK, UninitMmal
  PROVE  /\ wanted' \in AnyResolution /\ encoder' \in AnyResolution
         /\ inited' = FALSE /\ age' \in 0..ClockBound
         /\ change' \in {"none", "made", "refused"}
  BY DEF UninitMmal, TypeOK, AnyResolution

LEMMA ReturnTyped ==
  ASSUME TypeOK, NEW t \in Threads, NEW ok \in BOOLEAN, Return(t, ok)
  PROVE  /\ frame' \in Frames
         /\ \A u \in Threads \ {t} : frame'[u] = frame[u]
         /\ frame'[t].pc = IF t = "task"
                           THEN IF ok THEN "stamp" ELSE "repost"
                           ELSE "idle"
  <1>1. frame \in Frames
    BY DEF TypeOK, Frames
  <1>2. CASE t = "task"
    <2>1. PICK pc \in PCs : pc = IF ok THEN "stamp" ELSE "repost"
      BY DEF PCs
    <2>2. Goto(t, pc)
      BY <1>2, <2>1 DEF Return
    <2>3. NoCall.res \in AnyResolution
      BY DEF NoCall, AnyResolution
    <2>4. frame' \in Frames
      BY <1>1, <2>2, <2>3, FrameChanges
    <2>5. QED
      BY <1>1, <1>2, <2>1, <2>2, <2>4, FrameAfter
  <1>3. CASE t # "task"
    <2>1. Done(t)
      BY <1>3 DEF Return
    <2>2. NoCall.res \in AnyResolution /\ "idle" \in PCs
      BY DEF NoCall, AnyResolution, PCs
    <2>3. frame' \in Frames
      BY <1>1, <2>1, <2>2, FrameChanges
    <2>4. QED
      BY <1>1, <1>3, <2>1, <2>3, FrameAfter
  <1>4. QED
    BY <1>2, <1>3

(* The variables that most steps do not touch.                              *)
MmalTyped ==
  /\ inited \in BOOLEAN
  /\ user \in {"none", "session", "motion"}
  /\ wanted \in AnyResolution
  /\ encoder \in AnyResolution
  /\ age \in 0..ClockBound
  /\ change \in {"none", "made", "refused"}
  /\ user = "none" => ~inited
DelayTyped ==
  /\ state \in {"idle", "delaying", "coolingdown"}
  /\ since \in 0..ClockBound
  /\ timer \in [Tasks -> Nat \cup {None}]
HistoryTyped == clean \in BOOLEAN /\ overlapped \in BOOLEAN

LEMMA TypeOKParts ==
  TypeOK <=> /\ MmalTyped /\ DelayTyped /\ HistoryTyped
             /\ frame \in Frames /\ fault \in BOOLEAN
  BY DEF TypeOK, MmalTyped, DelayTyped, HistoryTyped, Frames

LEMMA SameTyped ==
  ASSUME TypeOK
  PROVE  /\ UNCHANGED mmalVars => MmalTyped'
         /\ UNCHANGED delayVars => DelayTyped'
  BY DEF TypeOK, MmalTyped, DelayTyped, mmalVars, delayVars

StepTyped ==
  /\ MmalTyped' /\ DelayTyped'
  /\ frame' \in Frames /\ fault' \in BOOLEAN

LEMMA ReinitTyped ==
  ASSUME TypeOK, NEW t \in Threads, Reinit(t)
  PROVE  StepTyped
  <1>1. frame \in Frames /\ "build" \in PCs
    BY DEF TypeOK, Frames, PCs
  <1>2. frame[t].res \in AnyResolution
    BY <1>1 DEF Frames
  <1>3. DelayTyped' /\ fault' \in BOOLEAN
    BY DEF Reinit, TypeOK, DelayTyped, delayVars
  <1>4. frame' \in Frames
    <2>1. CASE Return(t, FALSE)
      BY <2>1, ReturnTyped
    <2>2. CASE Goto(t, "build")
      BY <1>1, <1>2, <2>2, FrameChanges
    <2>3. QED
      BY <2>1, <2>2 DEF Reinit
  <1>5. MmalTyped'
    BY <1>2 DEF Reinit, TypeOK, MmalTyped
  <1>6. QED
    BY <1>3, <1>4, <1>5 DEF StepTyped

LEMMA BuildTyped ==
  ASSUME TypeOK, NEW t \in Threads, Build(t)
  PROVE  StepTyped
  <1>1. CASE Crash
    BY <1>1, SameTyped DEF Crash, StepTyped, TypeOK, Frames
  <1>2. CASE ~Crash
    <2>1. /\ UNCHANGED <<delayVars, inited, user, wanted, fault>>
          /\ Return(t, TRUE) \/ Return(t, FALSE)
          /\ encoder' \in {wanted, encoder, None}
          /\ age' = age \/ age' = 0
          /\ change' \in {change, "made", "refused"}
      BY <1>2 DEF Build, Rebuild, RebuildFails
    <2>2. frame' \in Frames
      BY <2>1, ReturnTyped
    <2>3. age' \in 0..ClockBound
      BY <2>1, ClockBoundNat DEF TypeOK
    <2>4. MmalTyped'
      BY <2>1, <2>3 DEF TypeOK, MmalTyped, AnyResolution
    <2>5. DelayTyped' /\ fault' \in BOOLEAN
      BY <2>1, SameTyped DEF TypeOK
    <2>6. QED
      BY <2>2, <2>4, <2>5 DEF StepTyped
  <1>3. QED
    BY <1>1, <1>2

LEMMA SessionTyped ==
  ASSUME TypeOK,
         \/ \E r \in Resolutions : SessionStart(r) \/ SetRates(r)
         \/ SessionStop \/ SetEncodingParams \/ Delay
  PROVE  StepTyped
  <1>1. /\ frame \in Frames /\ "session" \in Threads
        /\ {"idle", "reinit", "set", "set_delay", "delay"} \subseteq PCs
        /\ Resolutions \cup {None} \subseteq AnyResolution
    BY DEF TypeOK, Frames, PCs, Threads, AnyResolution
  <1>2. fault' \in BOOLEAN
    BY DEF TypeOK, SessionStart, SetRates, SessionStop, SetEncodingParams,
           Delay
  <1>3. ASSUME NEW r \in Resolutions, SessionStart(r) PROVE StepTyped
    <2>1. InitMmal(r) /\ user' = "session"
      BY <1>3 DEF SessionStart
    <2>2. MmalTyped'
      BY <2>1, InitMmalTyped DEF MmalTyped
    <2>3. PICK k \in Tasks : timer' = [timer EXCEPT ![k] = InitialDelay]
      BY <1>3 DEF SessionStart
    <2>4. timer' \in [Tasks -> Nat \cup {None}]
      BY <2>3, PeriodsAssumption DEF TypeOK
    <2>5. DelayTyped' /\ frame' \in Frames
      BY <1>1, <1>3, <2>4 DEF SessionStart, DelayTyped, TypeOK
    <2>6. QED
      BY <1>2, <2>2, <2>5 DEF StepTyped
  <1>4. ASSUME NEW r \in Resolutions, SetRates(r) PROVE StepTyped
    <2>1. PICK pc \in {"reinit", "set", "set_delay"} : Enter("session", pc, r)
      BY <1>4 DEF SetRates
    <2>2. frame' \in Frames
      BY <1>1, <2>1, FrameChanges
    <2>3. MmalTyped'
      BY <1>4, SameTyped DEF SetRates
    <2>4. DelayTyped'
      BY <1>4 DEF SetRates, DelayTyped, TypeOK
    <2>5. QED
      BY <1>2, <2>2, <2>3, <2>4 DEF StepTyped
  <1>5. CASE SessionStop
    <2>1. MmalTyped'
      BY <1>5, UninitMmalTyped DEF SessionStop, MmalTyped
    <2>2. DelayTyped' /\ frame' \in Frames
      BY <1>1, <1>5, SameTyped DEF SessionStop
    <2>3. QED
      BY <1>2, <2>1, <2>2 DEF StepTyped
  <1>6. CASE SetEncodingParams
    <2>1. Goto("session", "delay") \/ Done("session")
      BY <1>6 DEF SetEncodingParams
    <2>2. frame' \in Frames
      BY <1>1, <2>1, FrameChanges
    <2>3. frame["session"].res \in AnyResolution
      BY <1>1 DEF Frames
    <2>4. MmalTyped'
      BY <1>6, <2>3 DEF SetEncodingParams, MmalTyped, TypeOK
    <2>5. DelayTyped'
      BY <1>6, SameTyped DEF SetEncodingParams
    <2>6. QED
      BY <1>2, <2>2, <2>4, <2>5 DEF StepTyped
  <1>7. CASE Delay
    <2>1. frame' \in Frames
      BY <1>1, <1>7, FrameChanges DEF Delay
    <2>2. DelayTyped'
      BY <1>7 DEF Delay, DelayTyped, TypeOK
    <2>3. MmalTyped'
      BY <1>7, SameTyped DEF Delay
    <2>4. QED
      BY <1>2, <2>1, <2>2, <2>3 DEF StepTyped
  <1>8. QED
    BY <1>3, <1>4, <1>5, <1>6, <1>7

LEMMA OthersTyped ==
  ASSUME TypeOK, Apply \/ MotionStart \/ MotionStop
  PROVE  StepTyped
  <1>1. frame \in Frames /\ "apply" \in Threads /\ "reinit" \in PCs
        /\ wanted \in AnyResolution
    BY DEF TypeOK, Frames, PCs, Threads
  <1>2. fault' \in BOOLEAN /\ DelayTyped'
    BY SameTyped DEF TypeOK, Apply, MotionStart, MotionStop
  <1>3. CASE Apply
    <2>1. frame' \in Frames
      BY <1>1, <1>3, FrameChanges DEF Apply
    <2>2. MmalTyped'
      BY <1>3, SameTyped DEF Apply
    <2>3. QED
      BY <1>2, <2>1, <2>2 DEF StepTyped
  <1>4. CASE MotionStart
    <2>1. InitMmal(MotionResolution) /\ user' = "motion"
      BY <1>4 DEF MotionStart
    <2>2. MmalTyped'
      BY <2>1, InitMmalTyped DEF MmalTyped
    <2>3. QED
      BY <1>1, <1>2, <1>4, <2>2 DEF StepTyped, MotionStart
  <1>5. CASE MotionStop
    <2>1. MmalTyped'
      BY <1>5, UninitMmalTyped DEF MotionStop, MmalTyped
    <2>2. QED
      BY <1>1, <1>2, <1>5, <2>1 DEF StepTyped, MotionStop
  <1>6. QED
    BY <1>3, <1>4, <1>5

(* Where a task goes on after it has looked at the state.                   *)
LEMMA UpdateTyped ==
  ASSUME TypeOK, UpdateStateOrMayInit
  PROVE  /\ state' \in {"idle", "delaying", "coolingdown"}
         /\ frame' \in Frames
         /\ frame'["task"].pc \in {"reinit", "to_idle", "stamp"}
         /\ \A u \in Threads \ {"task"} : frame'[u] = frame[u]
  <1>1. /\ frame \in Frames /\ "task" \in Threads
        /\ {"reinit", "to_idle", "stamp"} \subseteq PCs
        /\ wanted \in AnyResolution
    BY DEF TypeOK, Frames, Threads, PCs
  <1>2. PICK pc \in {"reinit", "to_idle", "stamp"} :
          Goto("task", pc) \/ Enter("task", pc, wanted)
    BY DEF UpdateStateOrMayInit
  <1>3. frame' \in Frames
    BY <1>1, <1>2, FrameChanges
  <1>4. /\ frame'["task"].pc = pc
        /\ \A u \in Threads \ {"task"} : frame'[u] = frame[u]
    BY <1>1, <1>2, FrameAfter
  <1>5. QED
    BY <1>2, <1>3, <1>4 DEF UpdateStateOrMayInit, TypeOK

LEMMA TaskTyped ==
  ASSUME TypeOK, ToIdle \/ Stamp \/ \E k \in Tasks : Poll(k) \/ Repost(k)
  PROVE  StepTyped
  <1>1. /\ frame \in Frames /\ "task" \in Threads
        /\ {"idle", "stamp", "repost"} \subseteq PCs
        /\ None \in AnyResolution
    BY DEF TypeOK, Frames, Threads, PCs, AnyResolution
  <1>2. MmalTyped' /\ fault' \in BOOLEAN
    BY SameTyped DEF TypeOK, Poll, ToIdle, Stamp, Repost
  <1>3. since' \in 0..ClockBound
    BY ClockBoundNat DEF TypeOK, Poll, ToIdle, Stamp, Repost
  <1>4. timer' \in [Tasks -> Nat \cup {None}]
    BY PeriodsAssumption DEF TypeOK, Poll, ToIdle, Stamp, Repost
  <1>5. state' \in {"idle", "delaying", "coolingdown"} /\ frame' \in Frames
    <2>1. CASE \E k \in Tasks : Poll(k)
      BY <1>1, <2>1, UpdateTyped DEF Poll, TypeOK
    <2>2. CASE ToIdle
      BY <1>1, <2>2, FrameChanges DEF ToIdle
    <2>3. CASE Stamp
      BY <1>1, <2>3, FrameChanges DEF Stamp, TypeOK
    <2>4. CASE \E k \in Tasks : Repost(k)
      BY <1>1, <2>4, FrameChanges DEF Repost, TypeOK
    <2>5. QED
      BY <2>1, <2>2, <2>3, <2>4
  <1>6. QED
    BY <1>2, <1>3, <1>4, <1>5 DEF StepTyped, DelayTyped

LEMMA TickTyped ==
  ASSUME TypeOK, Tick
  PROVE  StepTyped
  <1>1. since' \in 0..ClockBound /\ age' \in 0..ClockBound
    BY ClockBoundNat DEF Tick, TypeOK
  <1>2. timer' \in [Tasks -> Nat \cup {None}]
    <2>1. ASSUME NEW k \in Queued PROVE timer[k] - 1 \in Nat
      BY <2>1 DEF Tick, Queued, TypeOK
    <2>2. QED
      BY <2>1 DEF Tick
  <1>3. QED
    BY <1>1, <1>2 DEF Tick, StepTyped, MmalTyped, DelayTyped, TypeOK, Frames

LEMMA RestartTyped ==
  ASSUME Restart
  PROVE  StepTyped
  <1>1. NoCall \in [pc : PCs, res : AnyResolution]
    BY DEF NoCall, PCs, AnyResolution
  <1>2. frame' \in Frames
    BY <1>1 DEF Restart, Boot, Frames
  <1>3. 0 \in 0..ClockBound
    BY ClockBoundNat
  <1>4. timer' \in [Tasks -> Nat \cup {None}]
    BY DEF Restart, Boot
  <1>5. QED
    BY <1>2, <1>3, <1>4 DEF Restart, Boot, StepTyped, MmalTyped, DelayTyped,
                            AnyResolution

LEMMA StepIsTyped ==
  ASSUME TypeOK, Step
  PROVE  StepTyped
  <1>1. CASE \E r \in Resolutions : SessionStart(r) \/ SetRates(r)
    BY <1>1, SessionTyped
  <1>2. CASE SessionStop
    BY <1>2, SessionTyped
  <1>3. CASE SetEncodingParams \/ Delay
    BY <1>3, SessionTyped
  <1>4. CASE Apply \/ MotionStart \/ MotionStop
    BY <1>4, OthersTyped
  <1>5. CASE \E t \in Threads : Reinit(t) \/ Build(t)
    BY <1>5, ReinitTyped, BuildTyped
  <1>6. CASE \E k \in Tasks : Poll(k) \/ Repost(k)
    BY <1>6, TaskTyped
  <1>7. CASE ToIdle \/ Stamp
    BY <1>7, TaskTyped
  <1>8. CASE Tick
    BY <1>8, TickTyped
  <1>9. CASE Restart
    BY <1>9, RestartTyped
  <1>10. QED
    BY <1>1, <1>2, <1>3, <1>4, <1>5, <1>6, <1>7, <1>8, <1>9
       DEF Step, SessionStep, ApplyStep, TaskStep, Threads

LEMMA StepTypeOK == TypeOK /\ [Next]_vars => TypeOK'
  <1> SUFFICES ASSUME TypeOK, [Next]_vars PROVE TypeOK'
    OBVIOUS
  <1>1. CASE Next
    <2>1. StepTyped
      BY <1>1, StepIsTyped DEF Next
    <2>2. HistoryTyped'
      BY <1>1 DEF Next, History, HistoryTyped, TypeOK
    <2>3. QED
      BY <2>1, <2>2 DEF StepTyped, HistoryTyped, MmalTyped, DelayTyped, Frames,
                        TypeOK
  <1>2. CASE UNCHANGED vars
    BY <1>2 DEF vars, delayVars, mmalVars, historyVars, TypeOK
  <1>3. QED
    BY <1>1, <1>2

(* The state, the timers and the calls of EncoderDelayedInit and of the     *)
(* encoder wrapper are well-formed in every state.                          *)
THEOREM DelayTypeCorrect == Spec => []TypeOK
  <1>1. QED
    BY InitTypeOK, StepTypeOK, PTL DEF Spec

-----------------------------------------------------------------------------
(* A task polls for every session *)

(* Steps that leave a task queued if one was.                               *)
LEMMA QueuedKept ==
  ASSUME TypeOK, Step, Queued # {}, ~Restart
  PROVE  Queued' # {} \/ ~inited
  <1>1. PICK q \in Tasks : timer[q] # None
    BY DEF Queued
  <1>2. timer \in [Tasks -> Nat \cup {None}]
    BY DEF TypeOK
  <1>3. CASE UNCHANGED timer
    BY <1>3 DEF Queued
  <1>4. ASSUME NEW k \in Tasks, NEW d \in Nat,
               timer' = [timer EXCEPT ![k] = d]
        PROVE  Queued' # {}
    BY <1>2, <1>4, NoneAssumption DEF Queued
  <1>5. ASSUME NEW r \in Resolutions, SessionStart(r) PROVE Queued' # {}
    BY <1>4, <1>5, PeriodsAssumption DEF SessionStart
  <1>6. ASSUME NEW k \in Tasks, Repost(k) PROVE Queued' # {}
    <2>1. PICK d \in Nat : timer' = [timer EXCEPT ![k] = d]
      BY <1>6, PeriodsAssumption DEF Repost
    <2>2. QED
      BY <1>4, <2>1
  <1>7. ASSUME NEW k \in Tasks, Poll(k) PROVE UNCHANGED timer \/ ~inited
    BY <1>7 DEF Poll
  <1>8. CASE Tick
    <2>1. q \in Queued /\ timer[q] \in Nat /\ timer[q] > 0
      BY <1>1, <1>2, <1>8 DEF Tick, Queued
    <2>2. timer[q] - 1 \in Nat
      BY <2>1
    <2>3. timer'[q] = timer[q] - 1
      BY <1>8, <2>1 DEF Tick
    <2>4. QED
      BY <2>2, <2>3, NoneAssumption DEF Queued
  <1>9. CASE \/ \E r \in Resolutions : SetRates(r)
             \/ SessionStop \/ SetEncodingParams \/ Delay
             \/ Apply \/ MotionStart \/ MotionStop
             \/ ToIdle \/ Stamp \/ \E t \in Threads : Reinit(t) \/ Build(t)
    <2>1. UNCHANGED timer
      BY <1>9 DEF SetRates, SessionStop, SetEncodingParams, Delay, Apply,
                  MotionStart, MotionStop, ToIdle, Stamp, Reinit, Build,
                  Rebuild, RebuildFails, Crash, delayVars
    <2>2. QED
      BY <1>3, <2>1
  <1>10. QED
    BY <1>3, <1>5, <1>6, <1>7, <1>8, <1>9
       DEF Step, SessionStep, ApplyStep, TaskStep, Threads

LEMMA StepSessionPolled ==
  TypeOK /\ SessionPolled /\ [Next]_vars => SessionPolled'
  <1> SUFFICES ASSUME TypeOK, SessionPolled, [Next]_vars,
                      user' = "session", inited'
               PROVE  Queued' # {}
    BY DEF SessionPolled
  <1>1. CASE UNCHANGED vars
    BY <1>1 DEF vars, delayVars, mmalVars, SessionPolled, Queued
  <1>2. CASE Step
    <2>1. ~Restart
      BY DEF Restart, Boot
    <2>2. ASSUME NEW r \in Resolutions, SessionStart(r) PROVE Queued' # {}
      <3>1. PICK k \in Tasks : timer' = [timer EXCEPT ![k] = InitialDelay]
        BY <2>2 DEF SessionStart
      <3>2. timer'[k] = InitialDelay
        BY <3>1 DEF TypeOK
      <3>3. QED
        BY <3>2, NoneAssumption, PeriodsAssumption DEF Queued
    <2>3. CASE ~\E r \in Resolutions : SessionStart(r)
      <3>1. user = "session" /\ inited
        BY <1>2, <2>1, <2>3
           DEF Step, SessionStep, ApplyStep, TaskStep, SetRates, SessionStop,
               SetEncodingParams, Delay, Apply, MotionStart, MotionStop,
               ToIdle, Stamp, Reinit, Build, Rebuild, RebuildFails, Crash,
               Poll, Repost, Tick, UninitMmal, mmalVars
      <3>2. Queued # {}
        BY <3>1 DEF SessionPolled
      <3>3. QED
        BY <1>2, <2>1, <3>1, <3>2, QueuedKept
    <2>4. QED
      BY <2>2, <2>3
  <1>3. QED
    BY <1>1, <1>2 DEF Next

(* While a session has an initialised encoder a task polls for it: the one  *)
(* that InitEncoder posted, which ends only when the encoder is released.   *)
THEOREM SessionIsPolled == Spec => []SessionPolled
  <1>1. Init => SessionPolled
    BY DEF Init, Boot, SessionPolled
  <1>2. QED
    BY <1>1, InitTypeOK, StepTypeOK, StepSessionPolled, PTL DEF Spec

-----------------------------------------------------------------------------
(* No change is lost as long as calls do not overlap *)

(* What was asked for last is built or left to a task.                      *)
Settled ==
  inited /\ encoder # None /\ change # "refused" =>
    encoder = wanted \/ (state = "delaying" /\ Queued # {})

(* How far a call may be from that: it is about to build the components, or *)
(* to delay the change, at the places that are not listed.                  *)
Phase(t) ==
  /\ frame[t].pc = "set" => state = "delaying"
  /\ frame[t].pc = "delay" => state = "coolingdown"
  /\ frame[t].pc \in {"set_delay", "to_idle"} =>
       state = "coolingdown" /\ Settled
  /\ frame[t].pc \in {"stamp", "repost"} => Settled

Alone == \A t \in Busy : Busy = {t}

DelayInv ==
  /\ TypeOK
  /\ SessionPolled
  /\ frame["session"].pc # "idle" => user = "session"
  /\ ~overlapped =>
       /\ Alone
       /\ Busy = {} => Settled
       /\ \A t \in Threads : Phase(t)

LEMMA SessionCallsKept ==
  ASSUME DelayInv, Next
  PROVE  frame'["session"].pc # "idle" => user' = "session"
  <1>1. frame \in Frames /\ Threads = {"session", "task", "apply"}
    BY DEF DelayInv, TypeOK, Frames, Threads
  <1>2. Step
    BY DEF Next
  <1>3. CASE \/ \E r \in Resolutions : SessionStart(r)
             \/ SessionStop \/ MotionStart \/ MotionStop
    BY <1>3 DEF SessionStart, SessionStop, MotionStart, MotionStop, Idle
  <1>4. CASE \E r \in Resolutions : SetRates(r)
    BY <1>4 DEF SetRates, mmalVars
  <1>5. CASE SetEncodingParams \/ Delay
    BY <1>5 DEF DelayInv, SetEncodingParams, Delay, At, mmalVars
  <1>6. CASE Reinit("session") \/ Build("session")
    BY <1>6 DEF DelayInv, Reinit, Build, Rebuild, RebuildFails, At, Crash,
                mmalVars
  <1>7. CASE Tick \/ Restart
    BY <1>1, <1>7 DEF DelayInv, Tick, Restart, Boot, NoCall
  <1>8. CASE \/ Apply \/ Reinit("apply") \/ Build("apply")
             \/ Reinit("task") \/ Build("task") \/ ToIdle \/ Stamp
             \/ \E k \in Tasks : Poll(k) \/ Repost(k)
    <2>1. user' = user
      BY <1>8 DEF Apply, Reinit, Build, Rebuild, RebuildFails, ToIdle, Stamp,
                  Poll, Repost, Crash, mmalVars
    <2>2. frame'["session"] = frame["session"]
      <3>1. CASE Apply
        BY <1>1, <3>1, FrameAfter DEF Apply
      <3>2. CASE ToIdle \/ Stamp \/ \E k \in Tasks : Repost(k)
        BY <1>1, <3>2, FrameAfter DEF ToIdle, Stamp, Repost
      <3>3. CASE \E k \in Tasks : Poll(k)
        BY <1>1, <3>3, UpdateTyped DEF Poll, DelayInv
      <3>4. ASSUME NEW t \in {"apply", "task"}, Reinit(t) \/ Build(t)
            PROVE  frame'["session"] = frame["session"]
        <4>1. \/ frame' = frame
              \/ Goto(t, "build")
              \/ \E ok \in BOOLEAN : Return(t, ok)
          BY <3>4 DEF Reinit, Build, Rebuild, RebuildFails, Crash
        <4>2. QED
          BY <1>1, <3>4, <4>1, FrameAfter, ReturnTyped DEF DelayInv
      <3>5. QED
        BY <1>8, <3>1, <3>2, <3>3, <3>4
    <2>3. QED
      BY <2>1, <2>2 DEF DelayInv
  <1>9. QED
    BY <1>2, <1>3, <1>4, <1>5, <1>6, <1>7, <1>8
       DEF Step, SessionStep, ApplyStep, TaskStep

(* The rest of the invariant after a step, given that calls have not        *)
(* overlapped up to then.                                                   *)
QuietAfter ==
  /\ Busy' = {} => Settled'
  /\ \A t \in Threads : Phase(t)'

(* A step of one thread, begun or ended in a call: the others are in none.  *)
LEMMA OneThread ==
  ASSUME DelayInv, ~overlapped, Alone', NEW t \in Threads,
         t \in Busy \/ t \in Busy',
         \A u \in Threads \ {t} : frame'[u] = frame[u],
         Phase(t)',
         frame'[t].pc = "idle" => Settled'
  PROVE  QuietAfter
  <1>1. Alone
    BY DEF DelayInv
  <1>2. \A u \in Threads \ {t} : frame'[u].pc = "idle"
    BY <1>1 DEF Alone, Busy
  <1>3. \A u \in Threads \ {t} : Phase(u)'
    BY <1>2 DEF Phase
  <1>4. Busy' = {} => frame'[t].pc = "idle"
    BY DEF Busy
  <1>5. QED
    BY <1>3, <1>4 DEF QuietAfter

(* A step while no thread is in a call, and after which none is.            *)
LEMMA NoThread ==
  ASSUME Busy = {}, \A t \in Threads : frame'[t].pc = frame[t].pc, Settled'
  PROVE  QuietAfter
  <1>1. \A t \in Threads : frame'[t].pc = "idle"
    BY DEF Busy
  <1>2. QED
    BY <1>1 DEF QuietAfter, Phase

(* A thread that enters a call finds the others in none.                    *)
LEMMA EntersAlone ==
  ASSUME DelayInv, ~overlapped, Alone', NEW t \in Threads,
         frame[t].pc = "idle", frame'[t].pc # "idle",
         \A u \in Threads \ {t} : frame'[u] = frame[u]
  PROVE  Busy = {} /\ Settled
  <1>1. \A u \in Threads \ {t} : frame'[u].pc = "idle"
    BY DEF Alone, Busy
  <1>2. Busy = {}
    BY <1>1 DEF Busy
  <1>3. QED
    BY <1>2 DEF DelayInv

LEMMA SameSettled ==
  ASSUME Settled, UNCHANGED <<inited, encoder, wanted, change>>, state' = state,
         Queued # {} => Queued' # {} \/ ~inited
  PROVE  Settled'
  BY DEF Settled

LEMMA QuietSession ==
  ASSUME DelayInv, ~overlapped, Alone', NEW r \in Resolutions,
         user' = user \/ Busy = {},
         SessionStart(r) \/ SetRates(r)
  PROVE  QuietAfter
  <1>1. frame \in Frames /\ "session" \in Threads
    BY DEF DelayInv, TypeOK, Frames, Threads
  <1>2. CASE SessionStart(r)
    <2>1. Busy = {} /\ frame' = frame
      BY <1>2 DEF SessionStart
    <2>2. Settled'
      BY <1>2 DEF SessionStart, InitMmal, Settled
    <2>3. QED
      BY <2>1, <2>2, NoThread
  <1>3. CASE SetRates(r)
    <2>1. PICK pc \in {"reinit", "set", "set_delay"} : Enter("session", pc, r)
      BY <1>3 DEF SetRates
    <2>2. /\ frame'["session"].pc = pc
          /\ \A u \in Threads \ {"session"} : frame'[u] = frame[u]
      BY <1>1, <2>1, FrameAfter
    <2>3. Settled
      BY <1>1, <1>3, <2>2, EntersAlone DEF SetRates, Idle
    <2>4. Phase("session")'
      <3>1. CASE state = "idle"
        <4>1. frame'["session"].pc = "reinit"
          BY <1>1, <1>3, <3>1, FrameAfter DEF SetRates
        <4>2. QED
          BY <4>1 DEF Phase
      <3>2. CASE state = "delaying"
        <4>1. frame'["session"].pc = "set" /\ state' = "delaying"
          BY <1>1, <1>3, <3>2, FrameAfter DEF SetRates
        <4>2. QED
          BY <4>1 DEF Phase
      <3>3. CASE state = "coolingdown"
        <4>1. frame'["session"].pc = "set_delay" /\ state' = "coolingdown"
          BY <1>1, <1>3, <3>3, FrameAfter DEF SetRates
        <4>2. UNCHANGED <<inited, encoder, wanted, change, timer, state>>
          BY <1>3, <3>3 DEF SetRates, mmalVars
        <4>3. Settled'
          BY <2>3, <4>2, SameSettled DEF Queued
        <4>4. QED
          BY <4>1, <4>3 DEF Phase
      <3>4. QED
        BY <1>3, <3>1, <3>2, <3>3 DEF SetRates
    <2>5. "session" \in Busy'
      BY <1>1, <2>2 DEF Busy
    <2>6. QED
      BY <1>1, <2>2, <2>4, <2>5, OneThread
  <1>4. QED
    BY <1>2, <1>3

LEMMA QuietSessionCall ==
  ASSUME DelayInv, ~overlapped, Alone', SetEncodingParams \/ Delay
  PROVE  QuietAfter
  <1>1. frame \in Frames /\ "session" \in Threads /\ TypeOK
    BY DEF DelayInv, TypeOK, Frames, Threads
  <1>2. "session" \in Busy /\ user = "session"
    BY <1>1 DEF SetEncodingParams, Delay, At, Busy, DelayInv
  <1>3. inited => Queued # {}
    BY <1>2 DEF DelayInv, SessionPolled
  <1>4. UNCHANGED <<inited, timer, change>>
    BY DEF SetEncodingParams, Delay, delayVars, mmalVars
  <1>5. inited' => Queued' # {}
    BY <1>3, <1>4 DEF Queued
  <1>6. CASE SetEncodingParams
    <2>1. Goto("session", "delay") \/ Done("session")
      BY <1>6 DEF SetEncodingParams
    <2>2. /\ frame'["session"].pc \in {"delay", "idle"}
          /\ \A u \in Threads \ {"session"} : frame'[u] = frame[u]
      BY <1>1, <2>1, FrameAfter
    <2>3. Phase("session")'
      <3>1. CASE Done("session")
        BY <1>1, <3>1, FrameAfter DEF Phase
      <3>2. CASE Goto("session", "delay")
        <4>1. frame["session"].pc = "set_delay" /\ state' = state
          BY <1>1, <1>6, <3>2, FrameAfter
             DEF SetEncodingParams, At, Done, Goto, NoCall, Frames, delayVars
        <4>2. state = "coolingdown"
          BY <1>1, <4>1 DEF DelayInv, Phase
        <4>3. QED
          BY <1>1, <3>2, <4>1, <4>2, FrameAfter DEF Phase
      <3>3. QED
        BY <2>1, <3>1, <3>2
    <2>4. ASSUME frame'["session"].pc = "idle" PROVE Settled'
      <3>1. CASE At("session", "set")
        <4>1. state = "delaying" /\ state' = state
          BY <1>1, <1>6, <3>1 DEF At, DelayInv, Phase, SetEncodingParams,
                                  delayVars
        <4>2. QED
          BY <1>5, <4>1 DEF Settled
      <3>2. CASE At("session", "set_delay")
        <4>1. Settled /\ state' = state
          BY <1>1, <1>6, <3>2 DEF At, DelayInv, Phase, SetEncodingParams,
                                  delayVars
        <4>2. ~Goto("session", "delay")
          BY <1>1, <2>4, FrameAfter
        <4>3. wanted' = wanted /\ encoder' = encoder
          BY <1>6, <3>2, <4>2 DEF SetEncodingParams
        <4>4. QED
          BY <1>4, <4>1, <4>3, SameSettled DEF Queued
      <3>3. QED
        BY <1>6, <3>1, <3>2 DEF SetEncodingParams
    <2>5. QED
      BY <1>1, <1>2, <2>2, <2>3, <2>4, OneThread
  <1>7. CASE Delay
    <2>1. /\ frame'["session"].pc = "idle" /\ state' = "delaying"
          /\ \A u \in Threads \ {"session"} : frame'[u] = frame[u]
      BY <1>1, <1>7, FrameAfter DEF Delay
    <2>2. Settled'
      BY <1>5, <2>1 DEF Settled
    <2>3. Phase("session")'
      BY <2>1 DEF Phase
    <2>4. QED
      BY <1>1, <1>2, <2>1, <2>2, <2>3, OneThread
  <1>8. QED
    BY <1>6, <1>7

LEMMA QuietApply ==
  ASSUME DelayInv, ~overlapped, Alone', Apply
  PROVE  QuietAfter
  <1>1. frame \in Frames /\ "apply" \in Threads
    BY DEF DelayInv, TypeOK, Frames, Threads
  <1>2. /\ frame'["apply"].pc = "reinit"
        /\ \A u \in Threads \ {"apply"} : frame'[u] = frame[u]
    BY <1>1, FrameAfter DEF Apply
  <1>3. Phase("apply")' /\ "apply" \in Busy'
    BY <1>1, <1>2 DEF Phase, Busy
  <1>4. QED
    BY <1>1, <1>2, <1>3, OneThread

(* Building makes what was asked for, or has failed.                        *)
LEMMA QuietBuild ==
  ASSUME DelayInv, ~overlapped, Alone', NEW t \in Threads,
         Reinit(t) \/ Build(t)
  PROVE  QuietAfter
  <1>1. frame \in Frames /\ TypeOK
    BY DEF DelayInv, TypeOK, Frames
  <1>2. t \in Busy
    BY DEF Reinit, Build, At, Busy
  <1>3. CASE Crash
    <2>1. UNCHANGED <<state, timer, inited, encoder, wanted, change, frame>>
      BY <1>3 DEF Crash, delayVars, mmalVars
    <2>2. Busy' = Busy
      BY <2>1 DEF Busy
    <2>3. \A u \in Threads : Phase(u)'
      BY <2>1 DEF DelayInv, Phase, Settled, Queued
    <2>4. QED
      BY <1>2, <2>2, <2>3 DEF QuietAfter
  <1>4. CASE Goto(t, "build")
    <2>1. /\ frame'[t].pc = "build"
          /\ \A u \in Threads \ {t} : frame'[u] = frame[u]
      BY <1>1, <1>4, FrameAfter
    <2>2. Phase(t)'
      BY <2>1 DEF Phase
    <2>3. QED
      BY <1>2, <2>1, <2>2, OneThread
  <1>5. ASSUME NEW ok \in BOOLEAN, Return(t, ok), Settled'
        PROVE  QuietAfter
    <2>1. /\ frame'[t].pc \in {"stamp", "repost", "idle"}
          /\ \A u \in Threads \ {t} : frame'[u] = frame[u]
      BY <1>1, <1>5, ReturnTyped
    <2>2. Phase(t)'
      BY <1>5, <2>1 DEF Phase
    <2>3. QED
      BY <1>2, <1>5, <2>1, <2>2, OneThread
  <1>6. CASE Reinit(t)
    <2>1. CASE inited
      BY <1>4, <1>6, <2>1 DEF Reinit
    <2>2. CASE ~inited
      <3>1. Return(t, FALSE) /\ ~inited'
        BY <1>6, <2>2 DEF Reinit
      <3>2. QED
        BY <1>5, <3>1 DEF Settled
    <2>3. QED
      BY <2>1, <2>2
  <1>7. CASE Build(t) /\ ~Crash
    <2>1. /\ wanted' = wanted
          /\ encoder' = wanted \/ change' = "refused"
          /\ Return(t, TRUE) \/ Return(t, FALSE)
      BY <1>7 DEF Build, Rebuild, RebuildFails
    <2>2. Settled'
      BY <2>1 DEF Settled
    <2>3. QED
      BY <1>5, <2>1, <2>2
  <1>8. QED
    BY <1>3, <1>6, <1>7

LEMMA QuietPoll ==
  ASSUME DelayInv, ~overlapped, Alone', NEW k \in Tasks, Poll(k)
  PROVE  QuietAfter
  <1>1. frame \in Frames /\ "task" \in Threads /\ TypeOK
    BY DEF DelayInv, TypeOK, Frames, Threads
  <1>2. UNCHANGED <<inited, encoder, wanted, change>>
    BY DEF Poll, mmalVars
  <1>3. CASE ~inited
    <2>1. frame' = frame /\ state' = state /\ ~inited'
      BY <1>2, <1>3 DEF Poll
    <2>2. Settled'
      BY <2>1 DEF Settled
    <2>3. QED
      BY <2>1, <2>2 DEF QuietAfter, DelayInv, Phase
  <1>4. CASE inited
    <2>1. UpdateStateOrMayInit /\ timer' = timer
      BY <1>4 DEF Poll
    <2>2. /\ frame'["task"].pc \in {"reinit", "to_idle", "stamp"}
          /\ \A u \in Threads \ {"task"} : frame'[u] = frame[u]
      BY <1>1, <2>1, UpdateTyped
    <2>3. frame["task"].pc = "idle"
      BY DEF Poll, Idle
    <2>4. Settled
      BY <1>1, <2>2, <2>3, EntersAlone
    <2>5. CASE state' = state
      <3>1. Settled'
        BY <1>2, <2>1, <2>4, <2>5, SameSettled DEF Queued
      <3>2. frame'["task"].pc = "to_idle" => state' = "coolingdown"
        BY <1>1, <2>1, <2>5, FrameAfter DEF UpdateStateOrMayInit
      <3>3. Phase("task")'
        BY <2>2, <3>1, <3>2 DEF Phase
      <3>4. "task" \in Busy'
        BY <1>1, <2>2 DEF Busy
      <3>5. QED
        BY <1>1, <2>2, <3>3, <3>4, OneThread
    <2>6. CASE state' # state
      <3>1. frame'["task"].pc = "reinit"
        BY <1>1, <2>1, <2>6, FrameAfter DEF UpdateStateOrMayInit
      <3>2. Phase("task")' /\ "task" \in Busy'
        BY <1>1, <3>1 DEF Phase, Busy
      <3>3. QED
        BY <1>1, <2>2, <3>1, <3>2, OneThread
    <2>7. QED
      BY <2>5, <2>6
  <1>5. QED
    BY <1>1, <1>3, <1>4 DEF TypeOK

LEMMA QuietTask ==
  ASSUME DelayInv, ~overlapped, Alone',
         ToIdle \/ Stamp \/ \E k \in Tasks : Repost(k)
  PROVE  QuietAfter
  <1>1. frame \in Frames /\ "task" \in Threads /\ TypeOK
    BY DEF DelayInv, TypeOK, Frames, Threads
  <1>2. "task" \in Busy
    BY <1>1 DEF ToIdle, Stamp, Repost, At, Busy
  <1>3. UNCHANGED <<inited, encoder, wanted, change>>
    BY DEF ToIdle, Stamp, Repost, mmalVars
  <1>4. Settled
    BY <1>1 DEF ToIdle, Stamp, Repost, At, DelayInv, Phase
  <1>5. /\ frame'["task"].pc \in {"stamp", "repost", "idle"}
        /\ \A u \in Threads \ {"task"} : frame'[u] = frame[u]
    BY <1>1, FrameAfter DEF ToIdle, Stamp, Repost
  <1>6. Settled'
    <2>1. CASE ToIdle
      <3>1. state = "coolingdown"
        BY <1>1, <2>1 DEF ToIdle, At, DelayInv, Phase
      <3>2. QED
        BY <1>3, <1>4, <3>1 DEF Settled
    <2>2. CASE Stamp
      BY <1>3, <1>4, <2>2, SameSettled DEF Stamp, Queued
    <2>3. ASSUME NEW k \in Tasks, Repost(k) PROVE Settled'
      <3>1. PICK d \in Nat : timer' = [timer EXCEPT ![k] = d]
        BY <2>3, PeriodsAssumption DEF Repost
      <3>2. timer'[k] = d
        BY <1>1, <3>1 DEF TypeOK
      <3>3. Queued' # {}
        BY <3>2, NoneAssumption DEF Queued
      <3>4. QED
        BY <1>3, <1>4, <2>3, <3>3, SameSettled DEF Repost
    <2>4. QED
      BY <2>1, <2>2, <2>3
  <1>7. Phase("task")'
    BY <1>5, <1>6 DEF Phase
  <1>8. QED
    BY <1>1, <1>2, <1>5, <1>6, <1>7, OneThread

LEMMA QuietTick ==
  ASSUME DelayInv, ~overlapped, Tick
  PROVE  QuietAfter
  <1>1. /\ Busy = {} /\ frame' = frame /\ state' = state
        /\ UNCHANGED <<inited, encoder, wanted, change>>
    BY DEF Tick
  <1>2. Settled
    BY <1>1 DEF DelayInv
  <1>3. Queued # {} => Queued' # {} \/ ~inited
    <2>1. Step /\ ~Restart
      BY DEF Step, Tick, Restart
    <2>2. QED
      BY <2>1, QueuedKept DEF DelayInv
  <1>4. Settled'
    BY <1>1, <1>2, <1>3, SameSettled
  <1>5. QED
    BY <1>1, <1>4, NoThread

LEMMA QuietRestart ==
  ASSUME Restart
  PROVE  QuietAfter
  <1>1. ~inited' /\ \A t \in Threads : frame'[t].pc = "idle"
    BY DEF Restart, Boot, NoCall
  <1>2. QED
    BY <1>1 DEF QuietAfter, Settled, Phase

LEMMA StepDelayInv == DelayInv /\ [Next]_vars => DelayInv'
  <1> SUFFICES ASSUME DelayInv, [Next]_vars PROVE DelayInv'
    OBVIOUS
  <1>1. TypeOK' /\ SessionPolled'
    BY StepTypeOK, StepSessionPolled DEF DelayInv
  <1>2. CASE Next
    <2>1. frame'["session"].pc # "idle" => user' = "session"
      BY <1>2, SessionCallsKept
    <2>2. ASSUME ~overlapped' PROVE Alone' /\ QuietAfter
      <3>1. ~overlapped /\ Alone' /\ (user' = user \/ Busy = {})
        BY <1>2, <2>2 DEF Next, History, Alone, DelayInv, TypeOK
      <3>2. Step
        BY <1>2 DEF Next
      <3>3. CASE \E r \in Resolutions : SessionStart(r) \/ SetRates(r)
        BY <3>1, <3>3, QuietSession
      <3>4. CASE SessionStop \/ MotionStart \/ MotionStop
        <4>1. Busy = {} /\ frame' = frame /\ Settled'
          BY <3>1, <3>4
             DEF SessionStop, MotionStart, MotionStop, InitMmal, UninitMmal,
                 Settled
        <4>2. QED
          BY <3>1, <4>1, NoThread
      <3>5. CASE Apply
        BY <3>1, <3>5, QuietApply
      <3>6. CASE SetEncodingParams \/ Delay
        BY <3>1, <3>6, QuietSessionCall
      <3>7. CASE \E t \in Threads : Reinit(t) \/ Build(t)
        BY <3>1, <3>7, QuietBuild
      <3>8. CASE \E k \in Tasks : Poll(k)
        BY <3>1, <3>8, QuietPoll
      <3>9. CASE ToIdle \/ Stamp \/ \E k \in Tasks : Repost(k)
        BY <3>1, <3>9, QuietTask
      <3>10. CASE Tick
        BY <3>1, <3>10, QuietTick
      <3>11. CASE Restart
        BY <3>1, <3>11, QuietRestart
      <3>12. QED
        BY <3>2, <3>3, <3>4, <3>5, <3>6, <3>7, <3>8, <3>9, <3>10, <3>11
           DEF Step, SessionStep, ApplyStep, TaskStep, Threads
    <2>3. QED
      BY <1>1, <2>1, <2>2 DEF DelayInv, QuietAfter
  <1>3. CASE UNCHANGED vars
    BY <1>1, <1>3 DEF vars, delayVars, mmalVars, historyVars, DelayInv, Alone,
                      Busy, Phase, Settled, Queued
  <1>4. QED
    BY <1>2, <1>3

LEMMA InitDelayInv == Init => DelayInv
  <1> SUFFICES ASSUME Init PROVE DelayInv
    OBVIOUS
  <1>1. \A t \in Threads : frame[t].pc = "idle"
    BY DEF Init, Boot, NoCall
  <1>2. ~inited /\ user = "none"
    BY DEF Init, Boot
  <1>3. SessionPolled /\ Settled
    BY <1>2 DEF SessionPolled, Settled
  <1>4. Busy = {} /\ "session" \in Threads
    BY <1>1 DEF Busy, Threads
  <1>5. QED
    BY <1>1, <1>3, <1>4, InitTypeOK DEF DelayInv, Alone, Phase

-----------------------------------------------------------------------------
(* A running encoder is not rebuilt within the cooling-down period *)

(* The session may rebuild the components, or is about to.                  *)
Rebuilding ==
  state = "idle" \/ frame["session"].pc \in {"reinit", "build"}

(* One task polls, and for the session; while it runs it is due.            *)
TaskInv ==
  /\ \A j, k \in Queued : j = k
  /\ user = "motion" => Queued = {}
  /\ Busy # {} => user = "session"
  /\ frame["task"].pc # "idle" => \A k \in Queued : timer[k] = 0
  /\ \A t \in {"session", "task"} :
       frame[t].pc \in {"reinit", "build"} => state # "idle"

(* The timestamp is not older than the components when the task polls next, *)
(* or they are old enough then because that is its first poll, or the       *)
(* timestamp is too recent for that poll to change anything.                *)
PollSafe(k) ==
  \/ since <= age
  \/ age + timer[k] > CoolingDown
  \/ since + timer[k] <= IdleInterval

Spaced ==
  /\ Rebuilding \/ frame["task"].pc \in {"to_idle", "reinit", "build"} =>
       age > CoolingDown
  /\ frame["task"].pc = "repost" =>
       \/ since = 0
       \/ change = "refused" /\ age > CoolingDown /\ state # "idle"
  /\ frame["task"].pc # "stamp" =>
       \A k \in Queued :
         PollSafe(k) /\ (Rebuilding => since + timer[k] <= IdleInterval)

SpacedInv ==
  /\ encoder # None => inited
  /\ clean /\ ~overlapped =>
       TaskInv /\ (user = "session" /\ encoder # None => Spaced)

LEMMA SpacingNumbers ==
  ASSUME TypeOK
  PROVE  /\ \A k \in Queued : timer[k] \in Nat
         /\ since \in Nat /\ age \in Nat
         /\ {InitialDelay, ActiveInterval, IdleInterval, CoolingDown,
             Delaying, ClockBound} \subseteq Nat
  BY ClockBoundNat, PeriodsAssumption DEF TypeOK, Queued

LEMMA EncoderInited ==
  TypeOK /\ (encoder # None => inited) /\ Step => (encoder' # None => inited')
  <1> SUFFICES ASSUME TypeOK, encoder # None => inited, Step, encoder' # None
               PROVE  inited'
    OBVIOUS
  <1>1. CASE \E r \in Resolutions : SessionStart(r)
    BY <1>1 DEF SessionStart, InitMmal
  <1>2. CASE MotionStart
    BY <1>2 DEF MotionStart, InitMmal
  <1>3. CASE SessionStop \/ MotionStop
    BY <1>3 DEF SessionStop, MotionStop, UninitMmal
  <1>4. ASSUME NEW t \in Threads, Reinit(t) \/ Build(t) PROVE inited'
    <2>1. inited' = inited
      BY <1>4 DEF Reinit, Build, Rebuild, RebuildFails, Crash, mmalVars
    <2>2. encoder # None
      BY <1>4 DEF Reinit, Build, Rebuild, RebuildFails, Crash, mmalVars
    <2>3. QED
      BY <2>1, <2>2
  <1>5. CASE Restart
    BY <1>5 DEF Restart, Boot
  <1>6. CASE \/ \E r \in Resolutions : SetRates(r)
             \/ SetEncodingParams \/ Delay \/ Apply \/ ToIdle \/ Stamp \/ Tick
             \/ \E k \in Tasks : Poll(k) \/ Repost(k)
    BY <1>6 DEF SetRates, SetEncodingParams, Delay, Apply, ToIdle, Stamp, Tick,
                Poll, Repost, mmalVars
  <1>7. QED
    BY <1>1, <1>2, <1>3, <1>4, <1>5, <1>6
       DEF Step, SessionStep, ApplyStep, TaskStep, Threads

(* Steps before which no task outlived its session, and no calls overlapped. *)
QuietStep == DelayInv /\ SpacedInv /\ clean /\ ~overlapped /\ Alone'

SpacedAfter ==
  TaskInv' /\ (user' = "session" /\ encoder' # None => Spaced')

LEMMA QuietFacts ==
  ASSUME QuietStep
  PROVE  /\ TypeOK /\ frame \in Frames
         /\ Threads = {"session", "task", "apply"}
         /\ TaskInv
         /\ user = "session" /\ encoder # None => Spaced
  BY DEF QuietStep, DelayInv, SpacedInv, TypeOK, Frames, Threads

(* A step of a call of the session that leaves tasks and clocks alone.       *)
LEMMA SpacedSame ==
  ASSUME QuietStep, user = "session", user' = "session",
         UNCHANGED <<timer, since, age, change, frame["task"]>>,
         encoder' # None => encoder # None,
         Rebuilding' => Rebuilding,
         frame'["session"].pc \in {"reinit", "build"} => state' # "idle",
         frame["task"].pc \in {"reinit", "build"} => state' # "idle",
         frame["task"].pc = "repost" => state' = state
  PROVE  SpacedAfter
  <1>1. TaskInv'
    BY QuietFacts DEF TaskInv, Queued
  <1>2. ASSUME Spaced PROVE Spaced'
    BY <1>2 DEF Spaced, PollSafe, Queued
  <1>3. QED
    BY <1>1, <1>2, QuietFacts DEF SpacedAfter

(* The use by a session or by motion detection begins or ends.               *)
LEMMA SpacedUse ==
  ASSUME QuietStep, user' # user => Busy = {},
         user' \notin {user, "none"} => Queued = {},
         \/ \E r \in Resolutions : SessionStart(r)
         \/ SessionStop \/ MotionStart \/ MotionStop
  PROVE  SpacedAfter
  <1>0. user' # user /\ Busy = {} /\ frame' = frame
    BY DEF SessionStart, SessionStop, MotionStart, MotionStop
  <1>1. \A t \in Threads : frame'[t].pc = "idle"
    BY <1>0 DEF Busy
  <1>2. "session" \in Threads /\ "task" \in Threads
    BY QuietFacts
  <1>3. Busy' = {}
    BY <1>1 DEF Busy
  <1>4. CASE \E r \in Resolutions : SessionStart(r)
    <2>1. PICK k \in Tasks : timer' = [timer EXCEPT ![k] = InitialDelay]
      BY <1>4 DEF SessionStart
    <2>2. Queued = {} /\ user' = "session" /\ state' = "coolingdown"
      BY <1>0, <1>4 DEF SessionStart
    <2>3. \A j \in Queued' : j = k /\ timer'[j] = InitialDelay
      BY <2>1, <2>2, QuietFacts DEF Queued, TypeOK
    <2>4. TaskInv'
      BY <1>1, <1>2, <2>2, <2>3 DEF TaskInv
    <2>5. age' = 0
      BY <1>4 DEF SessionStart, InitMmal
    <2>6. ~Rebuilding'
      BY <1>1, <1>2, <2>2 DEF Rebuilding
    <2>7. \A j \in Queued' : PollSafe(j)'
      <3>1. InitialDelay \in Nat /\ age' + InitialDelay > CoolingDown
        BY <2>5, PeriodsAssumption, PeriodsOrder
      <3>2. QED
        BY <2>3, <3>1 DEF PollSafe
    <2>8. Spaced'
      BY <1>1, <1>2, <2>6, <2>7 DEF Spaced
    <2>9. QED
      BY <2>4, <2>8 DEF SpacedAfter
  <1>5. CASE MotionStart
    <2>1. Queued' = {} /\ user' = "motion"
      BY <1>0, <1>5 DEF MotionStart, delayVars, Queued
    <2>2. QED
      BY <1>1, <1>2, <1>3, <2>1 DEF TaskInv, SpacedAfter
  <1>6. CASE SessionStop \/ MotionStop
    <2>1. timer' = timer /\ user' = "none"
      BY <1>6 DEF SessionStop, MotionStop, delayVars
    <2>2. QED
      BY <1>1, <1>2, <1>3, <2>1, QuietFacts DEF TaskInv, SpacedAfter, Queued
  <1>7. QED
    BY <1>4, <1>5, <1>6

LEMMA SpacedSession ==
  ASSUME QuietStep,
         \/ \E r \in Resolutions : SetRates(r)
         \/ SetEncodingParams \/ Delay \/ Apply
  PROVE  SpacedAfter
  <1>1. frame \in Frames /\ "session" \in Threads /\ "task" \in Threads
        /\ "apply" \in Threads
    BY QuietFacts
  <1>2. UNCHANGED <<timer, since, age, change, encoder>> /\ user' = user
    BY DEF SetRates, SetEncodingParams, Delay, Apply, delayVars, mmalVars
  <1>3. user = "session"
    <2>1. CASE SetEncodingParams \/ Delay
      BY <2>1 DEF SetEncodingParams, Delay, At, QuietStep, DelayInv
    <2>2. CASE Apply \/ \E r \in Resolutions : SetRates(r)
      BY <2>2 DEF SetRates, Apply
    <2>3. QED
      BY <2>1, <2>2
  <1>4. frame'["task"] = frame["task"]
    <2>1. CASE SetEncodingParams \/ Delay
      <3>1. Goto("session", "delay") \/ Done("session")
        BY <2>1 DEF SetEncodingParams, Delay
      <3>2. QED
        BY <1>1, <3>1 DEF Goto, Done, Frames
    <2>2. CASE Apply
      BY <1>1, <2>2, FrameAfter DEF Apply
    <2>3. CASE \E r \in Resolutions : SetRates(r)
      BY <1>1, <2>3, FrameAfter DEF SetRates
    <2>4. QED
      BY <2>1, <2>2, <2>3
  <1>5. ASSUME NEW r \in Resolutions, SetRates(r) PROVE SpacedAfter
    <2>1. frame["session"].pc = "idle" /\ frame'["session"].pc # "idle"
          /\ \A u \in Threads \ {"session"} : frame'[u] = frame[u]
      BY <1>1, <1>5, FrameAfter DEF SetRates, Idle
    <2>2. Busy = {}
      BY <1>1, <2>1, EntersAlone DEF QuietStep
    <2>3. frame["task"].pc = "idle"
      BY <1>1, <2>2 DEF Busy
    <2>4. frame'["session"].pc = "reinit" =>
            state = "idle" /\ state' = "coolingdown"
      BY <1>1, <1>5, FrameAfter DEF SetRates
    <2>5. frame'["session"].pc \in {"reinit", "set", "set_delay"}
      BY <1>1, <1>5, FrameAfter DEF SetRates
    <2>6. Rebuilding' => Rebuilding
      BY <1>5, <2>4, <2>5 DEF Rebuilding, SetRates
    <2>7. QED
      BY <1>2, <1>3, <1>4, <2>3, <2>4, <2>5, <2>6, SpacedSame
  <1>6. CASE SetEncodingParams \/ Delay
    <2>1. frame["session"].pc \in {"set", "set_delay", "delay"}
      BY <1>6 DEF SetEncodingParams, Delay, At
    <2>2. frame'["session"].pc \in {"delay", "idle"}
      BY <1>1, <1>6, FrameAfter DEF SetEncodingParams, Delay
    <2>3. frame["task"].pc = "idle"
      BY <1>1, <2>1 DEF QuietStep, DelayInv, Alone, Busy
    <2>4. state' = state \/ state' = "delaying"
      BY <1>6 DEF SetEncodingParams, Delay, delayVars
    <2>5. QED
      BY <1>2, <1>3, <1>4, <2>2, <2>3, <2>4, SpacedSame DEF Rebuilding
  <1>7. CASE Apply
    <2>1. frame'["session"] = frame["session"] /\ state' = state
      BY <1>1, <1>7, FrameAfter DEF Apply, delayVars
    <2>2. QED
      BY <1>2, <1>3, <1>4, <2>1, SpacedSame, QuietFacts
         DEF Rebuilding, TaskInv
  <1>8. QED
    BY <1>5, <1>6, <1>7

LEMMA SpacedBuild ==
  ASSUME QuietStep, NEW t \in Threads, Reinit(t) \/ Build(t)
  PROVE  SpacedAfter
  <1>1. frame \in Frames /\ TypeOK /\ TaskInv /\ t \in Busy
        /\ "session" \in Threads /\ "task" \in Threads
    BY QuietFacts DEF Reinit, Build, At, Busy
  <1>2. UNCHANGED <<timer, since, state>> /\ user = "session"
        /\ user' = "session"
    BY <1>1 DEF Reinit, Build, Rebuild, RebuildFails, Crash, delayVars,
                mmalVars, TaskInv
  <1>3. \A u \in Threads \ {t} : frame[u].pc = "idle"
    BY <1>1 DEF QuietStep, DelayInv, Alone, Busy
  <1>4. \/ /\ frame'[t].pc \in {"build", "idle", "stamp", "repost"}
           /\ frame'[t].pc \in {"stamp", "repost"} => t = "task"
           /\ \A u \in Threads \ {t} : frame'[u] = frame[u]
        \/ frame' = frame
    <2>1. \/ Crash
          \/ Goto(t, "build")
          \/ \E ok \in BOOLEAN : Return(t, ok)
      BY DEF Reinit, Build, Rebuild, RebuildFails
    <2>2. CASE Crash
      BY <2>2 DEF Crash
    <2>3. CASE Goto(t, "build")
      BY <1>1, <2>3, FrameAfter
    <2>4. ASSUME NEW ok \in BOOLEAN, Return(t, ok)
          PROVE  /\ frame'[t].pc \in {"idle", "stamp", "repost"}
                 /\ frame'[t].pc \in {"stamp", "repost"} => t = "task"
                 /\ \A u \in Threads \ {t} : frame'[u] = frame[u]
      BY <1>1, <2>4, ReturnTyped
    <2>5. QED
      BY <2>1, <2>2, <2>3, <2>4
  <1>5. frame[t].pc \in {"reinit", "build"}
    BY DEF Reinit, Build, At
  <1>6. ASSUME NEW u \in {"session", "task"},
               frame'[u].pc \in {"reinit", "build"}
        PROVE  frame[u].pc \in {"reinit", "build"}
    BY <1>1, <1>3, <1>4, <1>5, <1>6
  <1>7. TaskInv'
    <2>1. \A u \in {"session", "task"} :
            frame'[u].pc \in {"reinit", "build"} => state' # "idle"
      BY <1>1, <1>2, <1>6 DEF TaskInv
    <2>2. frame'["task"].pc # "idle" => frame["task"].pc # "idle"
      BY <1>1, <1>3, <1>4, <1>5
    <2>3. QED
      BY <1>1, <1>2, <2>1, <2>2 DEF TaskInv, Queued
  <1>8. ASSUME encoder' # None PROVE Spaced'
    <2>1. encoder # None
      BY <1>8 DEF Reinit, Build, Rebuild, RebuildFails, Crash, mmalVars
    <2>2. Spaced
      BY <1>2, <2>1, QuietFacts
    <2>3. CASE age' = age
      <3>0. ASSUME frame'["task"].pc = "repost"
            PROVE  change' = "refused" /\ t = "task"
        <4>1. t = "task" /\ frame' # frame
          BY <1>1, <1>3, <1>4, <1>5, <3>0
        <4>2. ~Crash /\ ~Goto(t, "build") /\ ~Return(t, TRUE)
          BY <1>1, <3>0, <4>1, FrameAfter, ReturnTyped DEF Crash
        <4>3. RebuildFails(t)
          BY <2>1, <4>2 DEF Reinit, Build, Rebuild, SpacedInv, QuietStep
        <4>4. QED
          BY <4>1, <4>3 DEF RebuildFails
      <3>1. frame'["task"].pc = "repost" =>
              \/ since = 0
              \/ change' = "refused" /\ age > CoolingDown /\ state # "idle"
        BY <1>1, <1>5, <2>2, <3>0 DEF Spaced, TaskInv
      <3>2. Rebuilding' => Rebuilding
        BY <1>2, <1>6 DEF Rebuilding
      <3>3. frame'["task"].pc \in {"to_idle", "reinit", "build"} =>
              frame["task"].pc \in {"to_idle", "reinit", "build"}
        BY <1>1, <1>3, <1>4, <1>5
      <3>4. frame["task"].pc = "stamp" => frame'["task"].pc = "stamp"
        BY <1>1, <1>3, <1>4, <1>5
      <3>5. QED
        BY <1>2, <2>2, <2>3, <3>1, <3>2, <3>3, <3>4
           DEF Spaced, PollSafe, Queued
    <2>4. CASE age' # age
      <3>1. /\ t # "apply" /\ age' = 0 /\ Return(t, TRUE)
            /\ frame[t].pc = "build"
        BY <1>8, <2>4 DEF Reinit, Build, Rebuild, RebuildFails, Crash,
                          mmalVars, At
      <3>2. /\ frame'[t].pc = IF t = "task" THEN "stamp" ELSE "idle"
            /\ \A u \in Threads \ {t} : frame'[u] = frame[u]
        BY <1>1, <3>1, ReturnTyped
      <3>3. state # "idle"
        BY <1>1, <3>1, QuietFacts DEF TaskInv
      <3>4. ~Rebuilding'
        BY <1>1, <1>2, <1>3, <3>2, <3>3 DEF Rebuilding
      <3>5. CASE t = "task"
        BY <3>2, <3>4, <3>5 DEF Spaced
      <3>6. CASE t # "task"
        <4>1. t = "session" /\ Rebuilding /\ frame["task"].pc = "idle"
              /\ frame'["task"].pc = "idle"
          BY <1>1, <1>3, <3>1, <3>2, <3>6, QuietFacts DEF Rebuilding
        <4>2. \A k \in Queued : since + timer[k] <= IdleInterval
          BY <2>2, <4>1 DEF Spaced
        <4>3. \A k \in Queued' : PollSafe(k)'
          BY <1>2, <4>2 DEF PollSafe, Queued
        <4>4. QED
          BY <3>4, <4>1, <4>3 DEF Spaced
      <3>7. QED
        BY <3>5, <3>6
    <2>5. QED
      BY <2>3, <2>4
  <1>9. QED
    BY <1>7, <1>8 DEF SpacedAfter

(* The poll finds the encoder old enough for what it does about it.          *)
LEMMA SpacedPoll ==
  ASSUME QuietStep, NEW k \in Tasks, Poll(k)
  PROVE  SpacedAfter
  <1>1. frame \in Frames /\ TypeOK /\ TaskInv /\ "task" \in Threads
        /\ "session" \in Threads
    BY QuietFacts
  <1>2. UNCHANGED <<since, age, inited, user, encoder>>
    BY DEF Poll, mmalVars
  <1>3. k \in Queued /\ timer[k] = 0
    BY NoneAssumption DEF Poll, Queued
  <1>4. CASE ~inited
    <2>1. frame' = frame /\ timer' = [timer EXCEPT ![k] = None]
          /\ state' = state
      BY <1>4 DEF Poll
    <2>2. \A j \in Queued' : j \in Queued /\ timer'[j] = timer[j]
      BY <1>1, <2>1 DEF Queued, TypeOK
    <2>3. TaskInv'
      BY <1>1, <1>2, <2>1, <2>2 DEF TaskInv, Busy
    <2>4. encoder = None
      BY <1>4 DEF QuietStep, SpacedInv
    <2>5. QED
      BY <1>2, <2>3, <2>4 DEF SpacedAfter
  <1>5. CASE inited
    <2>1. UpdateStateOrMayInit /\ timer' = timer
      BY <1>5 DEF Poll
    <2>2. /\ frame'["task"].pc \in {"reinit", "to_idle", "stamp"}
          /\ \A u \in Threads \ {"task"} : frame'[u] = frame[u]
      BY <1>1, <2>1, UpdateTyped
    <2>3. user = "session"
      BY <1>1, <1>3, <1>5 DEF TypeOK, TaskInv
    <2>4. frame["task"].pc = "idle"
      BY DEF Poll, Idle
    <2>5. Busy = {}
      BY <1>1, <2>2, <2>4, EntersAlone DEF QuietStep
    <2>6. frame'["session"].pc = "idle"
      BY <1>1, <2>2, <2>5 DEF Busy
    <2>7. /\ frame'["task"].pc = "reinit" =>
               state' = "coolingdown" /\ since > Delaying
          /\ frame'["task"].pc = "to_idle" => since > CoolingDown
          /\ state' \in {state, "coolingdown"}
      BY <1>1, <2>1, FrameAfter DEF UpdateStateOrMayInit
    <2>8. \A j \in Queued : j = k
      BY <1>1, <1>3 DEF TaskInv
    <2>9. TaskInv'
      BY <1>1, <1>2, <1>3, <2>1, <2>2, <2>3, <2>6, <2>7, <2>8
         DEF TaskInv, Queued
    <2>10. ASSUME Spaced PROVE Spaced'
      <3>1. PollSafe(k) /\ (Rebuilding => since + timer[k] <= IdleInterval)
        BY <1>3, <2>4, <2>10 DEF Spaced
      <3>2. frame'["task"].pc \in {"reinit", "to_idle"} => age > CoolingDown
        BY <1>1, <1>3, <2>7, <3>1, SpacingNumbers, PeriodsOrder DEF PollSafe
      <3>3. Rebuilding' => Rebuilding
        BY <2>6, <2>7 DEF Rebuilding
      <3>4. PollSafe(k)'
            /\ (Rebuilding' => since' + timer'[k] <= IdleInterval)
        BY <1>2, <2>1, <3>1, <3>3 DEF PollSafe
      <3>5. Rebuilding => age > CoolingDown
        BY <2>10 DEF Spaced
      <3>6. Queued' = Queued
        BY <2>1 DEF Queued
      <3>7. QED
        BY <1>2, <2>2, <2>8, <3>2, <3>3, <3>4, <3>5, <3>6 DEF Spaced
    <2>11. QED
      BY <1>2, <2>3, <2>9, <2>10, QuietFacts DEF SpacedAfter
  <1>6. QED
    BY <1>1, <1>4, <1>5 DEF TypeOK

LEMMA SpacedTask ==
  ASSUME QuietStep, ToIdle \/ Stamp \/ \E k \in Tasks : Repost(k)
  PROVE  SpacedAfter
  <1>1. frame \in Frames /\ TypeOK /\ TaskInv /\ "task" \in Threads
        /\ "session" \in Threads
    BY QuietFacts
  <1>2. UNCHANGED <<age, encoder>> /\ user' = user
    BY DEF ToIdle, Stamp, Repost, mmalVars
  <1>3. frame["task"].pc \in {"to_idle", "stamp", "repost"}
    BY DEF ToIdle, Stamp, Repost, At
  <1>4. "task" \in Busy /\ user = "session"
    BY <1>1, <1>3 DEF Busy, TaskInv
  <1>5. frame["session"].pc = "idle"
    BY <1>1, <1>4 DEF QuietStep, DelayInv, Alone, Busy
  <1>6. \A u \in Threads \ {"task"} : frame'[u] = frame[u]
    BY <1>1, FrameAfter DEF ToIdle, Stamp, Repost
  <1>7. Rebuilding' => state' = "idle"
    BY <1>1, <1>5, <1>6 DEF Rebuilding
  <1>8. \A k \in Queued : timer[k] = 0
    BY <1>1, <1>3 DEF TaskInv
  <1>9. CASE ToIdle
    <2>1. frame'["task"].pc = "stamp" /\ timer' = timer
      BY <1>1, <1>9, FrameAfter DEF ToIdle
    <2>2. TaskInv'
      BY <1>1, <1>2, <1>4, <1>5, <1>6, <1>8, <2>1 DEF TaskInv, Queued
    <2>3. ASSUME Spaced PROVE Spaced'
      <3>1. age > CoolingDown
        BY <1>9, <2>3 DEF ToIdle, At, Spaced
      <3>2. QED
        BY <1>2, <2>1, <3>1 DEF Spaced
    <2>4. QED
      BY <1>2, <2>2, <2>3, QuietFacts DEF SpacedAfter
  <1>10. CASE Stamp
    <2>1. /\ frame'["task"].pc = "repost" /\ since' = 0
          /\ timer' = timer /\ state' = state
      BY <1>1, <1>10, FrameAfter DEF Stamp
    <2>2. TaskInv'
      BY <1>1, <1>2, <1>4, <1>5, <1>6, <1>8, <2>1 DEF TaskInv, Queued
    <2>3. ASSUME Spaced PROVE Spaced'
      <3>1. \A k \in Queued' : since' + timer'[k] = 0
        BY <1>8, <2>1 DEF Queued
      <3>2. IdleInterval \in Nat
        BY SpacingNumbers, <1>1
      <3>3. \A k \in Queued' :
              PollSafe(k)' /\ since' + timer'[k] <= IdleInterval
        BY <3>1, <3>2 DEF PollSafe
      <3>4. Rebuilding' => age' > CoolingDown
        BY <1>2, <1>7, <2>1, <2>3 DEF Spaced, Rebuilding
      <3>5. QED
        BY <2>1, <3>3, <3>4 DEF Spaced
    <2>4. QED
      BY <1>2, <2>2, <2>3, QuietFacts DEF SpacedAfter
  <1>11. ASSUME NEW k \in Tasks, Repost(k) PROVE SpacedAfter
    <2>1. /\ frame'["task"].pc = "idle"
          /\ since' = since /\ state' = state
          /\ timer' = [timer EXCEPT ![k] = IF state = "idle" THEN IdleInterval
                                           ELSE ActiveInterval]
          /\ timer[k] = 0
      BY <1>1, <1>11, FrameAfter DEF Repost
    <2>2. k \in Queued
      BY <2>1, NoneAssumption DEF Queued
    <2>3. \A j \in Queued' : j = k
      <3>1. \A j \in Queued' : j # k => j \in Queued
        BY <1>1, <2>1 DEF Queued, TypeOK
      <3>2. QED
        BY <1>1, <2>2, <3>1 DEF TaskInv
    <2>4. timer'[k] = IF state = "idle" THEN IdleInterval ELSE ActiveInterval
      BY <1>1, <2>1 DEF TypeOK
    <2>5. TaskInv'
      BY <1>1, <1>2, <1>4, <1>5, <1>6, <2>1, <2>3 DEF TaskInv
    <2>6. ASSUME Spaced PROVE Spaced'
      <3>1. since = 0 \/ (age > CoolingDown /\ state # "idle")
        BY <1>11, <2>6 DEF Repost, At, Spaced
      <3>2. age \in Nat /\ IdleInterval \in Nat
        BY <1>1, SpacingNumbers
      <3>3. PollSafe(k)'
        <4>1. timer'[k] \in Nat /\ CoolingDown \in Nat /\ since' = since
          BY <1>1, <2>1, <2>4, SpacingNumbers
        <4>2. age > CoolingDown => age' + timer'[k] > CoolingDown
          BY <1>2, <3>2, <4>1
        <4>3. since = 0 => since' <= age'
          BY <1>2, <3>2, <4>1
        <4>4. QED
          BY <3>1, <4>2, <4>3 DEF PollSafe
      <3>4. Rebuilding' => since' + timer'[k] <= IdleInterval
        BY <1>7, <2>1, <2>4, <3>1, <3>2
      <3>5. Rebuilding' => age' > CoolingDown
        BY <1>2, <1>7, <2>1, <2>6 DEF Spaced, Rebuilding
      <3>6. QED
        BY <2>1, <2>3, <3>3, <3>4, <3>5 DEF Spaced
    <2>7. QED
      BY <1>2, <2>5, <2>6, QuietFacts DEF SpacedAfter
  <1>12. QED
    BY <1>9, <1>10, <1>11

LEMMA SpacedTick ==
  ASSUME QuietStep, Tick
  PROVE  SpacedAfter
  <1>1. TypeOK /\ TaskInv /\ "task" \in Threads
    BY QuietFacts
  <1>2. UNCHANGED <<user, encoder, frame, state>> /\ Busy = {} /\ Busy' = {}
        /\ frame["task"].pc = "idle"
    BY <1>1 DEF Tick, Busy
  <1>3. /\ \A k \in Queued : timer[k] \in Nat /\ timer[k] > 0
        /\ Queued \subseteq Tasks
    BY <1>1, SpacingNumbers DEF Tick, Queued
  <1>4. timer' = [k \in Tasks |-> IF k \in Queued THEN timer[k] - 1 ELSE None]
    BY DEF Tick
  <1>5. Queued' \subseteq Queued
    BY <1>4 DEF Queued
  <1>6. \A k \in Queued : timer'[k] = timer[k] - 1
    BY <1>3, <1>4
  <1>7. TaskInv'
    BY <1>1, <1>2, <1>5 DEF TaskInv
  <1>8. /\ since' \in Nat /\ since' <= since + 1
        /\ age' \in Nat /\ age' >= age
        /\ age' = age + 1 \/ age' > CoolingDown
        /\ since <= age => since' <= age'
    <2>1. since' = Older(since) /\ age' = Older(age)
      BY DEF Tick
    <2>2. since \in 0..ClockBound /\ age \in 0..ClockBound
      BY <1>1 DEF TypeOK
    <2>3. ClockBound \in Nat /\ ClockBound > CoolingDown
      BY PeriodsAssumption DEF ClockBound
    <2>4. QED
      BY <1>1, <2>1, <2>2, <2>3, SpacingNumbers DEF Older
  <1>9. ASSUME Spaced PROVE Spaced'
    <2>1. ASSUME NEW k \in Queued
          PROVE  PollSafe(k)'
                 /\ (Rebuilding' => since' + timer'[k] <= IdleInterval)
      <3>1. PollSafe(k) /\ (Rebuilding => since + timer[k] <= IdleInterval)
        BY <1>2, <1>9 DEF Spaced
      <3>2. timer[k] \in Nat /\ timer'[k] = timer[k] - 1 /\ timer[k] > 0
        BY <1>3, <1>6
      <3>3. Rebuilding' <=> Rebuilding
        BY <1>2 DEF Rebuilding
      <3>4. PollSafe(k)'
        BY <1>1, <1>8, <3>1, <3>2, SpacingNumbers DEF PollSafe
      <3>5. Rebuilding => since' + timer'[k] <= IdleInterval
        BY <1>1, <1>8, <3>1, <3>2, SpacingNumbers
      <3>6. QED
        BY <3>3, <3>4, <3>5
    <2>2. Rebuilding' => age' > CoolingDown
      BY <1>1, <1>2, <1>8, <1>9, SpacingNumbers DEF Spaced, Rebuilding
    <2>3. QED
      BY <1>2, <1>5, <2>1, <2>2 DEF Spaced
  <1>10. QED
    BY <1>2, <1>7, <1>9, QuietFacts DEF SpacedAfter

LEMMA StepSpacedInv == DelayInv /\ SpacedInv /\ [Next]_vars => SpacedInv'
  <1> SUFFICES ASSUME DelayInv, SpacedInv, [Next]_vars PROVE SpacedInv'
    OBVIOUS
  <1>1. CASE Next
    <2>0. Step /\ History
      BY <1>1 DEF Next
    <2>1. encoder' # None => inited'
      BY <2>0, EncoderInited DEF SpacedInv, DelayInv
    <2>2. ASSUME clean', ~overlapped' PROVE SpacedAfter
      <3>1. /\ clean /\ ~overlapped /\ Alone'
            /\ user' # user => Busy = {}
            /\ user' \notin {user, "none"} => Queued = {}
        BY <2>0, <2>2 DEF History, Alone, DelayInv, TypeOK
      <3>2. QuietStep
        BY <3>1 DEF QuietStep
      <3>3. CASE \/ \E r \in Resolutions : SessionStart(r)
                 \/ SessionStop \/ MotionStart \/ MotionStop
        BY <3>1, <3>2, <3>3, SpacedUse
      <3>4. CASE \/ \E r \in Resolutions : SetRates(r)
                 \/ SetEncodingParams \/ Delay \/ Apply
        BY <3>2, <3>4, SpacedSession
      <3>5. CASE \E t \in Threads : Reinit(t) \/ Build(t)
        BY <3>2, <3>5, SpacedBuild
      <3>6. CASE \E k \in Tasks : Poll(k)
        BY <3>2, <3>6, SpacedPoll
      <3>7. CASE ToIdle \/ Stamp \/ \E k \in Tasks : Repost(k)
        BY <3>2, <3>7, SpacedTask
      <3>8. CASE Tick
        BY <3>2, <3>8, SpacedTick
      <3>9. CASE Restart
        <4>1. /\ user' = "none" /\ Queued' = {} /\ Busy' = {}
              /\ \A t \in Threads : frame'[t].pc = "idle"
          BY <3>9 DEF Restart, Boot, NoCall, Queued, Busy
        <4>2. QED
          BY <4>1 DEF SpacedAfter, TaskInv, Threads
      <3>10. QED
        BY <2>0, <3>3, <3>4, <3>5, <3>6, <3>7, <3>8, <3>9
           DEF Step, SessionStep, ApplyStep, TaskStep, Threads
    <2>3. QED
      BY <2>1, <2>2 DEF SpacedInv, SpacedAfter
  <1>2. CASE UNCHANGED vars
    BY <1>2 DEF vars, delayVars, mmalVars, historyVars, SpacedInv, TaskInv,
                Spaced, PollSafe, Rebuilding, Busy, Queued
  <1>3. QED
    BY <1>1, <1>2

LEMMA InitSpacedInv == Init => SpacedInv
  BY DEF Init, Boot, NoCall, Threads, SpacedInv, TaskInv, Queued, Busy

(* As long as no task outlives its session and calls do not overlap, the     *)
(* components of a running encoder are not built again within the cooling-   *)
(* down period, by a session or by its task.                                 *)
THEOREM RebuildsAreSpaced == Spec => RebuildsSpaced
  <1>1. DelayInv /\ SpacedInv =>
          [clean /\ ~overlapped /\ Rebuilt => age > CoolingDown]_vars
    <2> SUFFICES ASSUME DelayInv, SpacedInv, clean, ~overlapped, Rebuilt
                 PROVE  age > CoolingDown
      OBVIOUS
    <2>1. PICK t \in {"session", "task"} : At(t, "build") /\ Rebuild(t)
      BY DEF Rebuilt
    <2>2. frame[t].pc = "build" /\ encoder # None /\ t \in Busy
      BY <2>1 DEF Rebuild, At, Busy, Threads
    <2>3. user = "session"
      BY <2>2 DEF SpacedInv, TaskInv
    <2>4. QED
      BY <2>2, <2>3 DEF SpacedInv, Spaced, Rebuilding
  <1>3. QED
    BY <1>1, InitDelayInv, StepDelayInv, InitSpacedInv, StepSpacedInv, PTL
       DEF Spec, RebuildsSpaced

-----------------------------------------------------------------------------
(* The first change of a session is due at its task's first poll, no later  *)
(* one ever is                                                              *)

(* Until the first poll the delaying period is over when the task is due,   *)
(* so that poll builds what is delayed or lets the state be idle; once a    *)
(* change is made no poll comes late enough.                                *)
Timely ==
  /\ frame["task"].pc \in {"stamp", "repost"} /\ change = "none" =>
       state = "idle"
  /\ /\ change = "none" /\ state # "idle"
     /\ frame["task"].pc \notin {"to_idle", "reinit", "build"}
     /\ frame["session"].pc \notin {"reinit", "build"}
     => \A k \in Queued : since + timer[k] > Delaying
  /\ change = "made" /\ frame["task"].pc # "stamp" =>
       \A k \in Queued : since + timer[k] <= CoolingDown

TimelyInv ==
  /\ clean /\ ~overlapped
  /\ user = "session" /\ encoder # None /\ change # "refused"
  => Timely

(* Steps within the premises of Timely.                                     *)
TimelyStep ==
  /\ QuietStep /\ TimelyInv
  /\ user' = "session" /\ encoder' # None /\ change' # "refused"

LEMMA TimelyFacts ==
  ASSUME TimelyStep
  PROVE  /\ QuietStep /\ TypeOK /\ frame \in Frames /\ TaskInv
         /\ Threads = {"session", "task", "apply"}
         /\ user = "session" /\ encoder # None => Spaced
         /\ user = "session" /\ encoder # None /\ change # "refused" =>
              Timely
  BY QuietFacts DEF TimelyStep, TimelyInv, QuietStep

LEMMA PeriodFacts ==
  /\ {InitialDelay, ActiveInterval, IdleInterval, CoolingDown, Delaying}
       \subseteq Nat
  /\ InitialDelay > Delaying /\ Delaying >= CoolingDown
  /\ CoolingDown >= IdleInterval /\ CoolingDown >= ActiveInterval
  BY PeriodsAssumption, PeriodsOrder

LEMMA TimelyStart ==
  ASSUME TimelyStep, NEW r \in Resolutions, SessionStart(r),
         Busy = {}, Queued = {}
  PROVE  Timely'
  <1>1. PICK k \in Tasks : timer' = [timer EXCEPT ![k] = InitialDelay]
    BY DEF SessionStart
  <1>2. \A j \in Queued' : timer'[j] = InitialDelay
    BY <1>1, TimelyFacts DEF Queued, TypeOK
  <1>3. frame' = frame /\ since' = since /\ change' = "none"
    BY DEF SessionStart, InitMmal
  <1>4. frame'["task"].pc = "idle"
    BY <1>3, TimelyFacts DEF Busy
  <1>5. since + InitialDelay > Delaying
    BY TimelyFacts, SpacingNumbers, PeriodFacts
  <1>6. QED
    BY <1>2, <1>3, <1>4, <1>5 DEF Timely

LEMMA TimelySession ==
  ASSUME TimelyStep,
         \/ \E r \in Resolutions : SetRates(r)
         \/ SetEncodingParams \/ Delay \/ Apply
  PROVE  Timely'
  <1>1. frame \in Frames /\ "session" \in Threads /\ "task" \in Threads
        /\ "apply" \in Threads /\ DelayInv /\ ~overlapped
    BY TimelyFacts DEF QuietStep
  <1>2. UNCHANGED <<timer, since, change, encoder, user>>
    BY DEF SetRates, SetEncodingParams, Delay, Apply, delayVars, mmalVars
  <1>3. Timely
    BY <1>2, TimelyFacts DEF TimelyStep
  <1>4. ASSUME frame'["task"] = frame["task"],
               state' # "idle" => \/ frame'["session"].pc = "reinit"
                                  \/ state # "idle",
               frame'["session"].pc \notin {"reinit", "build"} =>
                 frame["session"].pc \notin {"reinit", "build"},
               state = "idle" => state' = "idle" \/ frame["task"].pc = "idle"
        PROVE  Timely'
    BY <1>2, <1>3, <1>4 DEF Timely, Queued
  <1>5. ASSUME NEW r \in Resolutions, SetRates(r) PROVE Timely'
    <2>1. PICK pc \in {"reinit", "set", "set_delay"} : Enter("session", pc, r)
      BY <1>5 DEF SetRates
    <2>2. /\ frame["session"].pc = "idle" /\ frame'["session"].pc = pc
          /\ \A u \in Threads \ {"session"} : frame'[u] = frame[u]
      BY <1>1, <1>5, <2>1, FrameAfter DEF SetRates, Idle
    <2>3. Busy = {}
      BY <1>1, <2>2, EntersAlone, TimelyFacts DEF QuietStep
    <2>4. frame["task"].pc = "idle"
      BY <1>1, <2>3 DEF Busy
    <2>5. state = "idle" => frame'["session"].pc = "reinit"
      BY <1>1, <1>5, FrameAfter DEF SetRates
    <2>6. QED
      BY <1>1, <1>4, <2>2, <2>4, <2>5
  <1>6. CASE SetEncodingParams \/ Delay
    <2>1. Goto("session", "delay") \/ Done("session")
      BY <1>6 DEF SetEncodingParams, Delay
    <2>2. frame'["task"] = frame["task"]
      BY <1>1, <2>1 DEF Goto, Done, Frames
    <2>3. frame["session"].pc \in {"set", "set_delay", "delay"}
      BY <1>6 DEF SetEncodingParams, Delay, At
    <2>4. state # "idle"
      BY <1>1, <2>3 DEF DelayInv, Phase
    <2>5. QED
      BY <1>4, <2>2, <2>3, <2>4
  <1>7. CASE Apply
    <2>1. frame'["session"] = frame["session"] /\ state' = state
          /\ frame'["task"] = frame["task"]
      BY <1>1, <1>7, FrameAfter DEF Apply, delayVars
    <2>2. QED
      BY <1>4, <2>1
  <1>8. QED
    BY <1>5, <1>6, <1>7

(* What is built is a made change; the session builds only in an idle state, *)
(* in which the task polls too often for another.                            *)
LEMMA TimelyBuild ==
  ASSUME TimelyStep, NEW t \in Threads, Reinit(t) \/ Build(t)
  PROVE  Timely'
  <1>1. frame \in Frames /\ TypeOK /\ TaskInv /\ t \in Busy
        /\ "session" \in Threads /\ "task" \in Threads
    BY TimelyFacts DEF Reinit, Build, At, Busy
  <1>2. UNCHANGED <<timer, since, state>> /\ user = "session"
    BY <1>1 DEF Reinit, Build, Rebuild, RebuildFails, Crash, delayVars,
                mmalVars, TaskInv
  <1>3. encoder # None
    BY DEF TimelyStep, Reinit, Build, Rebuild, RebuildFails, Crash, mmalVars
  <1>4. inited
    BY <1>3, TimelyFacts DEF QuietStep, SpacedInv
  <1>5. Spaced
    BY <1>2, <1>3, TimelyFacts
  <1>6. \A u \in Threads \ {t} : frame[u].pc = "idle"
    BY <1>1, TimelyFacts DEF QuietStep, DelayInv, Alone, Busy
  <1>7. CASE Reinit(t)
    <2>1. Goto(t, "build") /\ change' = change /\ frame[t].pc = "reinit"
      BY <1>4, <1>7 DEF Reinit, At
    <2>2. /\ frame'[t].pc = "build"
          /\ \A u \in Threads \ {t} : frame'[u] = frame[u]
      BY <1>1, <2>1, FrameAfter
    <2>3. Timely
      BY <1>2, <1>3, <2>1, TimelyFacts DEF TimelyStep
    <2>4. QED
      BY <1>1, <1>2, <1>6, <2>1, <2>2, <2>3 DEF Timely, Queued
  <1>8. CASE Build(t)
    <2>1. Rebuild(t) /\ frame[t].pc = "build"
      BY <1>3, <1>8 DEF Build, At, RebuildFails, TimelyStep
    <2>2. /\ frame'[t].pc = IF t = "task" THEN "stamp" ELSE "idle"
          /\ \A u \in Threads \ {t} : frame'[u] = frame[u]
      BY <1>1, <2>1, ReturnTyped DEF Rebuild
    <2>3. CASE t = "apply"
      <3>1. change' = change /\ Timely
        BY <1>2, <1>3, <2>1, <2>3, TimelyFacts DEF Rebuild, TimelyStep
      <3>2. QED
        BY <1>1, <1>2, <2>2, <2>3, <3>1 DEF Timely, Queued
    <2>4. CASE t = "task"
      BY <2>1, <2>2, <2>4 DEF Rebuild, Timely
    <2>5. CASE t = "session"
      <3>1. change' = "made" /\ Rebuilding /\ frame["task"].pc = "idle"
        BY <1>1, <1>6, <2>1, <2>5 DEF Rebuild, Rebuilding
      <3>2. \A k \in Queued : since + timer[k] <= IdleInterval
        BY <1>5, <3>1 DEF Spaced
      <3>3. \A k \in Queued : since + timer[k] <= CoolingDown
        BY <1>1, <3>2, SpacingNumbers, PeriodFacts
      <3>4. QED
        BY <1>2, <3>1, <3>3 DEF Timely, Queued
    <2>6. QED
      BY <2>3, <2>4, <2>5, TimelyFacts
  <1>9. QED
    BY <1>7, <1>8

LEMMA TimelyPoll ==
  ASSUME TimelyStep, NEW k \in Tasks, Poll(k)
  PROVE  Timely'
  <1>1. frame \in Frames /\ TypeOK /\ TaskInv /\ "task" \in Threads
        /\ "session" \in Threads
    BY TimelyFacts
  <1>2. UNCHANGED <<since, change, inited, user, encoder>>
    BY DEF Poll, mmalVars
  <1>3. k \in Queued /\ timer[k] = 0 /\ frame["task"].pc = "idle"
    BY NoneAssumption DEF Poll, Queued, Idle
  <1>4. inited /\ Timely
    BY <1>2, TimelyFacts DEF TimelyStep, QuietStep, SpacedInv
  <1>5. UpdateStateOrMayInit /\ timer' = timer
    BY <1>4 DEF Poll
  <1>6. /\ frame'["task"].pc \in {"reinit", "to_idle", "stamp"}
        /\ \A u \in Threads \ {"task"} : frame'[u] = frame[u]
    BY <1>1, <1>5, UpdateTyped
  <1>7. Busy = {}
    BY <1>1, <1>3, <1>6, EntersAlone, TimelyFacts DEF QuietStep
  <1>8. frame["session"].pc = "idle"
    BY <1>1, <1>7 DEF Busy
  <1>9. /\ change = "none" /\ state # "idle" => since + timer[k] > Delaying
        /\ change = "made" => since + timer[k] <= CoolingDown
    BY <1>3, <1>4, <1>8 DEF Timely
  <1>10. since \in Nat /\ CoolingDown \in Nat /\ Delaying \in Nat
         /\ Delaying >= CoolingDown
    BY <1>1, SpacingNumbers, PeriodFacts
  <1>11. /\ change = "none" /\ state # "idle" =>
              since > Delaying /\ since > CoolingDown
         /\ change = "made" => since <= CoolingDown /\ since <= Delaying
    BY <1>3, <1>9, <1>10
  <1>12. CASE frame'["task"].pc = "stamp"
    <2>1. /\ state' = state
          /\ state = "delaying" => ~(since > Delaying)
          /\ state = "coolingdown" => ~(since > CoolingDown)
      <3>1. ~Enter("task", "reinit", wanted) /\ ~Goto("task", "to_idle")
        BY <1>1, <1>12 DEF Enter, Goto, Frames
      <3>2. QED
        BY <1>5, <1>10, <3>1 DEF UpdateStateOrMayInit
    <2>2. change = "none" => state' = "idle"
      BY <1>1, <1>11, <2>1 DEF TypeOK
    <2>3. QED
      BY <1>2, <1>12, <2>2 DEF Timely
  <1>13. CASE frame'["task"].pc # "stamp"
    <2>1. since > Delaying \/ since > CoolingDown
      BY <1>1, <1>5, <1>13, FrameAfter DEF UpdateStateOrMayInit
    <2>2. change # "made"
      BY <1>10, <1>11, <2>1
    <2>3. QED
      BY <1>2, <1>6, <1>13, <2>2 DEF Timely
  <1>14. QED
    BY <1>12, <1>13

LEMMA TimelyTask ==
  ASSUME TimelyStep, ToIdle \/ Stamp \/ \E k \in Tasks : Repost(k)
  PROVE  Timely'
  <1>1. frame \in Frames /\ TypeOK /\ TaskInv /\ "task" \in Threads
        /\ "session" \in Threads
    BY TimelyFacts
  <1>2. UNCHANGED <<change, encoder, user>>
    BY DEF ToIdle, Stamp, Repost, mmalVars
  <1>3. Timely /\ Spaced
    BY <1>2, TimelyFacts DEF TimelyStep
  <1>4. CASE ToIdle
    <2>1. frame'["task"].pc = "stamp" /\ state' = "idle"
      BY <1>1, <1>4, FrameAfter DEF ToIdle
    <2>2. QED
      BY <2>1 DEF Timely
  <1>5. CASE Stamp
    <2>1. /\ frame'["task"].pc = "repost" /\ frame["task"].pc = "stamp"
          /\ since' = 0 /\ timer' = timer /\ state' = state
      BY <1>1, <1>5, FrameAfter DEF Stamp, At
    <2>2. \A k \in Queued : since' + timer'[k] <= CoolingDown
      BY <1>1, <2>1, PeriodFacts DEF TaskInv
    <2>3. QED
      BY <1>2, <1>3, <2>1, <2>2 DEF Timely, Queued
  <1>6. ASSUME NEW k \in Tasks, Repost(k) PROVE Timely'
    <2>1. /\ frame["task"].pc = "repost" /\ frame'["task"].pc = "idle"
          /\ since' = since /\ state' = state
          /\ timer' = [timer EXCEPT ![k] = IF state = "idle" THEN IdleInterval
                                           ELSE ActiveInterval]
          /\ timer[k] = 0
      BY <1>1, <1>6, FrameAfter DEF Repost, At
    <2>2. \A j \in Queued' : j = k
      <3>1. k \in Queued /\ \A j \in Queued' : j # k => j \in Queued
        BY <1>1, <2>1, NoneAssumption DEF Queued, TypeOK
      <3>2. QED
        BY <1>1, <3>1 DEF TaskInv
    <2>3. timer'[k] \in {IdleInterval, ActiveInterval}
      BY <1>1, <2>1 DEF TypeOK
    <2>4. since = 0
      BY <1>2, <1>3, <2>1 DEF Spaced, TimelyStep
    <2>5. since' + timer'[k] <= CoolingDown
      BY <2>1, <2>3, <2>4, PeriodFacts
    <2>6. change = "none" => state = "idle"
      BY <1>3, <2>1 DEF Timely
    <2>7. QED
      BY <1>2, <2>1, <2>2, <2>5, <2>6 DEF Timely
  <1>7. QED
    BY <1>4, <1>5, <1>6

LEMMA TimelyTick ==
  ASSUME TimelyStep, Tick
  PROVE  Timely'
  <1>1. TypeOK /\ "task" \in Threads /\ "session" \in Threads
    BY TimelyFacts
  <1>2. UNCHANGED <<user, encoder, change, frame, state>> /\ Busy = {}
    BY DEF Tick
  <1>3. Timely /\ frame["task"].pc = "idle"
    BY <1>1, <1>2, TimelyFacts DEF TimelyStep, Busy
  <1>4. Queued' \subseteq Queued
    BY DEF Tick, Queued
  <1>5. since' = Older(since) /\ ClockBound \in Nat /\ ClockBound > Delaying
        /\ Delaying \in Nat /\ CoolingDown \in Nat /\ since \in 0..ClockBound
    BY <1>1, PeriodsAssumption DEF Tick, ClockBound, TypeOK
  <1>6. ASSUME NEW k \in Queued
        PROVE  /\ since + timer[k] > Delaying => since' + timer'[k] > Delaying
               /\ since + timer[k] <= CoolingDown =>
                    since' + timer'[k] <= CoolingDown
    <2>1. timer[k] \in Nat /\ timer[k] > 0 /\ timer'[k] = timer[k] - 1
      BY <1>1, SpacingNumbers DEF Tick, Queued
    <2>2. since < ClockBound => since' = since + 1
      BY <1>5 DEF Older
    <2>3. ~(since < ClockBound) => since' = since /\ since = ClockBound
      BY <1>5 DEF Older
    <2>4. QED
      BY <1>5, <2>1, <2>2, <2>3
  <1>7. QED
    BY <1>2, <1>3, <1>4, <1>6 DEF Timely

LEMMA StepTimelyInv ==
  DelayInv /\ SpacedInv /\ TimelyInv /\ [Next]_vars => TimelyInv'
  <1> SUFFICES ASSUME DelayInv, SpacedInv, TimelyInv, [Next]_vars
               PROVE  TimelyInv'
    OBVIOUS
  <1>1. CASE Next
    <2> SUFFICES ASSUME clean', ~overlapped', user' = "session",
                        encoder' # None, change' # "refused"
                 PROVE  Timely'
      BY DEF TimelyInv
    <2>1. Step /\ History
      BY <1>1 DEF Next
    <2>2. /\ clean /\ ~overlapped /\ Alone'
          /\ user' # user => Busy = {}
          /\ user' \notin {user, "none"} => Queued = {}
      BY <2>1 DEF History, Alone, DelayInv, TypeOK
    <2>3. TimelyStep
      BY <2>2 DEF TimelyStep, QuietStep
    <2>4. ASSUME NEW r \in Resolutions, SessionStart(r) PROVE Timely'
      <3>1. Busy = {} /\ Queued = {}
        BY <2>2, <2>4 DEF SessionStart
      <3>2. QED
        BY <2>3, <2>4, <3>1, TimelyStart
    <2>5. ~SessionStop /\ ~MotionStart /\ ~MotionStop /\ ~Restart
      BY DEF SessionStop, MotionStart, MotionStop, Restart, Boot
    <2>6. CASE \/ \E r \in Resolutions : SetRates(r)
               \/ SetEncodingParams \/ Delay \/ Apply
      BY <2>3, <2>6, TimelySession
    <2>7. CASE \E t \in Threads : Reinit(t) \/ Build(t)
      BY <2>3, <2>7, TimelyBuild
    <2>8. CASE \E k \in Tasks : Poll(k)
      BY <2>3, <2>8, TimelyPoll
    <2>9. CASE ToIdle \/ Stamp \/ \E k \in Tasks : Repost(k)
      BY <2>3, <2>9, TimelyTask
    <2>10. CASE Tick
      BY <2>3, <2>10, TimelyTick
    <2>11. QED
      BY <2>1, <2>4, <2>5, <2>6, <2>7, <2>8, <2>9, <2>10
         DEF Step, SessionStep, ApplyStep, TaskStep, Threads
  <1>2. CASE UNCHANGED vars
    BY <1>2 DEF vars, delayVars, mmalVars, historyVars, TimelyInv, Timely,
                Queued
  <1>3. QED
    BY <1>1, <1>2

(* As long as no task outlives its session and calls do not overlap: what a  *)
(* session asked for last is built, has failed or is delayed, and it is due  *)
(* at the task's next poll if it is the session's first change and at no     *)
(* later poll otherwise.                                                     *)
THEOREM FirstChangeOnly == Spec => []FirstChangeIsMade
  <1>1. Init => TimelyInv
    BY DEF Init, Boot, TimelyInv
  <1>2. DelayInv /\ SpacedInv /\ TimelyInv => FirstChangeIsMade
    <2> SUFFICES ASSUME DelayInv, SpacedInv, TimelyInv, clean, ~overlapped,
                        Busy = {}, user = "session", inited,
                        encoder \notin {None, wanted}, change # "refused"
                 PROVE  state = "delaying" /\ (Due <=> change = "none")
      BY DEF FirstChangeIsMade
    <2>1. state = "delaying" /\ Queued # {}
      BY DEF DelayInv, Settled
    <2>2. Timely /\ TypeOK
      BY DEF TimelyInv, DelayInv
    <2>3. frame["session"].pc = "idle" /\ frame["task"].pc = "idle"
      BY DEF Busy, Threads
    <2>4. CASE change = "none"
      <3>1. \A k \in Queued : since + timer[k] > Delaying
        BY <2>1, <2>2, <2>3, <2>4 DEF Timely
      <3>2. QED
        BY <2>1, <2>4, <3>1 DEF Due
    <2>5. CASE change = "made"
      <3>1. \A k \in Queued : since + timer[k] <= CoolingDown
        BY <2>2, <2>3, <2>5 DEF Timely
      <3>2. \A k \in Queued : ~(since + timer[k] > Delaying)
        BY <2>2, <3>1, SpacingNumbers, PeriodFacts
      <3>3. QED
        BY <2>1, <2>5, <3>2 DEF Due
    <2>6. QED
      BY <2>2, <2>4, <2>5 DEF TypeOK
  <1>3. QED
    BY <1>1, <1>2, InitDelayInv, StepDelayInv, InitSpacedInv, StepSpacedInv,
       StepTimelyInv, PTL DEF Spec
=============================================================================
