----------------------------- MODULE EncoderDelay -----------------------------
(***************************************************************************)
(* EncoderDelayedInit: changing the resolution means to build the MMAL     *)
(* components anew, so changes that come soon after an initialisation are  *)
(* delayed, and a task that polls on the DelayedInit queue applies them.   *)
(*                                                                         *)
(* Three threads rebuild the components.  WebRTC's encoder queue starts    *)
(* and ends the use by a session and asks for resolutions (SetRates).  The *)
(* task queue runs the polling tasks, one at a time.  The main thread      *)
(* rebuilds on the browser's request to apply a configuration.  Nothing    *)
(* protects state_ and the wrapper's parameters; the wrapper's mutex       *)
(* covers the building only, and mmal_initialized_ is looked at before it  *)
(* is taken.  So a call is modelled as its accesses to what is shared:     *)
(* frame[t] is the call that thread t is in.                               *)
(*                                                                         *)
(* Motion detection uses the same encoder between sessions, but            *)
(* initialises it directly.  A task ends when it finds the encoder not     *)
(* initialised at the moment it polls, and does not know which session it  *)
(* was posted for.                                                         *)
(*                                                                         *)
(* Time passes in ticks of half a second, the unit of all the periods; a   *)
(* call takes less than that.                                              *)
(***************************************************************************)
EXTENDS Naturals

CONSTANTS
  Resolutions,       \* what a session may ask for
  MotionResolution,  \* what motion detection uses
  None,              \* the encoder is not running, no task, no resolution
  Tasks,             \* identities of DelayInitTasks; bounds those queued
  InitialDelay,      \* kDelayInitialDurationMs
  ActiveInterval,    \* kDelayTaskActiveInterval
  IdleInterval,      \* kDelayTaskIdleInterval
  CoolingDown,       \* kInitCoolingDownPeriodMs
  Delaying,          \* kInitDelayingPeriodMs
  MmalMayFail        \* whether building the MMAL components may fail

ASSUME ResolutionsAssumption ==
  None \notin Resolutions /\ MotionResolution \notin Resolutions \cup {None}
ASSUME NoneAssumption == None \notin Nat
ASSUME PeriodsAssumption ==
  /\ {InitialDelay, ActiveInterval, IdleInterval} \subseteq Nat \ {0}
  /\ {CoolingDown, Delaying} \subseteq Nat
ASSUME PeriodsOrder ==
  /\ InitialDelay > Delaying /\ Delaying >= CoolingDown
  /\ CoolingDown >= IdleInterval /\ CoolingDown >= ActiveInterval
ASSUME FailureAssumption == MmalMayFail \in BOOLEAN

VARIABLES
  state,      \* state_ of EncoderDelayedInit
  since,      \* ticks since last_init_timestamp_ms_
  timer,      \* ticks until each queued task runs
  inited,     \* mmal_initialized_
  user,       \* who uses the encoder
  wanted,     \* width and height in the encoder wrapper's state_
  encoder,    \* the resolution the MMAL components were built with
  frame,      \* the call each thread is in, and the resolution it has read
  fault,      \* the process died in MMAL calls on destroyed components
  age,        \* ticks since a delayed or immediate change was built last
  change,     \* what the last change in this use of the encoder came to
  clean,      \* no use has started while an earlier session's task was queued
  overlapped  \* calls of two threads have overlapped

delayVars == <<state, since, timer>>
mmalVars == <<inited, user, wanted, encoder, age, change>>
historyVars == <<clean, overlapped>>
vars == <<delayVars, mmalVars, frame, fault, historyVars>>

Threads == {"session", "task", "apply"}
AnyResolution == Resolutions \cup {MotionResolution, None}
PCs == {"idle", "set", "set_delay", "delay", "to_idle", "reinit", "build",
        "stamp", "repost"}
Queued == {k \in Tasks : timer[k] # None}

(* since and age are only compared with these two periods, so they stop     *)
(* counting above both.                                                     *)
ClockBound == 1 + (IF CoolingDown > Delaying THEN CoolingDown ELSE Delaying)
Older(n) == IF n < ClockBound THEN n + 1 ELSE n

TypeOK ==
  /\ state \in {"idle", "delaying", "coolingdown"}
  /\ since \in 0..ClockBound
  /\ timer \in [Tasks -> Nat \cup {None}]
  /\ inited \in BOOLEAN
  /\ user \in {"none", "session", "motion"}
  /\ wanted \in AnyResolution
  /\ encoder \in AnyResolution
  /\ frame \in [Threads -> [pc : PCs, res : AnyResolution]]
  /\ fault \in BOOLEAN
  /\ age \in 0..ClockBound
  /\ change \in {"none", "made", "refused"}
  /\ clean \in BOOLEAN
  /\ overlapped \in BOOLEAN
  /\ user = "none" => ~inited

NoCall == [pc |-> "idle", res |-> None]

(* The process as it starts.                                                *)
Boot(st, si, ti, ini, us, wa, en, fr, ag, ch) ==
  /\ st = "idle"
  /\ si = 0
  /\ ti = [k \in Tasks |-> None]
  /\ ini = FALSE
  /\ us = "none"
  /\ wa = None
  /\ en = None
  /\ fr = [t \in Threads |-> NoCall]
  /\ ag = 0
  /\ ch = "none"

Init ==
  /\ Boot(state, since, timer, inited, user, wanted, encoder, frame, age,
          change)
  /\ fault = FALSE
  /\ clean = TRUE
  /\ overlapped = FALSE

-----------------------------------------------------------------------------
(* Calls *)

Idle(t) == ~fault /\ frame[t].pc = "idle"
At(t, pc) == ~fault /\ frame[t].pc = pc
Busy == {t \in Threads : frame[t].pc # "idle"}
Goto(t, pc) == frame' = [frame EXCEPT ![t].pc = pc]
Enter(t, pc, r) == frame' = [frame EXCEPT ![t] = [pc |-> pc, res |-> r]]
Done(t) == frame' = [frame EXCEPT ![t] = NoCall]

(* How ReinitEncoder returns to its caller: only the task goes on, and      *)
(* leaves the timestamp alone when it was told of a failure.                *)
Return(t, ok) ==
  IF t = "task" THEN Goto(t, IF ok THEN "stamp" ELSE "repost") ELSE Done(t)

Crash ==
  /\ fault' = TRUE
  /\ UNCHANGED <<delayVars, mmalVars, frame>>

-----------------------------------------------------------------------------
(* MMALEncoderWrapper *)

(* InitEncoder, under the mutex: the components are built for resolution r, *)
(* or building them fails.                                                  *)
InitMmal(r) ==
  /\ ~inited
  /\ wanted' = r
  /\ encoder' \in IF MmalMayFail THEN {r, None} ELSE {r}
  /\ inited' = (encoder' # None)
  /\ age' = 0
  /\ change' = "none"

(* UninitEncoder, under the mutex.                                          *)
UninitMmal ==
  /\ inited' = FALSE
  /\ encoder' = None
  /\ UNCHANGED <<wanted, age, change>>

(* ReinitEncoder before it takes the mutex.                                 *)
Reinit(t) ==
  /\ At(t, "reinit")
  /\ \/ /\ ~inited
        /\ Return(t, FALSE)
        /\ UNCHANGED wanted
     \/ /\ inited
        /\ wanted' = frame[t].res
        /\ Goto(t, "build")
  /\ UNCHANGED <<delayVars, inited, user, encoder, age, change, fault>>

(* ReinitEncoder under the mutex.  It fails with the components as they are *)
(* when the capture cannot be stopped, and without them later.              *)
Rebuild(t) ==
  /\ encoder # None
  /\ encoder' = wanted
  /\ IF t = "apply" THEN UNCHANGED <<age, change>>
                     ELSE age' = 0 /\ change' = "made"
  /\ Return(t, TRUE)
  /\ UNCHANGED <<delayVars, inited, user, wanted, fault>>

RebuildFails(t) ==
  /\ MmalMayFail \/ encoder = None
  /\ encoder' \in {encoder, None}
  /\ change' = "refused"
  /\ Return(t, FALSE)
  /\ UNCHANGED <<delayVars, inited, user, wanted, age, fault>>

(* After a failure, or an UninitEncoder that came in between, the           *)
(* components are gone: the process dies using them, unless MMAL notices    *)
(* and the call fails.                                                      *)
Build(t) ==
  /\ At(t, "build")
  /\ Rebuild(t) \/ RebuildFails(t) \/ (encoder = None /\ Crash)

-----------------------------------------------------------------------------
(* A streaming session, on the encoder queue *)

(* Bug: the task's first poll comes after the interval of the later ones.   *)
SessionStartPollsEarly(r) ==
  /\ Idle("session")
  /\ user = "none"
  /\ user' = "session"
  /\ \E k \in Tasks \ Queued : timer' = [timer EXCEPT ![k] = ActiveInterval]
  /\ state' = "coolingdown"
  /\ InitMmal(r)
  /\ UNCHANGED <<since, frame, fault>>

(* InitEncode.  A failure ends in Release, which finds nothing to undo.     *)
SessionStart(r) ==
  /\ Idle("session")
  /\ user = "none"
  /\ user' = "session"
  /\ \E k \in Tasks \ Queued : timer' = [timer EXCEPT ![k] = InitialDelay]
  /\ state' = "coolingdown"
  /\ InitMmal(r)
  /\ UNCHANGED <<since, frame, fault>>

(* Bug: a change within the cooling-down period is not delayed.             *)
SetRatesAtOnce(r) ==
  /\ Idle("session")
  /\ user = "session" /\ inited
  /\ r # wanted
  /\ state' = "coolingdown"
  /\ Enter("session", "reinit", r)
  /\ UNCHANGED <<since, timer, mmalVars, fault>>

(* SetRates with a new best match, and ReinitEncoder of EncoderDelayedInit: *)
(* a change is made at once when idle, and else left to the task.           *)
SetRates(r) ==
  /\ Idle("session")
  /\ user = "session" /\ inited
  /\ r # wanted
  /\ \/ /\ state = "idle"
        /\ state' = "coolingdown"
        /\ Enter("session", "reinit", r)
     \/ /\ state = "delaying"
        /\ Enter("session", "set", r)
        /\ UNCHANGED state
     \/ /\ state = "coolingdown"
        /\ Enter("session", "set_delay", r)
        /\ UNCHANGED state
  /\ UNCHANGED <<since, timer, mmalVars, fault>>

(* SetEncodingParams; it says whether it has changed anything.              *)
SetEncodingParams ==
  /\ At("session", "set") \/ At("session", "set_delay")
  /\ wanted' = frame["session"].res
  /\ IF At("session", "set_delay") /\ wanted' # wanted
     THEN Goto("session", "delay")
     ELSE Done("session")
  /\ UNCHANGED <<delayVars, inited, user, encoder, age, change, fault>>

Delay ==
  /\ At("session", "delay")
  /\ state' = "delaying"
  /\ Done("session")
  /\ UNCHANGED <<since, timer, mmalVars, fault>>

(* Release.                                                                 *)
SessionStop ==
  /\ Idle("session")
  /\ user = "session"
  /\ user' = "none"
  /\ UninitMmal
  /\ UNCHANGED <<delayVars, frame, fault>>

(* The browser applies its configuration: ReinitEncoderInternal reads the   *)
(* parameters that it passes to ReinitEncoder.                              *)
Apply ==
  /\ Idle("apply")
  /\ user = "session"
  /\ Enter("apply", "reinit", wanted)
  /\ UNCHANGED <<delayVars, mmalVars, fault>>

-----------------------------------------------------------------------------
(* Motion detection between sessions *)

MotionStart ==
  /\ Idle("session")
  /\ user = "none"
  /\ user' = "motion"
  /\ InitMmal(MotionResolution)
  /\ UNCHANGED <<delayVars, frame, fault>>

MotionStop ==
  /\ Idle("session")
  /\ user = "motion"
  /\ user' = "none"
  /\ UninitMmal
  /\ UNCHANGED <<delayVars, frame, fault>>

-----------------------------------------------------------------------------
(* DelayInitTask, on the DelayedInit task queue *)

(* Bug: the change is forgotten when the delay is over.                     *)
UpdateForgets ==
  \/ /\ state = "delaying" /\ since > Delaying
     /\ state' = "coolingdown"
     /\ Goto("task", "stamp")
  \/ /\ state = "coolingdown" /\ since > CoolingDown
     /\ Goto("task", "to_idle")
     /\ UNCHANGED state
  \/ /\ state = "delaying" => since <= Delaying
     /\ state = "coolingdown" => since <= CoolingDown
     /\ Goto("task", "stamp")
     /\ UNCHANGED state

(* UpdateStateOrMayInit up to its first write.                              *)
UpdateStateOrMayInit ==
  \/ /\ state = "delaying" /\ since > Delaying
     /\ state' = "coolingdown"
     /\ Enter("task", "reinit", wanted)
  \/ /\ state = "coolingdown" /\ since > CoolingDown
     /\ Goto("task", "to_idle")
     /\ UNCHANGED state
  \/ /\ state = "delaying" => since <= Delaying
     /\ state = "coolingdown" => since <= CoolingDown
     /\ Goto("task", "stamp")
     /\ UNCHANGED state

(* Run: a task that is due ends, or polls.                                  *)
Poll(k) ==
  /\ Idle("task")
  /\ timer[k] = 0
  /\ \/ /\ ~inited
        /\ timer' = [timer EXCEPT ![k] = None]
        /\ UNCHANGED <<state, frame>>
     \/ /\ inited
        /\ UpdateStateOrMayInit
        /\ UNCHANGED timer
  /\ UNCHANGED <<since, mmalVars, fault>>

ToIdle ==
  /\ At("task", "to_idle")
  /\ state' = "idle"
  /\ Goto("task", "stamp")
  /\ UNCHANGED <<since, timer, mmalVars, fault>>

(* last_init_timestamp_ms_ is set by every poll that does not fail.         *)
Stamp ==
  /\ At("task", "stamp")
  /\ since' = 0
  /\ Goto("task", "repost")
  /\ UNCHANGED <<state, timer, mmalVars, fault>>

(* The task that ran is the one that is due.                                *)
Repost(k) ==
  /\ At("task", "repost")
  /\ timer[k] = 0
  /\ timer' = [timer EXCEPT ![k] = IF state = "idle" THEN IdleInterval
                                   ELSE ActiveInterval]
  /\ Done("task")
  /\ UNCHANGED <<state, since, mmalVars, fault>>

Tick ==
  /\ ~fault
  /\ Busy = {}
  /\ \A k \in Queued : timer[k] > 0
  /\ timer' = [k \in Tasks |-> IF k \in Queued THEN timer[k] - 1 ELSE None]
  /\ since' = Older(since)
  /\ age' = Older(age)
  /\ UNCHANGED <<state, inited, user, wanted, encoder, change, frame, fault>>

(* rws.service starts the program again.                                    *)
Restart ==
  /\ fault
  /\ fault' = FALSE
  /\ Boot(state', since', timer', inited', user', wanted', encoder', frame',
          age', change')

-----------------------------------------------------------------------------
(* Next-state relation *)

SessionStep ==
  SetEncodingParams \/ Delay \/ Reinit("session") \/ Build("session")
ApplyStep == Reinit("apply") \/ Build("apply")
TaskStep ==
  \/ ToIdle \/ Stamp \/ Reinit("task") \/ Build("task")
  \/ \E k \in Tasks : Repost(k)

Step ==
  \/ \E r \in Resolutions : SessionStart(r) \/ SetRates(r)
  \/ SessionStop \/ Apply \/ MotionStart \/ MotionStop
  \/ SessionStep \/ ApplyStep \/ TaskStep
  \/ \E k \in Tasks : Poll(k)
  \/ Tick
  \/ Restart

(* The history variables: a use begins while a task is queued; two threads  *)
(* are inside calls, or the encoder changes hands during one.               *)
History ==
  /\ clean' = (clean /\ (user' \notin {user, "none"} => Queued = {}))
  /\ overlapped' = (\/ overlapped
                    \/ \E t \in Busy' : Busy' # {t}
                    \/ user' # user /\ Busy # {})

Next == Step /\ History

Spec == Init /\ [][Next]_vars

-----------------------------------------------------------------------------
(* Properties of every behaviour *)

(* The task that is due next will find that the delaying period is over.    *)
Due == \E k \in Queued : since + timer[k] > Delaying

(* As long as no task outlives its session and calls do not overlap: what   *)
(* the session asked for last is built, or failed to be, or it is delayed.  *)
(* A delayed change is built by the task's next poll exactly when it is the *)
(* session's first: every poll moves the timestamp, and all but the first   *)
(* come sooner than the delaying period after it, so that a later change    *)
(* stays delayed.                                                           *)
FirstChangeIsMade ==
  clean /\ ~overlapped /\ Busy = {} /\ user = "session" /\ inited =>
    \/ encoder \in {None, wanted} \/ change = "refused"
    \/ state = "delaying" /\ (Due <=> change = "none")

(* While a session has the encoder a task polls for it.                     *)
SessionPolled == user = "session" /\ inited => Queued # {}

(* A running encoder's components are built again, by a session or a task.  *)
Rebuilt == \E t \in {"session", "task"} : At(t, "build") /\ Rebuild(t)

(* As long as no task outlives its session and calls do not overlap, a      *)
(* running encoder is not built again within the cooling-down period.       *)
RebuildsSpaced ==
  [][clean /\ ~overlapped /\ Rebuilt => age > CoolingDown]_vars
=============================================================================
