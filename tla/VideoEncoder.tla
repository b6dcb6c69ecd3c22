----------------------------- MODULE VideoEncoder -----------------------------
(***************************************************************************)
(* The life of RaspiEncoderImpl over MMALEncoderWrapper: the encoder queue *)
(* of WebRTC begins and ends the use of the hardware encoder (InitEncode,  *)
(* Release) and sets its rates; a drain thread takes the frames; the       *)
(* DelayedInit task and the main thread (the browser applies its           *)
(* configuration, or zooms) rebuild and use the same components.           *)
(*                                                                         *)
(* ReinitEncoder and UninitEncoder under the mutex are one step each, and  *)
(* InitEncoder is two, since others see its camera before the rest.  What  *)
(* is done without the mutex, and RaspiEncoderImpl's own steps, are steps  *)
(* of their own: the test of mmal_initialized_, the reset of state_, the   *)
(* start of the capture, and the two uses that Zoom makes of the camera.   *)
(* Building can fail at each component.  The model stops at the first use  *)
(* of a null pointer or of an object that was destroyed.                   *)
(***************************************************************************)
EXTENDS Naturals, FiniteSets, MmalComponents

VARIABLES
  g,          \* state_ and the port pointers of MMALEncoderWrapper
  inited,     \* mmal_initialized_
  pending,    \* EncoderDelayedInit is DELAYING_INIT
  builder,    \* where each thread is in ReinitEncoder and its callers
  pc,         \* the call the encoder queue is in
  attached,   \* mmal_encoder_ of RaspiEncoderImpl is set
  images,     \* size of encoded_image_
  drain,      \* where the drain thread is; "none" if there is none
  quit,       \* drain_quit_
  flow,       \* flow_state_ of frame_flow_: disabled or not
  fault,      \* what the process died of, other than damage in g
  happened    \* causes of damage so far

wrapperVars == <<g, inited, pending>>
implVars == <<pc, attached, images, flow>>
drainVars == <<drain, quit>>
vars == <<wrapperVars, builder, implVars, drainVars, fault, happened>>

Threads == {"queue", "task", "main"}
Builders == {"idle", "wipe", "apply", "checked", "capture", "zoom", "zoom_lost",
             "zoom_dead"}
Causes == {"early_init", "late_init", "rebuild", "overlap"}
Faults == {"none", "no_wrapper", "no_image", "no_pool", "no_camera"}

TypeOK ==
  /\ g \in [at : [Objects -> Pointers], port : [Components -> Ports],
            lost : SUBSET Objects, damage : Damages]
  /\ inited \in BOOLEAN /\ pending \in BOOLEAN
  /\ builder \in [Threads -> Builders]
  /\ pc \in {"idle", "init", "build", "capture", "rates", "stop", "uninit", "join"}
  /\ attached \in BOOLEAN
  /\ images \in 0..1
  /\ drain \in {"none", "check", "read", "have", "deliver", "ended"}
  /\ quit \in BOOLEAN
  /\ flow \in {"disabled", "waiting"}
  /\ fault \in Faults
  /\ happened \subseteq Causes

(* The process as it starts, with an encoder object.                        *)
Boot(g0, i, p, b, q, a, im, d, qu, fl, fa, h) ==
  /\ g0 = EmptyGraph /\ i = FALSE /\ p = FALSE
  /\ b = [t \in Threads |-> "idle"]
  /\ q = "idle" /\ a = FALSE /\ im = 1
  /\ d = "none" /\ qu = FALSE /\ fl = "disabled" /\ fa = "none"
  /\ h = {}

Init == Boot(g, inited, pending, builder, pc, attached, images, drain, quit, flow,
             fault, happened)

Alive == g.damage = "none" /\ fault = "none"
Note(c) == happened' = happened \cup c
Move(t, to) == builder' = [builder EXCEPT ![t] = to]
Others == {t \in Threads : builder[t] # "idle"}

(* Zoom keeps the pointer to the camera that it took, whose component may   *)
(* be destroyed meanwhile, or forgotten.                                    *)
ZoomLoses(b, how) ==
  IF b["main"] = "zoom" THEN [b EXCEPT !["main"] = how] ELSE b

-----------------------------------------------------------------------------
(* MMALEncoderWrapper *)

(* What InitEncoder builds after the camera, up to the failure of one step. *)
Built(fail, pool) ==
  LET pre == CreatePreview(g, fail # "preview")
      enc == IF fail = "encoder" THEN [pre EXCEPT !.at["encoder"] = "null"]
             ELSE Assign(CreatePool(pre, pool), "encoder")
  IN  CASE fail = "preview" -> Destroy(pre, "camera")
        [] fail = "encoder" -> Destroy(Destroy(enc, "preview"), "camera")
        [] OTHER -> Connect(SetPorts(enc), "encoder_tunnel", fail # "connect")

(* What ReinitEncoder does to the components, up to a failure.  It returns  *)
(* without a change when the capture cannot be stopped.                     *)
Torn ==
  LET ports == UsePort(UsePort(g, "camera"), "encoder")
  IN  Disable(Cut(Use(ports, "camera"), "encoder_tunnel"))

(* reset_camera_component destroys the camera if it fails, and keeps the    *)
(* pointer; reset_encoder_component does not keep it.                       *)
ResetCamera(h, ok) ==
  IF ok THEN Use(h, "camera") ELSE Release(Use(h, "camera"), "camera", "dead")
ResetEncoder(h, ok) == IF ok THEN Use(h, "encoder") ELSE Destroy(h, "encoder")

Rebuilt(fail) ==
  LET cam == ResetCamera(Torn, fail # "camera")
      pre == CreatePreview(cam, fail # "preview")
      enc == ResetEncoder(pre, fail # "encoder")
  IN  CASE fail = "stop" -> UsePort(g, "camera")
        [] fail = "camera" -> cam
        [] fail = "preview" -> Destroy(pre, "camera")
        [] fail = "encoder" -> Destroy(Destroy(enc, "preview"), "camera")
        [] OTHER -> Connect(SetPorts(enc), "encoder_tunnel", fail # "connect")

(* UninitEncoder after its test.                                            *)
Removed ==
  LET ports == UsePort(UsePort(g, "camera"), "encoder")
  IN  Destroy(Destroy(DestroyEncoder(Disable(Cut(ports, "encoder_tunnel"))),
                      "preview"), "camera")

(* StartCapture sends the pool's buffers to the encoder.                    *)
Capture ==
  \/ /\ g.at["pool"] # "null"
     /\ g' = UsePort(UsePort(Use(g, "pool"), "encoder"), "camera")
     /\ UNCHANGED fault
  \/ /\ g.at["pool"] = "null"
     /\ fault' = "no_pool"
     /\ UNCHANGED g

-----------------------------------------------------------------------------
(* ReinitEncoder, called by EncoderDelayedInit on the encoder queue or for  *)
(* its task, and by the main thread                                         *)

(* mmal_initialized_ is looked at without the mutex.                        *)
ReinitEncoder(t) == Move(t, IF inited THEN "checked" ELSE "idle")

(* Under the mutex; a caller that is told of success starts the capture.    *)
Reinit(t) ==
  /\ Alive /\ builder[t] = "checked" /\ pc # "build"
  /\ \E fail \in {"none", "stop", "camera", "preview", "encoder", "connect",
                  "enable"} :
       /\ g' = Rebuilt(fail)
       /\ builder' = [(IF fail \in {"camera", "preview", "encoder"}
                       THEN ZoomLoses(builder, "zoom_dead") ELSE builder)
                     EXCEPT ![t] = IF fail = "none" THEN "capture" ELSE "idle"]
       /\ Note(IF fail \in {"none", "stop"} THEN {} ELSE {"rebuild"})
  /\ UNCHANGED <<inited, pending, implVars, drainVars, fault>>

StartCapture(t) ==
  /\ Alive /\ builder[t] = "capture"
  /\ Capture
  /\ Move(t, "idle")
  /\ UNCHANGED <<inited, pending, implVars, drainVars, happened>>

(* The polling task finds that the delay is over.                           *)
Task ==
  /\ Alive /\ builder["task"] = "idle" /\ inited /\ pending
  /\ pending' = FALSE
  /\ ReinitEncoder("task")
  /\ UNCHANGED <<g, inited, implVars, drainVars, fault, happened>>

(* The browser applies its configuration.  SetEncoderConfigParams resets    *)
(* state_ if it finds the encoder not initialised.                          *)
Apply ==
  /\ Alive /\ builder["main"] = "idle"
  /\ Move("main", IF inited THEN "apply" ELSE "wipe")
  /\ UNCHANGED <<wrapperVars, implVars, drainVars, fault, happened>>

ApplyWipes ==
  /\ Alive /\ builder["main"] = "wipe"
  /\ g' = Wipe(g)
  /\ Move("main", "apply")
  /\ Note(IF inited \/ pc = "build" THEN {"overlap"} ELSE {})
  /\ UNCHANGED <<inited, pending, implVars, drainVars, fault>>

ApplyReinit ==
  /\ Alive /\ builder["main"] = "apply"
  /\ ReinitEncoder("main")
  /\ UNCHANGED <<wrapperVars, implVars, drainVars, fault, happened>>

(* Zoom takes no mutex: it reads the crop of the camera that it finds, and  *)
(* sets it, unless the first fails or the point is not in the picture.      *)
Zoom ==
  /\ Alive /\ builder["main"] = "idle"
  /\ \/ /\ g.at["camera"] # "null"
        /\ g' = Use(g, "camera") /\ Move("main", "zoom")
        /\ UNCHANGED fault
     \/ /\ g.at["camera"] = "null"
        /\ fault' = "no_camera"
        /\ UNCHANGED <<g, builder>>
  /\ UNCHANGED <<inited, pending, implVars, drainVars, happened>>

ZoomSets ==
  /\ Alive /\ builder["main"] \in {"zoom", "zoom_lost", "zoom_dead"}
  /\ \/ UNCHANGED g
     \/ builder["main"] = "zoom_dead" /\ g' = Harm(g, "dead_component")
  /\ Move("main", "idle")
  /\ UNCHANGED <<inited, pending, implVars, drainVars, fault, happened>>

-----------------------------------------------------------------------------
(* RaspiEncoderImpl, on the encoder queue *)

Queue(p) == Alive /\ pc = p /\ builder["queue"] = "idle"

(* A new object, after the old one was released and destroyed.              *)
NewEncoder ==
  /\ Queue("idle") /\ ~attached
  /\ images' = 1 /\ flow' = "disabled"
  /\ UNCHANGED <<wrapperVars, builder, pc, attached, drainVars, fault, happened>>

(* InitEncode: the wrapper's settings.                                      *)
InitEncode ==
  /\ Queue("idle")
  /\ attached' = TRUE
  /\ g' = IF inited THEN g ELSE Wipe(g)
  /\ builder' = IF inited THEN builder ELSE ZoomLoses(builder, "zoom_lost")
  /\ pc' = "init"
  /\ happened' = IF inited \/ Others # {} THEN happened ELSE happened \cap {"late_init"}
  /\ UNCHANGED <<inited, pending, images, flow, drainVars, fault>>

(* InitEncoder of EncoderDelayedInit and of the wrapper, up to the camera;  *)
(* a failure ends in Release.                                               *)
InitEncoder ==
  /\ Queue("init")
  /\ \/ /\ inited
        /\ pc' = "capture"
        /\ UNCHANGED <<wrapperVars, happened>>
     \/ /\ ~inited
        /\ \E ok \in BOOLEAN :
             /\ g' = CreateCamera(g, ok)
             /\ pc' = IF ok THEN "build" ELSE "stop"
             /\ Note(IF ok THEN {} ELSE {"early_init"})
        /\ pending' = FALSE
        /\ UNCHANGED inited
  /\ UNCHANGED <<builder, attached, images, flow, drainVars, fault>>

(* Bug: a failed step leaves the wrapper initialised.                       *)
InitRestAlways ==
  /\ Queue("build")
  /\ \E fail \in {"none", "connect"} : g' = Built(fail, TRUE)
  /\ inited' = TRUE
  /\ pc' = "capture"
  /\ UNCHANGED <<pending, builder, attached, images, flow, drainVars, fault,
                 happened>>

(* The rest of InitEncoder, under the same lock.                            *)
InitRest ==
  /\ Queue("build")
  /\ \E fail \in {"none", "preview", "encoder", "connect", "enable"},
        pool \in BOOLEAN :
       LET early == fail \in {"preview", "encoder"}
           zoomed == IF early THEN ZoomLoses(builder, "zoom_dead") ELSE builder
       IN  /\ g' = Built(fail, pool)
           /\ inited' = (fail = "none")
           /\ pc' = IF fail = "none" THEN "capture" ELSE "stop"
           /\ builder' = zoomed
           /\ Note(CASE fail = "none" -> {}
                     [] early -> {"early_init"} \cup
                                 IF zoomed # builder THEN {"overlap"} ELSE {}
                     [] OTHER -> {"late_init"})
  /\ UNCHANGED <<pending, attached, images, flow, drainVars, fault>>

(* The capture, and the drain thread if there is none.                      *)
InitCapture ==
  /\ Queue("capture")
  /\ Capture
  /\ IF drain = "none" THEN drain' = "check" /\ quit' = FALSE
     ELSE UNCHANGED <<drain, quit>>
  /\ pc' = "rates"
  /\ UNCHANGED <<inited, pending, builder, attached, images, flow, happened>>

(* SetRates, which InitEncode calls too.  A zero bitrate stops the frames;  *)
(* else the new best match has another resolution, which is changed now or  *)
(* after the delay, or SetRate tells the encoder and the camera.            *)
SetRates ==
  /\ Queue("idle") \/ Queue("rates")
  /\ attached
  /\ pc' = "idle"
  /\ \/ flow' = "disabled" /\ UNCHANGED <<g, pending, builder>>
     \/ /\ flow' = "waiting"
        /\ \/ inited /\ g' = UsePort(UsePort(g, "encoder"), "camera")
              /\ UNCHANGED <<pending, builder>>
           \/ ~inited /\ UNCHANGED <<g, pending, builder>>
           \/ inited /\ ~pending /\ ReinitEncoder("queue") /\ UNCHANGED <<g, pending>>
           \/ inited /\ pending' = TRUE /\ UNCHANGED <<g, builder>>
  /\ UNCHANGED <<inited, attached, images, drainVars, fault, happened>>

(* Encode asks for a key frame.                                             *)
Encode ==
  /\ Queue("idle")
  /\ attached /\ flow # "disabled" /\ inited
  /\ g' = UsePort(g, "encoder")
  /\ UNCHANGED <<inited, pending, builder, implVars, drainVars, fault, happened>>

(* Bug: the drain thread is not told to quit.                               *)
ReleaseKeepsDrain ==
  /\ (Queue("idle") \/ Queue("stop"))
  /\ g' = IF attached THEN UsePort(g, "camera") ELSE g
  /\ pc' = IF attached THEN "uninit" ELSE "join"
  /\ UNCHANGED <<inited, pending, builder, attached, images, flow, drainVars, fault,
                 happened>>

(* Release, which the destructor calls too: under drain_lock_ the thread is *)
(* told to quit; the capture is stopped.                                    *)
ReleaseEncoder ==
  /\ Queue("idle") \/ Queue("stop")
  /\ drain # "deliver"
  /\ quit' = (quit \/ drain # "none")
  /\ g' = IF attached THEN UsePort(g, "camera") ELSE g
  /\ pc' = IF attached THEN "uninit" ELSE "join"
  /\ UNCHANGED <<inited, pending, builder, attached, images, flow, drain, fault,
                 happened>>

(* Bug: mmal_initialized_ stays set.                                        *)
UninitEncoderKeeps ==
  /\ Queue("uninit")
  /\ g' = IF inited THEN Removed ELSE g
  /\ attached' = FALSE
  /\ pc' = "join"
  /\ Note(IF inited /\ Others # {} THEN {"overlap"} ELSE {})
  /\ UNCHANGED <<inited, pending, builder, images, flow, drainVars, fault>>

(* UninitEncoder, and mmal_encoder_ is cleared while the drain thread may   *)
(* still use it.                                                            *)
UninitEncoder ==
  /\ Queue("uninit")
  /\ g' = IF inited THEN Removed ELSE g
  /\ inited' = FALSE
  /\ attached' = FALSE
  /\ pc' = "join"
  /\ builder' = IF inited THEN ZoomLoses(builder, "zoom_dead") ELSE builder
  /\ Note(IF inited /\ Others # {} THEN {"overlap"} ELSE {})
  /\ UNCHANGED <<pending, images, flow, drainVars, fault>>

(* The drain thread is joined.                                              *)
Finalize ==
  /\ Queue("join")
  /\ drain \in {"none", "ended"}
  /\ drain' = "none"
  /\ images' = 0
  /\ pc' = "idle"
  /\ UNCHANGED <<wrapperVars, builder, attached, quit, flow, fault, happened>>

-----------------------------------------------------------------------------
(* DrainProcess *)

DrainAt(p) == Alive /\ drain = p

DrainCheck ==
  /\ DrainAt("check")
  /\ drain' = IF quit THEN "ended" ELSE "read"
  /\ UNCHANGED <<wrapperVars, builder, implVars, quit, fault, happened>>

(* ReadFront returns a frame, or nothing that is to be sent.                *)
DrainRead ==
  /\ DrainAt("read")
  /\ \/ /\ attached
        /\ drain' \in {"have", "check"}
        /\ UNCHANGED fault
     \/ ~attached /\ fault' = "no_wrapper" /\ UNCHANGED drain
  /\ UNCHANGED <<wrapperVars, builder, implVars, quit, happened>>

(* Under drain_lock_; encoded_image_[0] of an empty vector is undefined.    *)
DrainLock ==
  /\ DrainAt("have")
  /\ drain' = "deliver"
  /\ fault' \in IF images = 0 THEN {"none", "no_image"} ELSE {"none"}
  /\ UNCHANGED <<wrapperVars, builder, implVars, quit, happened>>

(* OnEncodedImage.  A frame without NAL unit is not sent.                   *)
Deliver ==
  /\ DrainAt("deliver")
  /\ drain' = "check"
  /\ \/ attached /\ UNCHANGED fault
     \/ ~attached /\ fault' = "no_wrapper"
  /\ UNCHANGED <<wrapperVars, builder, implVars, quit, happened>>

-----------------------------------------------------------------------------
(* rws.service starts the program again.                                    *)
Restart ==
  /\ ~Alive
  /\ Boot(g', inited', pending', builder', pc', attached', images', drain',
          quit', flow', fault', happened')

QueueStep ==
  \/ NewEncoder \/ InitEncode \/ InitEncoder \/ InitRest \/ InitCapture
  \/ SetRates \/ Encode \/ ReleaseEncoder \/ UninitEncoder \/ Finalize
DrainStep == DrainCheck \/ DrainRead \/ DrainLock \/ Deliver
BuilderStep == \E t \in Threads : Reinit(t) \/ StartCapture(t)
MainStep == Apply \/ ApplyWipes \/ ApplyReinit \/ Zoom \/ ZoomSets

Next == QueueStep \/ DrainStep \/ BuilderStep \/ Task \/ MainStep \/ Restart

Spec == Init /\ [][Next]_vars

-----------------------------------------------------------------------------
(* Properties *)

(* As long as building has not failed, and nobody was inside ReinitEncoder, *)
(* its callers or Zoom when Release removed the components or state_ was    *)
(* reset, an initialised encoder has all that StartCapture, Zoom and the    *)
(* callbacks take for granted, whatever was rebuilt and by whom.            *)
WholeInUse ==
  inited /\ happened = {} /\ Others = {} =>
    /\ \A o \in Components \cup {"encoder_tunnel"} : g.at[o] = "live"
    /\ \A c \in Components : g.port[c] = "live"

(* What a failure can lead to later, in this use of the encoder or the next:*)
(* without one, and without an overlap (a thread inside a rebuild or a zoom *)
(* when Release or a failing InitEncoder destroys what it uses, or a reset  *)
(* of state_ under a use), nothing is used after it was destroyed and       *)
(* nothing is lost; a use that fails before its ports are set leaves        *)
(* Release with the ports of the one before; one that fails later loses     *)
(* what it had built, but does no damage; a failing rebuild, which leaves   *)
(* mmal_initialized_ set, loses nothing, and what it destroyed is destroyed *)
(* again.                                                                   *)
DamageHasCause ==
  /\ happened = {} => g.damage = "none" /\ g.lost = {}
  /\ happened = {"early_init"} => g.damage \in {"none", "dead_port"} /\ g.lost = {}
  /\ happened = {"late_init"} => g.damage = "none"
  /\ happened = {"rebuild"} => g.lost = {}

(* The drain thread ends with the use of the encoder, and Release does not  *)
(* wait for a thread that goes on; the thread can find the wrapper gone     *)
(* only while Release waits for it.                                         *)
DrainEndsWithUse ==
  /\ pc = "idle" /\ ~attached => drain = "none"
  /\ pc = "join" /\ drain \notin {"none", "ended"} => quit
  /\ fault = "no_wrapper" => pc = "join"
=============================================================================
