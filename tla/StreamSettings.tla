----------------------------- MODULE StreamSettings -----------------------------
(***************************************************************************)
(* The numbers of the stream: the resolution that QualityConfig chooses    *)
(* for a bit rate, the values that the wrapper records in state_, and      *)
(* those that camera and encoder were really given.  The three are written *)
(* at different places: SetRate writes the components and state_, a change *)
(* that comes too early only state_, a rebuild the camera but not the      *)
(* encoder, a zoom the camera first and state_ after it.                   *)
(*                                                                         *)
(* Bit rates are in kbit/s, motion factors in tenths.  A region of         *)
(* interest is known by the crop rectangle that it stands for: the doubles *)
(* in between lose a unit for some widths, none of them in the run.        *)
(* The calls run one after the other; VideoEncoder interleaves them.  The  *)
(* shutter speed, which could set the frame rate to 0, is never set.       *)
(***************************************************************************)
EXTENDS Integers, Sequences

CONSTANTS
  Sizes,       \* GetVideoResolutionList, in order
  FixedSize,   \* GetFixedVideoResolution
  FixedFps,    \* GetFixedVideoFps
  MotionParams,\* size, frame rate and bit rate of config_motion
  Rates,       \* bit rates that the bandwidth estimation asks for
  FrameRates,  \* frame rates that WebRTC asks for
  Factors,     \* motion factors that the frame sizes yield
  Looks,       \* camera settings that may be configured
  Rois,        \* the region of interest of each, as a crop rectangle
  Centres,     \* centres of a zoom in, in tenths of the picture
  Drags,       \* ways of a move, in tenths
  MaxZooms     \* bound: zoom commands in one session

Size == [w : Nat, h : Nat]

ASSUME SizesAssumption ==
  /\ Sizes \in Seq(Size) /\ Sizes # <<>>
  /\ FixedSize \in Size
ASSUME MotionAssumption ==
  MotionParams \in [size : Size, fps : Nat, rate : Nat]
ASSUME RatesAssumption == Rates \cup FrameRates \cup Factors \subseteq Nat

Crop == [x : Nat, y : Nat, w : Nat, h : Nat]
Sensor == 65536

(* A region that was never set is empty; the others have passed             *)
(* VideoRoi::Set and isValid: more than a fifth of the picture, all of it   *)
(* on the sensor.                                                           *)
NoRegion == [x |-> 0, y |-> 0, w |-> 0, h |-> 0]
ValidRois ==
  {r \in Crop : /\ r.w >= 13080 /\ r.x + r.w <= Sensor
               /\ r.h >= 13107 /\ r.y + r.h <= Sensor}
ASSUME RoisAssumption ==
  /\ Looks # {} /\ DOMAIN Rois = Looks
  /\ \A l \in Looks : Rois[l] = NoRegion \/ Rois[l] \in ValidRois
ASSUME PointsAssumption ==
  Centres \subseteq [x : 0..10, y : 0..10] /\ Drags \subseteq [x : Int, y : Int]
ASSUME FixedFpsAssumption == FixedFps \in 5..30
ASSUME MaxZoomsAssumption == MaxZooms \in Nat

VARIABLES
  owner,     \* who has initialised the components: mmal_initialized_
  delay,     \* state_ of EncoderDelayedInit
  dynamic,   \* use_dynamic_video_resolution and use_dynamic_video_fps
  conf,      \* camera settings of the media configuration
  quality,   \* QualityConfig of the encoder
  st,        \* state_ of the wrapper
  cam,       \* what the camera's ports and its control port were given
  enc,       \* bit rate of the encoder's output port
  recorded,  \* state_ got a bit rate that no one has passed on since
  zooms,     \* zoom commands since the components were created
  widened,   \* one of them was OUT or MOVE, or the region is not upright
  failed     \* a component has refused a value

vars == <<owner, delay, dynamic, conf, quality, st, cam, enc, recorded, zooms, widened,
          failed>>
graph == <<st, cam, enc, recorded, failed>>

Inited == owner # "none"
Lesser(a, b) == IF a < b THEN a ELSE b

-----------------------------------------------------------------------------
(* QualityConfig *)

(* Frame rate and bit rate that it was told, and current_res_.              *)
NoSize == [w |-> 0, h |-> 0]
NewQuality(fps, rate) ==
  [fps |-> fps, rate |-> rate, res |-> [size |-> NoSize, fps |-> 0, rate |-> 0]]

(* The bit rate expected at a size, with a motion factor of m tenths:       *)
(* 25 pictures per second, kKushGaugeConstant bits per pixel.               *)
Expected(size, m) == (((size.w * size.h) \div 40) * 7 * m) \div 1000

Distance(size, m, rate) ==
  LET d == Expected(size, m) - rate IN IF d < 0 THEN -d ELSE d

(* The first of the nearest sizes.                                          *)
Nearest(m, rate) ==
  LET near(i) == Distance(Sizes[i], m, rate)
      best == CHOOSE i \in DOMAIN Sizes :
                \A j \in DOMAIN Sizes : near(i) < near(j) \/ (near(i) = near(j) /\ i <= j)
  IN  Sizes[best]

(* GetBestMatch: current_res_ is replaced only when its size changes, so    *)
(* the rates in it are those of the last change of size.                    *)
BestMatch(q, m) ==
  LET size == Nearest(m, q.rate)
  IN  IF ~dynamic.size \/ q.res.size = size THEN q
      ELSE [q EXCEPT !.res = [size |-> size, fps |-> q.fps, rate |-> q.rate]]

InitialBestMatch(q, m) ==
  IF dynamic.size THEN BestMatch(q, m)
  ELSE [q EXCEPT !.res = [size |-> FixedSize, fps |-> 30,
                          rate |-> (Expected(FixedSize, 30) * 6) \div 5]]

-----------------------------------------------------------------------------
(* The components, as functions of a record of the variables in graph *)

Graph == [st |-> st, cam |-> cam, enc |-> enc, recorded |-> recorded, failed |-> failed]

Becomes(g) ==
  /\ st' = g.st /\ cam' = g.cam /\ enc' = g.enc
  /\ recorded' = g.recorded /\ failed' = g.failed

MaxRate == 62500      \* level 4.2, which default_status sets
MaxBlocks == 522240   \* macroblocks per second at this level

Blocks(n) == (n + 15) \div 16

MaxWidth == 65404     \* MAX_VIDEO_CROP_WIDTH
MaxHeight == 65536    \* MAX_VIDEO_CROP_HEIGHT
ZoomReset == [x |-> 0, y |-> 0, w |-> MaxWidth, h |-> MaxHeight]

(* default_status.                                                          *)
Defaults ==
  [size |-> [w |-> 1920, h |-> 1080], fps |-> 30, rate |-> 17000,
   roi |-> ZoomReset, look |-> CHOOSE l \in Looks : TRUE]

(* What SetEncoderConfigParams takes from the                               *)
(* configuration; state_ is set to its defaults only before initialisation. *)
ConfigParams(s) ==
  [(IF Inited THEN s ELSE Defaults) EXCEPT !.roi = Rois[conf], !.look = conf]

With(s, c) == [s EXCEPT !.size = c.size, !.fps = c.fps, !.rate = c.rate]

(* The formats and parameters that the camera gets, at its creation as at   *)
(* its reset.                                                               *)
Camera(s) == [size |-> s.size, fps |-> s.fps, roi |-> s.roi, look |-> s.look]

(* InitEncoder: create_camera_component and create_encoder_component.       *)
Created(s, c) ==
  LET set == With(s, [c EXCEPT !.rate = Lesser(c.rate, MaxRate)])
  IN  [st |-> set, cam |-> Camera(set), enc |-> set.rate, recorded |-> FALSE,
       failed |-> FALSE]

Encodable(c) == Blocks(c.size.w) * Blocks(c.size.h) * c.fps <= MaxBlocks

Recorded(g, c) ==
  [g EXCEPT !.st = With(@, c), !.recorded = @ \/ c.rate # g.st.rate]

(* Bug: a camera that is reset keeps its region of interest.                *)
RebuiltAsZoomed(g, c, ok) ==
  LET r == Recorded(g, c)
  IN  IF ok THEN [r EXCEPT !.cam = [Camera(r.st) EXCEPT !.roi = g.cam.roi]]
      ELSE [r EXCEPT !.failed = TRUE]

(* ReinitEncoder: reset_camera_component gives the camera everything again, *)
(* reset_encoder_component gives the encoder nothing.  A failure leaves     *)
(* mmal_initialized_ as it is.                                              *)
Rebuilt(g, c, ok) ==
  LET r == Recorded(g, c)
  IN  IF ok THEN [r EXCEPT !.cam = Camera(r.st)] ELSE [r EXCEPT !.failed = TRUE]

(* Bug: the new bit rate is recorded and not passed on.                     *)
RateSetRecorded(g, fps, rate, ok) ==
  IF ~Inited THEN g
  ELSE [g EXCEPT !.st.rate = rate, !.st.fps = fps,
                 !.cam.fps = IF g.st.fps # fps THEN fps ELSE @]

(* SetRate: what differs from state_ is given to the components, and        *)
(* recorded even if they refuse it.                                         *)
RateSet(g, fps, rate, ok) ==
  IF ~Inited THEN g
  ELSE LET new == [g EXCEPT !.st.rate = rate, !.st.fps = fps]
       IN  IF ~ok THEN [new EXCEPT !.failed = TRUE]
           ELSE [new EXCEPT
                   !.enc = IF g.st.rate # rate THEN rate ELSE @,
                   !.recorded = @ /\ g.st.rate = rate,
                   !.cam.fps = IF g.st.fps # fps THEN fps ELSE @]

-----------------------------------------------------------------------------
(* RaspiEncoderImpl *)

Fps(asked) == IF dynamic.fps THEN Lesser(asked, 30) ELSE FixedFps

(* The best match differs from the encoder's size in width and in height.   *)
Differs(size) == size.w # st.size.w /\ size.h # st.size.h

(* Bug: the change is recorded, and not remembered as one to make.          *)
ReinitEncoderForgets(c) ==
  \E ok \in BOOLEAN :
    IF delay = "idle" THEN delay' = "cooling" /\ Becomes(Rebuilt(Graph, c, ok))
    ELSE delay' = delay /\ Becomes(Recorded(Graph, c))

(* EncoderDelayedInit::ReinitEncoder.                                       *)
ReinitEncoder(c) ==
  \E ok \in BOOLEAN :
    CASE delay = "idle" -> delay' = "cooling" /\ Becomes(Rebuilt(Graph, c, ok))
      [] delay = "delayed" -> delay' = delay /\ Becomes(Recorded(Graph, c))
      [] delay = "cooling" ->
           /\ delay' = IF With(st, c) # st THEN "delayed" ELSE delay
           /\ Becomes(Recorded(Graph, c))

(* SetRates with a bit rate: 0 only stops the flow of frames.               *)
SetRates(rate, asked, m) ==
  LET q == BestMatch([quality EXCEPT !.fps = Fps(asked), !.rate = rate], m)
  IN  /\ owner = "session"
      /\ quality' = q
      /\ IF Differs(q.res.size) THEN ReinitEncoder(q.res)
         ELSE /\ \E ok \in BOOLEAN : Becomes(RateSet(Graph, Fps(asked), rate, ok))
              /\ UNCHANGED delay
      /\ UNCHANGED <<owner, dynamic, conf, zooms, widened>>

(* A crop no wider than high, as a square region is: a unit of width is     *)
(* less than one of height.                                                 *)
Upright(r) == 0 < r.w /\ r.w <= r.h

(* InitEncoder with the parameters c, on behalf of who.  A failure leaves    *)
(* what state_ got.                                                         *)
InitEncoder(c, who) ==
  LET s == ConfigParams(st)
  IN  /\ ~Inited
      /\ \/ /\ Encodable(c) /\ owner' = who /\ Becomes(Created(s, c))
            /\ widened' = ~Upright(s.roi)
         \/ /\ owner' = "none" /\ st' = With(s, c)
            /\ UNCHANGED <<cam, enc, recorded, failed, widened>>
      /\ UNCHANGED <<dynamic, conf, zooms>>

(* InitEncode of a new encoder, up to its call of SetRates, which is a      *)
(* step of its own.                                                         *)
InitEncode(rate, asked, m) ==
  LET q == InitialBestMatch(NewQuality(Lesser(Fps(asked), 30), rate), m)
  IN  /\ InitEncoder(q.res, "session")
      /\ quality' = IF owner' = "none" THEN quality ELSE q
      /\ delay' = "cooling"

(* Motion detection initialises the same components, without the delay.     *)
MotionStart ==
  /\ InitEncoder(MotionParams, "motion")
  /\ UNCHANGED <<delay, quality>>

(* Release, or the end of motion detection: UninitEncoder destroys the      *)
(* components, and WebRTC the encoder with its QualityConfig.               *)
Release ==
  /\ Inited
  /\ owner' = "none"
  /\ quality' = NewQuality(25, 300)
  /\ cam' = Camera(Defaults) /\ enc' = 0
  /\ recorded' = FALSE /\ failed' = FALSE /\ zooms' = 0 /\ widened' = FALSE
  /\ UNCHANGED <<delay, dynamic, conf, st>>

-----------------------------------------------------------------------------
(* The delaying task and the requests of the client *)

Current(s) == [size |-> s.size, fps |-> s.fps, rate |-> s.rate]

(* UpdateStateOrMayInit, when the period of its state is over.              *)
Poll ==
  /\ \/ delay = "cooling" /\ delay' = "idle" /\ UNCHANGED graph
     \/ /\ delay = "delayed" /\ delay' = "cooling"
        /\ IF Inited THEN \E ok \in BOOLEAN : Becomes(Rebuilt(Graph, Current(st), ok))
           ELSE UNCHANGED graph
  /\ UNCHANGED <<owner, dynamic, conf, quality, zooms, widened>>

(* The client changes the configuration,                                    *)
Configure ==
  /\ conf' \in Looks
  /\ conf' # conf
  /\ UNCHANGED <<owner, delay, dynamic, quality, graph, zooms, widened>>

(* and applies it: a rebuild at once, whatever is delayed.                  *)
Apply ==
  LET s == ConfigParams(st)
  IN  /\ owner = "session"
      /\ \E ok \in BOOLEAN : Becomes(Rebuilt([Graph EXCEPT !.st = s], Current(s), ok))
      /\ widened' = (widened \/ ~Upright(s.roi))
      /\ UNCHANGED <<owner, delay, dynamic, conf, quality, zooms>>

-----------------------------------------------------------------------------
(* raspicamcontrol_zoom_with_coordination *)

Increment == 6553
FullZoom == 9830

(* A tenth at most is cut off, at the sides that the centre is away from.   *)
ZoomIn(r, c) ==
  IF r.w <= FullZoom + Increment THEN [r EXCEPT !.w = FullZoom, !.h = FullZoom]
  ELSE [x |-> r.x + (Increment * c.x) \div 10, y |-> r.y + (Increment * c.y) \div 10,
        w |-> r.w - Increment, h |-> r.h - Increment]

Back(a) == IF a < Increment \div 2 THEN 0 ELSE a - Increment \div 2

(* The height becomes the width; nothing keeps it on the sensor.            *)
ZoomOut(r) ==
  [x |-> Back(r.x), y |-> Back(r.y), w |-> r.w + Increment, h |-> r.w + Increment]

(* C's conversion of a product to int truncates.                            *)
Tenths(n, t) == IF t >= 0 THEN (n * t) \div 10 ELSE -((n * (-t)) \div 10)

(* A coordinate that is moved past 0 is set to 0, and then moved: the sum   *)
(* is tested again, and not the coordinate.  Past the largest crop, or      *)
(* below 0, where the unsigned sum wraps, it goes to the sensor's far edge. *)
Moved(a, len, d, max) ==
  LET from == IF a + d < 0 THEN 0 ELSE a
  IN  IF from + len + d \in 0..max THEN from + d ELSE Sensor - len

ZoomMove(r, c) ==
  [r EXCEPT !.x = Moved(r.x, r.w, Tenths(r.w, c.x), MaxWidth),
            !.y = Moved(r.y, r.h, Tenths(r.h, c.y), MaxHeight)]

(* The camera may refuse the rectangle; it and state_ then keep theirs.     *)
Zoom(roi, wide) ==
  /\ Inited /\ zooms < MaxZooms
  /\ zooms' = zooms + 1
  /\ \/ /\ cam' = [cam EXCEPT !.roi = roi]
        /\ st' = [st EXCEPT !.roi = roi]
        /\ widened' = (widened \/ wide)
     \/ UNCHANGED <<cam, st, widened>>
  /\ UNCHANGED <<owner, delay, dynamic, conf, quality, enc, recorded, failed>>

ZoomCommand ==
  \/ \E c \in Centres : Zoom(ZoomIn(cam.roi, c), FALSE)
  \/ Zoom(ZoomOut(cam.roi), TRUE)
  \/ \E c \in Drags : Zoom(ZoomMove(cam.roi, c), TRUE)
  \/ Zoom(ZoomReset, FALSE)

-----------------------------------------------------------------------------
Init ==
  /\ owner = "none" /\ delay = "idle"
  /\ dynamic \in [size : BOOLEAN, fps : BOOLEAN]
  /\ conf \in Looks
  /\ quality = NewQuality(25, 300)
  /\ st = Defaults
  /\ cam = Camera(Defaults)
  /\ enc = 0
  /\ recorded = FALSE /\ zooms = 0 /\ widened = FALSE /\ failed = FALSE

Next ==
  \/ \E rate \in Rates, fps \in FrameRates, m \in Factors :
       InitEncode(rate, fps, m) \/ SetRates(rate, fps, m)
  \/ MotionStart \/ Release \/ Poll \/ Configure \/ Apply \/ ZoomCommand

Spec == Init /\ [][Next]_vars

Crops == [x : Int, y : Int, w : Int, h : Int]
Params == [size : Size, fps : Nat, rate : Nat]

TypeOK ==
  /\ owner \in {"none", "session", "motion"}
  /\ delay \in {"idle", "cooling", "delayed"}
  /\ dynamic \in [size : BOOLEAN, fps : BOOLEAN]
  /\ conf \in Looks
  /\ quality \in [fps : Nat, rate : Nat, res : Params]
  /\ Current(st) \in Params /\ st.roi \in Crops /\ st.look \in Looks
  /\ cam \in [size : Size, fps : Nat, roi : Crops, look : Looks]
  /\ enc \in Nat /\ zooms \in 0..MaxZooms
  /\ {recorded, widened, failed} \subseteq BOOLEAN

-----------------------------------------------------------------------------
(* Properties, as long as no component has refused a value *)

Sound == Inited /\ ~failed

(* The camera has the size, frame rate and settings that state_ says, and   *)
(* that the drain thread writes into every frame, unless a change is        *)
(* delayed (mmal_wrapper.cc:129-157, 758-772, raspi_encoder_impl.cc:439).   *)
CameraFollows ==
  Sound =>
    /\ cam.look = st.look
    /\ delay # "delayed" => cam.size = st.size /\ cam.fps = st.fps

(* The encoder has the bit rate that state_ says, unless a change of the    *)
(* resolution has recorded another: a rebuild does not pass it on, and      *)
(* SetRate then takes it for set (mmal_wrapper.cc:774-813).                 *)
RateFollows == Sound /\ ~recorded => enc = st.rate

(* So state_ may be taken for what camera and encoder have.                 *)
RecordHolds == CameraFollows /\ RateFollows

Inside(r) ==
  r.x >= 0 /\ r.y >= 0 /\ r.w > 0 /\ r.h > 0 /\ r.x + r.w <= Sensor /\ r.y + r.h <= Sensor

(* state_ knows the region that the camera shows, so that a rebuild keeps   *)
(* the zoom, and zooming in to any centre and back to the whole stays on    *)
(* the sensor if the region was upright (raspicamcontrol.c:890-969).        *)
ZoomAgrees ==
  Sound => /\ cam.roi = st.roi
           /\ ~widened => Inside(cam.roi)
=============================================================================
