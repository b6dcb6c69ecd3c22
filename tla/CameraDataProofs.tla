---------------------------- MODULE CameraDataProofs ----------------------------
(***************************************************************************)
(* What is proved about the three consumers of the camera's settings and   *)
(* data that MCCameraData runs together.                                   *)
(*                                                                         *)
(* StreamSettings, for any sizes, rates, regions and numbers of zooms: as  *)
(* long as no component refuses a value, the record that the wrapper keeps *)
(* is what camera and encoder were given, except where the comments of the *)
(* properties say so.                                                      *)
(*                                                                         *)
(* MotionBlobs, for any size of the image, number of ids and thresholds:   *)
(* the blobs of an image hold ids of their own, and they are those of      *)
(* MotionAges.                                                             *)
(*                                                                         *)
(* MotionVectors, for any points and any width of their histories: what is *)
(* reported has moved, whatever was in the memory of the histories and     *)
(* however the float rounds them.                                          *)
(***************************************************************************)
EXTENDS StreamSettings, MotionVectors, MotionBlobs, FiniteSetTheorems, WellFoundedInduction, TLAPS

-----------------------------------------------------------------------------
(* The inductive invariant, in parts *)

Settings == [size : Size, fps : Nat, rate : Nat, roi : Crops, look : Looks]
Cameras == [size : Size, fps : Nat, roi : Crops, look : Looks]

Qualities == [fps : Nat, rate : Nat, res : Params]

Records == st \in Settings /\ cam \in Cameras

Scalars ==
  /\ owner \in {"none", "session", "motion"}
  /\ delay \in {"idle", "cooling", "delayed"}
  /\ dynamic \in [size : BOOLEAN, fps : BOOLEAN]
  /\ conf \in Looks /\ quality \in Qualities
  /\ enc \in Nat /\ zooms \in 0..MaxZooms
  /\ recorded \in BOOLEAN /\ widened \in BOOLEAN /\ failed \in BOOLEAN

(* What zooming in keeps: on the sensor, upright, and no smaller than the   *)
(* smallest region that it makes.                                           *)
Zoomable(r) ==
  /\ r \in Crops /\ r.x >= 0 /\ r.y >= 0
  /\ FullZoom <= r.w /\ r.w <= r.h
  /\ r.x + r.w <= Sensor /\ r.y + r.h <= Sensor

ZoomSound ==
  Sound => /\ cam.roi = st.roi
           /\ ~widened => Zoomable(cam.roi)

IInv == Scalars /\ Records /\ CameraFollows /\ RateFollows /\ ZoomSound

-----------------------------------------------------------------------------
(* Arithmetic *)

(* A set of numbers has a least one.                                        *)
LEMMA NatMin ==
  ASSUME NEW T, T \subseteq Nat, T # {}
  PROVE  \E x \in T : \A y \in T : x <= y
<1> DEFINE R == {ij \in Nat \X Nat : ij[1] < ij[2]}
<1>1. IsWellFoundedOn(R, Nat)
  BY NatLessThanWellFounded DEF OpToRel
<1>2. PICK x \in T : \A y \in T : <<y, x>> \notin R
  <2> HIDE DEF R
  <2> QED BY <1>1, WFMin
<1>3. ASSUME NEW y \in T PROVE x <= y
  <2>1. /\ <<y, x>> \notin R /\ <<y, x>> \in Nat \X Nat
        /\ y \in Nat /\ x \in Nat
    BY <1>2
  <2>2. ~(<<y, x>>[1] < <<y, x>>[2])
    BY <2>1
  <2> QED BY <2>1, <2>2
<1> QED BY <1>3

(* The divisions of the model stay in the numbers.                          *)
LEMMA Quotients ==
  /\ \A n \in Nat : /\ n \div 5 \in Nat /\ n \div 40 \in Nat
                    /\ n \div 1000 \in Nat
  /\ \A n \in Int : n \div 10 \in Int
  /\ Increment \div 2 = 3276
BY DEF Increment

(* The bit rate expected at a size is a number.                             *)
LEMMA ExpectedType ==
  ASSUME NEW size \in Size, NEW m \in Nat
  PROVE  Expected(size, m) \in Nat
<1> DEFINE a == (size.w * size.h) \div 40
           b == a * 7 * m
<1>1. a \in Nat
  <2>1. size.w * size.h \in Nat
    BY DEF Size
  <2> QED BY <2>1, Quotients
<1>2. b \in Nat
  <2> HIDE DEF a
  <2> QED BY <1>1
<1>3. b \div 1000 \in Nat
  <2> HIDE DEF b
  <2> QED BY <1>2, Quotients
<1> QED BY <1>3 DEF Expected

LEMMA SizesAreSizes ==
  /\ DOMAIN Sizes \subseteq Nat /\ DOMAIN Sizes # {}
  /\ \A i \in DOMAIN Sizes : Sizes[i] \in Size
  /\ FixedSize \in Size
<1>1. DOMAIN Sizes = 1 .. Len(Sizes) /\ Len(Sizes) \in Nat \ {0}
  BY SizesAssumption
<1>2. DOMAIN Sizes \subseteq Nat /\ DOMAIN Sizes # {}
  BY <1>1
<1>3. \A i \in DOMAIN Sizes : Sizes[i] \in Size
  BY SizesAssumption
<1> QED BY <1>2, <1>3, SizesAssumption

(* The search for the nearest size finds one of the list: the first of the  *)
(* nearest, although the distances may be equal.                            *)
LEMMA NearestIsSize ==
  ASSUME NEW m \in Nat, NEW rate \in Nat
  PROVE  \E i \in DOMAIN Sizes : Nearest(m, rate) = Sizes[i]
<1> DEFINE near(i) == Distance(Sizes[i], m, rate)
           D == DOMAIN Sizes
           Values == {near(i) : i \in D}
           Best(i) == \A j \in D : near(i) < near(j) \/ (near(i) = near(j) /\ i <= j)
<1>1. D \subseteq Nat /\ D # {}
  BY SizesAreSizes
<1>2. \A i \in D : near(i) \in Nat
  <2> TAKE i \in D
  <2> DEFINE e == Expected(Sizes[i], m)
  <2>1. e \in Nat
    BY ExpectedType, SizesAreSizes
  <2>2. Distance(Sizes[i], m, rate) = IF e - rate < 0 THEN -(e - rate) ELSE e - rate
    BY DEF Distance
  <2>3. (IF e - rate < 0 THEN -(e - rate) ELSE e - rate) \in Nat
    <3> HIDE DEF e
    <3>1. CASE e - rate < 0
      BY <2>1, <3>1
    <3>2. CASE ~(e - rate < 0)
      BY <2>1, <3>2
    <3> QED BY <3>1, <3>2
  <2> QED BY <2>2, <2>3
<1>3. PICK v \in Values : \A u \in Values : v <= u
  <2> HIDE DEF near, D
  <2>1. Values \subseteq Nat /\ Values # {}
    BY <1>1, <1>2
  <2> HIDE DEF Values
  <2> QED BY <2>1, NatMin
<1> DEFINE Firsts == {i \in D : near(i) = v}
<1>4. PICK i \in Firsts : \A j \in Firsts : i <= j
  <2> HIDE DEF near, D
  <2>1. Firsts \subseteq Nat /\ Firsts # {}
    BY <1>1, <1>3
  <2> HIDE DEF Firsts
  <2> QED BY <2>1, NatMin
<1>5. i \in D /\ Best(i)
  <2> HIDE DEF near, D
  <2>1. i \in D /\ near(i) = v
    OBVIOUS
  <2>2. ASSUME NEW j \in D
        PROVE  near(i) < near(j) \/ (near(i) = near(j) /\ i <= j)
    <3>1. v <= near(j) /\ near(j) \in Nat /\ v \in Nat
      BY <1>2, <1>3
    <3>2. near(j) = v => i <= j
      BY <1>4
    <3> QED BY <2>1, <3>1, <3>2
  <2> QED BY <2>1, <2>2
<1>6. Nearest(m, rate) = Sizes[CHOOSE k \in D : Best(k)]
  BY DEF Nearest
<1>7. (CHOOSE k \in D : Best(k)) \in D
  <2> HIDE DEF Best, D
  <2> QED BY <1>5
<1> QED BY <1>6, <1>7

-----------------------------------------------------------------------------
(* The types of QualityConfig and of what it returns *)

LEMMA BestMatchType ==
  ASSUME NEW q \in Qualities, NEW m \in Nat
  PROVE  BestMatch(q, m) \in Qualities
<1> DEFINE size == Nearest(m, q.rate)
<1>1. q.rate \in Nat /\ q.fps \in Nat
  BY DEF Qualities
<1>2. size \in Size
  BY <1>1, NearestIsSize, SizesAreSizes
<1>3. BestMatch(q, m) \in {q, [q EXCEPT !.res = [size |-> size, fps |-> q.fps,
                                                 rate |-> q.rate]]}
  BY DEF BestMatch
<1> HIDE DEF size
<1>4. [size |-> size, fps |-> q.fps, rate |-> q.rate] \in Params
  BY <1>1, <1>2 DEF Params
<1>5. [q EXCEPT !.res = [size |-> size, fps |-> q.fps, rate |-> q.rate]] \in Qualities
  BY <1>4 DEF Qualities
<1> QED BY <1>3, <1>5

LEMMA InitialBestMatchType ==
  ASSUME NEW q \in Qualities, NEW m \in Nat
  PROVE  InitialBestMatch(q, m) \in Qualities
<1>1. CASE dynamic.size
  BY <1>1, BestMatchType DEF InitialBestMatch
<1>2. CASE ~dynamic.size
  <2> DEFINE e == Expected(FixedSize, 30)
             rate == (e * 6) \div 5
             res == [size |-> FixedSize, fps |-> 30, rate |-> rate]
  <2>1. e \in Nat
    BY ExpectedType, SizesAreSizes
  <2>2. rate \in Nat
    <3> HIDE DEF e
    <3>1. e * 6 \in Nat
      BY <2>1
    <3> QED BY <3>1, Quotients
  <2>3. InitialBestMatch(q, m) = [q EXCEPT !.res = res]
    BY <1>2 DEF InitialBestMatch
  <2> HIDE DEF rate
  <2>4. res \in Params
    BY <2>2, SizesAreSizes DEF Params
  <2> HIDE DEF res
  <2> QED BY <2>3, <2>4 DEF Qualities
<1> QED BY <1>1, <1>2

LEMMA FpsType ==
  ASSUME NEW asked \in Nat
  PROVE  Fps(asked) \in Nat /\ Lesser(Fps(asked), 30) \in Nat
BY FixedFpsAssumption DEF Fps, Lesser

-----------------------------------------------------------------------------
(* What the steps of the components do to the graph *)

LEMMA DefaultsType == Defaults \in Settings /\ Camera(Defaults) \in Cameras
<1>1. (CHOOSE l \in Looks : TRUE) \in Looks
  BY RoisAssumption
<1>2. ZoomReset \in Crops
  BY DEF ZoomReset, Crops, MaxWidth, MaxHeight
<1>3. [w |-> 1920, h |-> 1080] \in Size
  BY DEF Size
<1> QED BY <1>1, <1>2, <1>3 DEF Defaults, Settings, Camera, Cameras

LEMMA RoisType == \A l \in Looks : Rois[l] \in Crops
BY RoisAssumption DEF NoRegion, ValidRois, Crop, Crops

(* A configured region that is upright can be zoomed into.                  *)
LEMMA UprightIsZoomable ==
  ASSUME NEW l \in Looks, Upright(Rois[l])
  PROVE  Zoomable(Rois[l])
<1>1. Rois[l] \in ValidRois
  BY RoisAssumption DEF Upright, NoRegion
<1> DEFINE r == Rois[l]
<1>2. /\ r.x \in Nat /\ r.y \in Nat /\ r.w \in Nat /\ r.h \in Nat
      /\ r.w >= 13080 /\ r.x + r.w <= Sensor /\ r.y + r.h <= Sensor
  BY <1>1 DEF ValidRois, Crop
<1>3. r \in Crops /\ r.w <= r.h
  BY RoisType DEF Upright
<1> HIDE DEF r
<1>4. FullZoom <= r.w /\ r.x >= 0 /\ r.y >= 0
  BY <1>2 DEF FullZoom
<1> QED BY <1>2, <1>3, <1>4 DEF Zoomable, r

(* Parameters recorded in the settings s.                                   *)
LEMMA WithIs ==
  ASSUME NEW s \in Settings, NEW c \in Params
  PROVE  /\ With(s, c) \in Settings
         /\ With(s, c).size = c.size /\ With(s, c).fps = c.fps
         /\ With(s, c).rate = c.rate
         /\ With(s, c).roi = s.roi /\ With(s, c).look = s.look
<1> DEFINE one == [s EXCEPT !.size = c.size]
           two == [one EXCEPT !.fps = c.fps]
           three == [two EXCEPT !.rate = c.rate]
<1>1. c.size \in Size /\ c.fps \in Nat /\ c.rate \in Nat
  BY DEF Params
<1>2. /\ one \in Settings /\ one.size = c.size
      /\ one.roi = s.roi /\ one.look = s.look
  BY <1>1 DEF Settings
<1>3. /\ two \in Settings /\ two.size = c.size /\ two.fps = c.fps
      /\ two.roi = s.roi /\ two.look = s.look
  <2> HIDE DEF one
  <2> QED BY <1>1, <1>2 DEF Settings
<1>4. /\ three \in Settings
      /\ three.size = c.size /\ three.fps = c.fps /\ three.rate = c.rate
      /\ three.roi = s.roi /\ three.look = s.look
  <2> HIDE DEF two
  <2> QED BY <1>1, <1>3 DEF Settings
<1>5. With(s, c) = three
  BY DEF With
<1> HIDE DEF three
<1> QED BY <1>4, <1>5

LEMMA CameraIs ==
  ASSUME NEW s \in Settings
  PROVE  /\ Camera(s) \in Cameras
         /\ Camera(s).size = s.size /\ Camera(s).fps = s.fps
         /\ Camera(s).roi = s.roi /\ Camera(s).look = s.look
BY DEF Camera, Settings, Cameras

LEMMA ConfigParamsIs ==
  ASSUME NEW s \in Settings, conf \in Looks
  PROVE  /\ ConfigParams(s) \in Settings
         /\ ConfigParams(s).roi = Rois[conf] /\ ConfigParams(s).look = conf
         /\ Inited => /\ ConfigParams(s).size = s.size
                      /\ ConfigParams(s).fps = s.fps
                      /\ ConfigParams(s).rate = s.rate
<1> DEFINE t == IF Inited THEN s ELSE Defaults
<1>1. t \in Settings
  BY DefaultsType
<1>2. ConfigParams(s) = [t EXCEPT !.roi = Rois[conf], !.look = conf]
  BY DEF ConfigParams
<1>3. Inited => t = s
  OBVIOUS
<1>4. Rois[conf] \in Crops
  BY RoisType
<1> DEFINE u == [t EXCEPT !.roi = Rois[conf], !.look = conf]
<1> HIDE DEF t
<1>5. u \in Settings /\ u.roi = Rois[conf] /\ u.look = conf
  BY <1>1, <1>4 DEF Settings
<1>6. u.size = t.size /\ u.fps = t.fps /\ u.rate = t.rate
  BY <1>1 DEF Settings
<1> HIDE DEF u
<1>7. ConfigParams(s) = u
  BY <1>2 DEF u
<1> QED BY <1>3, <1>5, <1>6, <1>7

(* Single updates of a graph.                                               *)
LEMMA GraphUpdates ==
  ASSUME NEW a, NEW b, NEW c, NEW d, NEW e, NEW x,
         NEW g, g = [st |-> a, cam |-> b, enc |-> c, recorded |-> d, failed |-> e]
  PROVE  /\ g.st = a /\ g.cam = b /\ g.enc = c /\ g.recorded = d /\ g.failed = e
         /\ [g EXCEPT !.st = x] =
              [st |-> x, cam |-> b, enc |-> c, recorded |-> d, failed |-> e]
         /\ [g EXCEPT !.recorded = x] =
              [st |-> a, cam |-> b, enc |-> c, recorded |-> x, failed |-> e]
OBVIOUS

(* The graph after a rebuild with the parameters c, when state_ was s.      *)
LEMMA RebuiltIs ==
  ASSUME NEW s \in Settings, NEW c \in Params, NEW ok \in BOOLEAN,
         recorded \in BOOLEAN, failed \in BOOLEAN,
         Becomes(Rebuilt([Graph EXCEPT !.st = s], c, ok))
  PROVE  /\ st' = With(s, c) /\ enc' = enc
         /\ recorded' \in BOOLEAN /\ failed' \in BOOLEAN
         /\ ~recorded' => ~recorded /\ c.rate = s.rate
         /\ ok => failed' = failed /\ cam' = Camera(With(s, c))
         /\ ~ok => failed' /\ cam' = cam
<1> DEFINE g == [st |-> s, cam |-> cam, enc |-> enc, recorded |-> recorded,
                 failed |-> failed]
           rec == recorded \/ c.rate # s.rate
           new == With(s, c)
           r == [g EXCEPT !.st = new, !.recorded = rec]
<1>1. [Graph EXCEPT !.st = s] = g
  BY DEF Graph
<1>2. Recorded(g, c) = r
  BY DEF Recorded
<1>3. rec \in BOOLEAN /\ (~rec => ~recorded /\ c.rate = s.rate)
  OBVIOUS
<1> HIDE DEF rec, new
<1>4. r = [st |-> new, cam |-> cam, enc |-> enc, recorded |-> rec, failed |-> failed]
  <2> DEFINE half == [g EXCEPT !.st = new]
  <2>1. half = [st |-> new, cam |-> cam, enc |-> enc, recorded |-> recorded,
                failed |-> failed]
    BY GraphUpdates
  <2>2. r = [half EXCEPT !.recorded = rec]
    OBVIOUS
  <2> HIDE DEF half, r
  <2> QED BY <2>1, <2>2, GraphUpdates
<1>5. CASE ok
  <2>1. Rebuilt(g, c, ok) = [r EXCEPT !.cam = Camera(r.st)]
    BY <1>2, <1>5 DEF Rebuilt
  <2>2. Rebuilt(g, c, ok) = [st |-> new, cam |-> Camera(new), enc |-> enc,
                             recorded |-> rec, failed |-> failed]
    BY <1>4, <2>1
  <2>3. /\ st' = new /\ cam' = Camera(new) /\ enc' = enc
        /\ recorded' = rec /\ failed' = failed
    BY <1>1, <2>2 DEF Becomes
  <2> QED BY <1>3, <1>5, <2>3 DEF new
<1>6. CASE ~ok
  <2>1. Rebuilt(g, c, ok) = [r EXCEPT !.failed = TRUE]
    BY <1>2, <1>6 DEF Rebuilt
  <2>2. Rebuilt(g, c, ok) = [st |-> new, cam |-> cam, enc |-> enc,
                             recorded |-> rec, failed |-> TRUE]
    BY <1>4, <2>1
  <2>3. /\ st' = new /\ cam' = cam /\ enc' = enc
        /\ recorded' = rec /\ failed' = TRUE
    BY <1>1, <2>2 DEF Becomes
  <2> QED BY <1>3, <1>6, <2>3 DEF new
<1> QED BY <1>5, <1>6

(* The graph after a change that is only recorded.                          *)
LEMMA RecordedIs ==
  ASSUME NEW c \in Params, recorded \in BOOLEAN, Becomes(Recorded(Graph, c))
  PROVE  /\ st' = With(st, c) /\ enc' = enc /\ cam' = cam /\ failed' = failed
         /\ recorded' \in BOOLEAN
         /\ ~recorded' => ~recorded /\ c.rate = st.rate
<1> DEFINE rec == recorded \/ c.rate # st.rate
           new == With(st, c)
<1>1. Recorded(Graph, c) = [Graph EXCEPT !.st = new, !.recorded = rec]
  BY DEF Recorded, Graph
<1>2. rec \in BOOLEAN /\ (~rec => ~recorded /\ c.rate = st.rate)
  OBVIOUS
<1> HIDE DEF rec, new
<1>3. Recorded(Graph, c) = [st |-> new, cam |-> cam, enc |-> enc, recorded |-> rec,
                            failed |-> failed]
  BY <1>1 DEF Graph
<1>4. /\ st' = new /\ cam' = cam /\ enc' = enc /\ recorded' = rec
      /\ failed' = failed
  BY <1>3 DEF Becomes
<1> QED BY <1>2, <1>4 DEF new

(* The graph after SetRate on initialised components.                       *)
LEMMA RateSetIs ==
  ASSUME st \in Settings, cam \in Cameras, recorded \in BOOLEAN, failed \in BOOLEAN,
         NEW fps, NEW rate, NEW ok \in BOOLEAN,
         Inited, Becomes(RateSet(Graph, fps, rate, ok))
  PROVE  /\ st' = [st EXCEPT !.rate = rate, !.fps = fps]
         /\ recorded' \in BOOLEAN
         /\ ~ok => failed' = TRUE /\ cam' = cam /\ enc' = enc
         /\ ok => /\ failed' = failed
                  /\ cam' = IF st.fps # fps THEN [cam EXCEPT !.fps = fps] ELSE cam
                  /\ enc' = IF st.rate # rate THEN rate ELSE enc
                  /\ ~recorded' => ~recorded \/ st.rate # rate
<1> DEFINE new == [Graph EXCEPT !.st.rate = rate, !.st.fps = fps]
           set == [st EXCEPT !.rate = rate, !.fps = fps]
           same == recorded /\ st.rate = rate
           shown == [cam EXCEPT !.fps = IF st.fps # fps THEN fps ELSE @]
           given == IF st.rate # rate THEN rate ELSE enc
<1>1. new = [st |-> set, cam |-> cam, enc |-> enc, recorded |-> recorded,
             failed |-> failed]
  <2> DEFINE half == [Graph EXCEPT !.st.rate = rate]
             start == [st EXCEPT !.rate = rate]
  <2>1. half = [st |-> start, cam |-> cam, enc |-> enc, recorded |-> recorded,
                failed |-> failed]
    BY GraphUpdates DEF Graph
  <2>2. [half EXCEPT !.st.fps = fps] = [half EXCEPT !.st = [half.st EXCEPT !.fps = fps]]
    OBVIOUS
  <2>3. half.st = start
    BY <2>1, GraphUpdates
  <2>4. new = [half EXCEPT !.st.fps = fps] /\ set = [start EXCEPT !.fps = fps]
    OBVIOUS
  <2> HIDE DEF half, start, new, set
  <2> QED BY <2>1, <2>2, <2>3, <2>4, GraphUpdates
<1>2. same \in BOOLEAN /\ (~same => ~recorded \/ st.rate # rate)
  OBVIOUS
<1>3. shown = IF st.fps # fps THEN [cam EXCEPT !.fps = fps] ELSE cam
  BY DEF Cameras
<1>4. CASE ok
  <2>1. RateSet(Graph, fps, rate, ok) =
          [new EXCEPT !.enc = given, !.recorded = same,
                      !.cam = shown]
    BY <1>4, <1>1 DEF RateSet, Graph
  <2> HIDE DEF new, set, same, shown, given
  <2>2. RateSet(Graph, fps, rate, ok) =
          [st |-> set, cam |-> shown, enc |-> given, recorded |-> same,
           failed |-> failed]
    BY <1>1, <2>1
  <2>3. /\ st' = set /\ cam' = shown /\ enc' = given /\ recorded' = same
        /\ failed' = failed
    BY <2>2 DEF Becomes
  <2> QED BY <1>2, <1>3, <1>4, <2>3 DEF set, given
<1>5. CASE ~ok
  <2>1. RateSet(Graph, fps, rate, ok) = [new EXCEPT !.failed = TRUE]
    BY <1>5 DEF RateSet
  <2> HIDE DEF new, set, same, shown, given
  <2>2. RateSet(Graph, fps, rate, ok) =
          [st |-> set, cam |-> cam, enc |-> enc, recorded |-> recorded, failed |-> TRUE]
    BY <1>1, <2>1
  <2>3. /\ st' = set /\ cam' = cam /\ enc' = enc /\ recorded' = recorded
        /\ failed' = TRUE
    BY <2>2 DEF Becomes
  <2> QED BY <1>5, <2>3 DEF set
<1> QED BY <1>4, <1>5

-----------------------------------------------------------------------------
(* Every step preserves the invariant *)

LEMMA TypeFromParts == Scalars /\ Records => TypeOK
<1> SUFFICES ASSUME Scalars, Records PROVE TypeOK
  OBVIOUS
<1>1. Current(st) \in Params /\ st.roi \in Crops /\ st.look \in Looks
  BY DEF Records, Settings, Current, Params
<1> QED BY <1>1 DEF TypeOK, Scalars, Records, Cameras, Qualities

LEMMA CurrentType ==
  ASSUME NEW s \in Settings
  PROVE  Current(s) \in Params /\ Current(s).rate = s.rate
BY DEF Settings, Current, Params

(* A rebuild, from settings with the recorded bit rate.                     *)
LEMMA RebuiltKeeps ==
  ASSUME IInv, NEW s \in Settings, NEW c \in Params, NEW ok \in BOOLEAN,
         s.rate = st.rate, Becomes(Rebuilt([Graph EXCEPT !.st = s], c, ok)),
         Inited, owner' = owner
  PROVE  /\ Records' /\ enc' \in Nat
         /\ recorded' \in BOOLEAN /\ failed' \in BOOLEAN
         /\ CameraFollows' /\ RateFollows'
         /\ Sound' => Sound /\ cam'.roi = s.roi /\ st'.roi = s.roi
<1> DEFINE new == With(s, c)
<1>1. /\ st' = new /\ enc' = enc
      /\ recorded' \in BOOLEAN /\ failed' \in BOOLEAN
      /\ ~recorded' => ~recorded /\ c.rate = s.rate
      /\ ok => failed' = failed /\ cam' = Camera(new)
      /\ ~ok => failed' /\ cam' = cam
  BY RebuiltIs DEF IInv, Scalars
<1>2. /\ new \in Settings /\ new.rate = c.rate /\ new.roi = s.roi
  BY WithIs
<1>3. /\ Camera(new) \in Cameras
      /\ Camera(new).size = new.size /\ Camera(new).fps = new.fps
      /\ Camera(new).roi = new.roi /\ Camera(new).look = new.look
  BY <1>2, CameraIs
<1> HIDE DEF new
<1>4. Records'
  BY <1>1, <1>2, <1>3 DEF IInv, Records
<1>5. Sound' => Sound /\ cam' = Camera(new)
  BY <1>1 DEF Sound, Inited
<1>6. CameraFollows'
  BY <1>1, <1>3, <1>5 DEF CameraFollows
<1>7. RateFollows'
  BY <1>1, <1>2, <1>5 DEF IInv, RateFollows
<1>8. Sound' => Sound /\ cam'.roi = s.roi /\ st'.roi = s.roi
  BY <1>1, <1>2, <1>3, <1>5
<1>9. enc' \in Nat
  BY <1>1 DEF IInv, Scalars
<1> QED BY <1>1, <1>4, <1>6, <1>7, <1>8, <1>9

LEMMA GraphIsItself == Graph = [Graph EXCEPT !.st = st]
BY DEF Graph

(* A change that the delay lets through or puts off.                        *)
LEMMA ReinitEncoderKeeps ==
  ASSUME IInv, NEW c \in Params, ReinitEncoder(c), owner = "session",
         UNCHANGED <<owner, dynamic, conf, zooms, widened>>, quality' \in Qualities
  PROVE  IInv'
<1>1. Inited /\ owner' = owner
  BY DEF Inited
<1>2. Scalars /\ Records /\ recorded \in BOOLEAN /\ st \in Settings
  BY DEF IInv, Scalars, Records
<1>3. PICK ok \in BOOLEAN :
        CASE delay = "idle" -> delay' = "cooling" /\ Becomes(Rebuilt(Graph, c, ok))
          [] delay = "delayed" -> delay' = delay /\ Becomes(Recorded(Graph, c))
          [] delay = "cooling" ->
               /\ delay' = IF With(st, c) # st THEN "delayed" ELSE delay
               /\ Becomes(Recorded(Graph, c))
  BY DEF ReinitEncoder
<1>4. CASE delay = "idle"
  <2>1. delay' = "cooling" /\ Becomes(Rebuilt(Graph, c, ok))
    BY <1>3, <1>4
  <2>2. Becomes(Rebuilt([Graph EXCEPT !.st = st], c, ok))
    BY <2>1, GraphIsItself
  <2>3. /\ Records' /\ enc' \in Nat
        /\ recorded' \in BOOLEAN /\ failed' \in BOOLEAN
        /\ CameraFollows' /\ RateFollows'
        /\ Sound' => Sound /\ cam'.roi = st.roi /\ st'.roi = st.roi
    BY <1>1, <1>2, <2>2, RebuiltKeeps
  <2>4. Scalars'
    BY <1>2, <2>1, <2>3 DEF Scalars
  <2>5. ZoomSound'
    BY <2>3 DEF IInv, ZoomSound
  <2> QED BY <2>3, <2>4, <2>5 DEF IInv
<1>5. CASE delay # "idle"
  <2>1. Becomes(Recorded(Graph, c)) /\ delay' \in {"cooling", "delayed"}
    BY <1>2, <1>3, <1>5 DEF Scalars
  <2>2. delay' # "delayed" => delay # "delayed" /\ With(st, c) = st
    BY <1>2, <1>3, <1>5 DEF Scalars
  <2>3. /\ st' = With(st, c) /\ enc' = enc /\ cam' = cam /\ failed' = failed
        /\ recorded' \in BOOLEAN
        /\ ~recorded' => ~recorded /\ c.rate = st.rate
    BY <1>2, <2>1, RecordedIs
  <2>4. /\ st' \in Settings /\ st'.rate = c.rate
        /\ st'.roi = st.roi /\ st'.look = st.look
    BY <1>2, <2>3, WithIs
  <2>5. Sound' = Sound
    BY <1>1, <2>3 DEF Sound, Inited
  <2>6. Scalars' /\ Records'
    BY <1>2, <2>1, <2>3, <2>4 DEF Scalars, Records
  <2>7. CameraFollows'
    BY <2>2, <2>3, <2>4, <2>5 DEF IInv, CameraFollows
  <2>8. RateFollows'
    BY <2>3, <2>4, <2>5 DEF IInv, RateFollows
  <2>9. ZoomSound'
    BY <2>3, <2>4, <2>5 DEF IInv, ZoomSound
  <2> QED BY <2>6, <2>7, <2>8, <2>9 DEF IInv
<1> QED BY <1>4, <1>5

(* A change of the rates alone.                                             *)
LEMMA RateSetKeeps ==
  ASSUME IInv, NEW fps \in Nat, NEW rate \in Nat, NEW ok \in BOOLEAN,
         Becomes(RateSet(Graph, fps, rate, ok)), owner = "session",
         UNCHANGED <<owner, delay, dynamic, conf, zooms, widened>>,
         quality' \in Qualities
  PROVE  IInv'
<1> DEFINE new == [st EXCEPT !.rate = rate, !.fps = fps]
           shown == IF st.fps # fps THEN [cam EXCEPT !.fps = fps] ELSE cam
<1>1. Inited /\ owner' = owner
  BY DEF Inited
<1>2. /\ Scalars /\ st \in Settings /\ cam \in Cameras
      /\ recorded \in BOOLEAN /\ failed \in BOOLEAN
  BY DEF IInv, Scalars, Records
<1>3. /\ st' = new /\ recorded' \in BOOLEAN
      /\ ~ok => failed' = TRUE /\ cam' = cam /\ enc' = enc
      /\ ok => /\ failed' = failed
               /\ cam' = shown
               /\ enc' = IF st.rate # rate THEN rate ELSE enc
               /\ ~recorded' => ~recorded \/ st.rate # rate
  BY <1>1, <1>2, RateSetIs
<1>4. /\ new \in Settings /\ new.rate = rate /\ new.fps = fps
      /\ new.size = st.size /\ new.roi = st.roi /\ new.look = st.look
  BY <1>2 DEF Settings
<1>5. /\ shown \in Cameras /\ shown.size = cam.size
      /\ shown.roi = cam.roi /\ shown.look = cam.look
      /\ shown.fps = IF st.fps # fps THEN fps ELSE cam.fps
  BY <1>2 DEF Cameras
<1> HIDE DEF new, shown
<1>6. cam' \in Cameras /\ enc' \in Nat /\ failed' \in BOOLEAN
  BY <1>2, <1>3, <1>5 DEF Scalars
<1>7. Sound' => Sound /\ ok
  BY <1>1, <1>3 DEF Sound, Inited
<1>8. Scalars' /\ Records'
  BY <1>2, <1>3, <1>4, <1>6 DEF Scalars, Records
<1>9. CameraFollows'
  BY <1>3, <1>4, <1>5, <1>7 DEF IInv, CameraFollows
<1>10. RateFollows'
  BY <1>3, <1>4, <1>7 DEF IInv, RateFollows
<1>11. ZoomSound'
  BY <1>3, <1>4, <1>5, <1>7 DEF IInv, ZoomSound
<1> QED BY <1>8, <1>9, <1>10, <1>11 DEF IInv

LEMMA SetRatesKeeps ==
  ASSUME IInv, NEW rate \in Nat, NEW asked \in Nat, NEW m \in Nat,
         SetRates(rate, asked, m)
  PROVE  IInv'
<1> DEFINE ask == [quality EXCEPT !.fps = Fps(asked), !.rate = rate]
          q == BestMatch(ask, m)
<1>1. ask \in Qualities
  <2>1. quality \in Qualities
    BY DEF IInv, Scalars
  <2> QED BY <2>1, FpsType DEF Qualities
<1>2. q \in Qualities
  <2> HIDE DEF ask
  <2> QED BY <1>1, BestMatchType
<1>3. /\ owner = "session" /\ quality' = q
      /\ UNCHANGED <<owner, dynamic, conf, zooms, widened>>
  BY DEF SetRates
<1>4. \/ ReinitEncoder(q.res)
      \/ UNCHANGED delay /\ \E ok \in BOOLEAN : Becomes(RateSet(Graph, Fps(asked), rate, ok))
  BY DEF SetRates
<1>5. q.res \in Params /\ quality' \in Qualities
  <2> HIDE DEF q
  <2> QED BY <1>2, <1>3 DEF Qualities
<1> HIDE DEF q
<1>6. CASE ReinitEncoder(q.res)
  BY <1>3, <1>5, <1>6, ReinitEncoderKeeps
<1>7. CASE /\ UNCHANGED delay
           /\ \E ok \in BOOLEAN : Becomes(RateSet(Graph, Fps(asked), rate, ok))
  BY <1>3, <1>5, <1>7, FpsType, RateSetKeeps
<1> QED BY <1>4, <1>6, <1>7

(* The creation of the components: camera and encoder get what is recorded. *)
LEMMA InitEncoderKeeps ==
  ASSUME IInv, NEW c \in Params, NEW who \in {"session", "motion"},
         InitEncoder(c, who),
         delay' \in {"idle", "cooling", "delayed"}, quality' \in Qualities
  PROVE  IInv'
<1> DEFINE s == ConfigParams(st)
           set == With(s, [c EXCEPT !.rate = Lesser(c.rate, MaxRate)])
<1>1. Scalars /\ st \in Settings /\ conf \in Looks
  BY DEF IInv, Scalars, Records
<1>2. s \in Settings /\ s.roi = Rois[conf]
  BY <1>1, ConfigParamsIs
<1>3. UNCHANGED <<dynamic, conf, zooms>>
  BY DEF InitEncoder
<1>4. [c EXCEPT !.rate = Lesser(c.rate, MaxRate)] \in Params
  BY DEF Params, Lesser, MaxRate
<1>5. CASE owner' = who /\ Becomes(Created(s, c)) /\ widened' = ~Upright(s.roi)
  <2>1. set \in Settings /\ set.roi = s.roi
    <3> HIDE DEF s
    <3> QED BY <1>2, <1>4, WithIs
  <2>2. /\ st' = set /\ cam' = Camera(set) /\ enc' = set.rate
        /\ recorded' = FALSE /\ failed' = FALSE
    BY <1>5 DEF Created, Becomes
  <2> HIDE DEF set, s
  <2>3. /\ cam' \in Cameras /\ cam'.size = set.size /\ cam'.fps = set.fps
        /\ cam'.roi = set.roi /\ cam'.look = set.look
    BY <2>1, <2>2, CameraIs
  <2>4. Scalars' /\ Records'
    <3>1. enc' \in Nat /\ widened' \in BOOLEAN
      BY <1>5, <2>1, <2>2 DEF Settings
    <3>2. Scalars'
      BY <1>1, <1>3, <1>5, <2>2, <3>1 DEF Scalars
    <3> QED BY <2>1, <2>2, <2>3, <3>2 DEF Records
  <2>5. CameraFollows' /\ RateFollows'
    BY <2>2, <2>3 DEF CameraFollows, RateFollows
  <2>6. ZoomSound'
    <3>1. ~widened' => Zoomable(Rois[conf])
      BY <1>1, <1>2, <1>5, UprightIsZoomable
    <3> QED BY <1>2, <2>1, <2>2, <2>3, <3>1 DEF ZoomSound
  <2> QED BY <2>4, <2>5, <2>6 DEF IInv
<1>6. CASE /\ owner' = "none" /\ st' = With(s, c)
           /\ UNCHANGED <<cam, enc, recorded, failed, widened>>
  <2>1. With(s, c) \in Settings
    <3> HIDE DEF s
    <3> QED BY <1>2, WithIs
  <2>2. Scalars' /\ Records'
    BY <1>1, <1>3, <1>6, <2>1 DEF IInv, Scalars, Records
  <2>3. ~Sound'
    BY <1>6 DEF Sound, Inited
  <2> QED BY <2>2, <2>3 DEF IInv, CameraFollows, RateFollows, ZoomSound
<1> QED BY <1>5, <1>6 DEF InitEncoder

LEMMA InitEncodeKeeps ==
  ASSUME IInv, NEW rate \in Nat, NEW asked \in Nat, NEW m \in Nat,
         InitEncode(rate, asked, m)
  PROVE  IInv'
<1> DEFINE fresh == NewQuality(Lesser(Fps(asked), 30), rate)
           q == InitialBestMatch(fresh, m)
<1>1. fresh \in Qualities
  BY FpsType DEF NewQuality, NoSize, Qualities, Params, Size
<1>2. q \in Qualities
  <2> HIDE DEF fresh
  <2> QED BY <1>1, InitialBestMatchType
<1>3. /\ InitEncoder(q.res, "session")
      /\ quality' \in {quality, q} /\ delay' = "cooling"
  BY DEF InitEncode
<1>4. q.res \in Params /\ quality' \in Qualities
  <2> HIDE DEF q
  <2> QED BY <1>2, <1>3 DEF Qualities, IInv, Scalars
<1> HIDE DEF q
<1> QED BY <1>3, <1>4, InitEncoderKeeps

LEMMA MotionStartKeeps == IInv /\ MotionStart => IInv'
<1> SUFFICES ASSUME IInv, MotionStart PROVE IInv'
  OBVIOUS
<1>1. MotionParams \in Params
  BY MotionAssumption DEF Params
<1>2. /\ delay' \in {"idle", "cooling", "delayed"} /\ quality' \in Qualities
      /\ InitEncoder(MotionParams, "motion")
  BY DEF MotionStart, IInv, Scalars
<1> QED BY <1>1, <1>2, InitEncoderKeeps

LEMMA ReleaseKeeps == IInv /\ Release => IInv'
<1> SUFFICES ASSUME IInv, Release PROVE IInv'
  OBVIOUS
<1>1. NewQuality(25, 300) \in Qualities
  BY DEF NewQuality, NoSize, Qualities, Params, Size
<1>2. Scalars'
  <2>1. enc' \in Nat /\ zooms' \in 0..MaxZooms
    BY MaxZoomsAssumption DEF Release
  <2>2. /\ owner' \in {"none", "session", "motion"} /\ quality' \in Qualities
        /\ recorded' \in BOOLEAN /\ widened' \in BOOLEAN /\ failed' \in BOOLEAN
    BY <1>1 DEF Release
  <2>3. UNCHANGED <<delay, dynamic, conf>>
    BY DEF Release
  <2> QED BY <2>1, <2>2, <2>3 DEF IInv, Scalars
<1>3. Records'
  BY DefaultsType DEF Release, IInv, Records
<1>4. ~Sound'
  BY DEF Release, Sound, Inited
<1> QED BY <1>2, <1>3, <1>4 DEF IInv, CameraFollows, RateFollows, ZoomSound

(* A rebuild that leaves what a zoom has made.                              *)
LEMMA PollKeeps == IInv /\ Poll => IInv'
<1> SUFFICES ASSUME IInv, Poll PROVE IInv'
  OBVIOUS
<1>1. UNCHANGED <<owner, dynamic, conf, quality, zooms, widened>>
  BY DEF Poll
<1>2. Scalars /\ Records /\ st \in Settings
  BY DEF IInv, Records
<1>3. CASE delay = "delayed" /\ delay' = "cooling" /\ Inited
           /\ \E ok \in BOOLEAN : Becomes(Rebuilt(Graph, Current(st), ok))
  <2>1. PICK ok \in BOOLEAN : Becomes(Rebuilt([Graph EXCEPT !.st = st], Current(st), ok))
    BY <1>3, GraphIsItself
  <2>2. Current(st) \in Params
    BY <1>2, CurrentType
  <2>3. /\ Records' /\ enc' \in Nat
        /\ recorded' \in BOOLEAN /\ failed' \in BOOLEAN
        /\ CameraFollows' /\ RateFollows'
        /\ Sound' => Sound /\ cam'.roi = st.roi /\ st'.roi = st.roi
    BY <1>1, <1>2, <1>3, <2>1, <2>2, RebuiltKeeps
  <2>4. Scalars'
    BY <1>1, <1>2, <1>3, <2>3 DEF Scalars
  <2>5. ZoomSound'
    BY <1>1, <2>3 DEF IInv, ZoomSound
  <2> QED BY <2>3, <2>4, <2>5 DEF IInv
<1>4. CASE /\ UNCHANGED graph /\ delay' \in {"idle", "cooling"}
           /\ delay = "cooling" \/ ~Inited
  <2>1. Scalars' /\ Records' /\ Sound' = Sound
    BY <1>1, <1>2, <1>4 DEF Scalars, Records, graph, Sound, Inited
  <2>2. CameraFollows' /\ RateFollows' /\ ZoomSound'
    BY <1>1, <1>4, <2>1
    DEF IInv, CameraFollows, RateFollows, ZoomSound, graph, Sound
  <2> QED BY <2>1, <2>2 DEF IInv
<1> QED BY <1>3, <1>4 DEF Poll

LEMMA ConfigureKeeps == IInv /\ Configure => IInv'
<1> SUFFICES ASSUME IInv, Configure PROVE IInv'
  OBVIOUS
<1>1. /\ conf' \in Looks
      /\ UNCHANGED <<owner, delay, dynamic, quality, st, cam, enc, recorded, failed,
                     zooms, widened>>
  BY DEF Configure, graph
<1> QED BY <1>1 DEF IInv, Scalars, Records, CameraFollows, RateFollows, ZoomSound,
                    Sound, Inited

(* The client's settings replace the zoom.                                  *)
LEMMA ApplyKeeps == IInv /\ Apply => IInv'
<1> SUFFICES ASSUME IInv, Apply PROVE IInv'
  OBVIOUS
<1> DEFINE s == ConfigParams(st)
<1>1. /\ owner = "session" /\ Inited
      /\ UNCHANGED <<owner, delay, dynamic, conf, quality, zooms>>
      /\ widened' = (widened \/ ~Upright(s.roi))
  BY DEF Apply, Inited
<1>2. Scalars /\ st \in Settings /\ conf \in Looks
  BY DEF IInv, Scalars, Records
<1>3. s \in Settings /\ s.roi = Rois[conf] /\ s.rate = st.rate
  BY <1>1, <1>2, ConfigParamsIs
<1>4. PICK ok \in BOOLEAN : Becomes(Rebuilt([Graph EXCEPT !.st = s], Current(s), ok))
  BY DEF Apply
<1> HIDE DEF s
<1>5. Current(s) \in Params
  BY <1>3, CurrentType
<1>6. /\ Records' /\ enc' \in Nat
      /\ recorded' \in BOOLEAN /\ failed' \in BOOLEAN
      /\ CameraFollows' /\ RateFollows'
      /\ Sound' => Sound /\ cam'.roi = s.roi /\ st'.roi = s.roi
  BY <1>1, <1>3, <1>4, <1>5, RebuiltKeeps
<1>7. widened' \in BOOLEAN /\ (~widened' => Upright(s.roi))
  BY <1>1
<1>8. Scalars'
  BY <1>1, <1>2, <1>6, <1>7 DEF Scalars
<1>9. ZoomSound'
  <2>1. ~widened' => Zoomable(s.roi)
    BY <1>2, <1>3, <1>7, UprightIsZoomable
  <2> QED BY <1>6, <2>1 DEF ZoomSound
<1> QED BY <1>6, <1>8, <1>9 DEF IInv

-----------------------------------------------------------------------------
(* Zooming *)

(* A tenth of the increment more or less.                                   *)
LEMMA Shares == \A c \in 0..10 : (Increment * c) \div 10 \in 0..Increment
BY DEF Increment

LEMMA ZoomInKeeps ==
  ASSUME NEW r \in Crops, NEW c \in Centres
  PROVE  /\ ZoomIn(r, c) \in Crops
         /\ Zoomable(r) => Zoomable(ZoomIn(r, c))
<1> DEFINE dx == (Increment * c.x) \div 10
           dy == (Increment * c.y) \div 10
<1>1. c.x \in 0..10 /\ c.y \in 0..10
  BY PointsAssumption
<1>2. /\ dx \in Int /\ 0 <= dx /\ dx <= Increment
      /\ dy \in Int /\ 0 <= dy /\ dy <= Increment
  <2>1. dx \in 0..Increment /\ dy \in 0..Increment
    BY <1>1, Shares
  <2> HIDE DEF dx, dy
  <2> QED BY <2>1 DEF Increment
<1>3. /\ r.x \in Int /\ r.y \in Int /\ r.w \in Int /\ r.h \in Int
      /\ r = [x |-> r.x, y |-> r.y, w |-> r.w, h |-> r.h]
  BY DEF Crops
<1>4. CASE r.w <= FullZoom + Increment
  <2> DEFINE z == [x |-> r.x, y |-> r.y, w |-> FullZoom, h |-> FullZoom]
  <2>1. ZoomIn(r, c) = z
    BY <1>3, <1>4 DEF ZoomIn
  <2>2. z \in Crops
    BY <1>3 DEF Crops, FullZoom
  <2>3. z.x = r.x /\ z.y = r.y /\ z.w = FullZoom /\ z.h = FullZoom
    OBVIOUS
  <2> HIDE DEF z
  <2>4. Zoomable(r) => Zoomable(z)
    BY <1>3, <2>2, <2>3 DEF Zoomable, FullZoom, Sensor
  <2> QED BY <2>1, <2>2, <2>4
<1>5. CASE ~(r.w <= FullZoom + Increment)
  <2> DEFINE z == [x |-> r.x + dx, y |-> r.y + dy, w |-> r.w - Increment,
                   h |-> r.h - Increment]
  <2>1. ZoomIn(r, c) = z
    BY <1>5 DEF ZoomIn
  <2> HIDE DEF dx, dy
  <2>2. z \in Crops
    BY <1>2, <1>3 DEF Crops, Increment
  <2>3. /\ z.x = r.x + dx /\ z.y = r.y + dy
        /\ z.w = r.w - Increment /\ z.h = r.h - Increment
    OBVIOUS
  <2> HIDE DEF z
  <2>4. ASSUME Zoomable(r) PROVE Zoomable(z)
    <3>1. /\ r.x >= 0 /\ r.y >= 0 /\ FullZoom <= r.w /\ r.w <= r.h
          /\ r.x + r.w <= Sensor /\ r.y + r.h <= Sensor
      BY <2>4 DEF Zoomable
    <3>2. z.x >= 0 /\ z.y >= 0
      BY <1>2, <1>3, <2>3, <3>1 DEF Increment
    <3>3. FullZoom <= z.w /\ z.w <= z.h
      BY <1>3, <1>5, <2>3, <3>1 DEF FullZoom, Increment
    <3>4. z.x + z.w <= Sensor /\ z.y + z.h <= Sensor
      BY <1>2, <1>3, <2>3, <3>1 DEF Increment, Sensor
    <3> QED BY <2>2, <3>2, <3>3, <3>4 DEF Zoomable
  <2> QED BY <2>1, <2>2, <2>4
<1> QED BY <1>4, <1>5

LEMMA ZoomOutType ==
  ASSUME NEW r \in Crops
  PROVE  ZoomOut(r) \in Crops
BY Quotients DEF ZoomOut, Back, Crops, Increment

LEMMA TenthsType ==
  ASSUME NEW n \in Int, NEW t \in Int
  PROVE  Tenths(n, t) \in Int
<1> DEFINE a == n * t
           b == n * (-t)
<1>1. a \in Int /\ b \in Int
  OBVIOUS
<1>2. a \div 10 \in Int /\ b \div 10 \in Int
  <2> HIDE DEF a, b
  <2> QED BY <1>1, Quotients
<1>3. -(b \div 10) \in Int
  <2> HIDE DEF b
  <2> QED BY <1>2
<1> QED BY <1>2, <1>3 DEF Tenths

LEMMA ZoomMoveType ==
  ASSUME NEW r \in Crops, NEW c \in Drags
  PROVE  ZoomMove(r, c) \in Crops
<1>1. c.x \in Int /\ c.y \in Int
  BY PointsAssumption
<1>2. r.x \in Int /\ r.y \in Int /\ r.w \in Int /\ r.h \in Int
  BY DEF Crops
<1>3. ASSUME NEW a \in Int, NEW len \in Int, NEW d \in Int, NEW max
      PROVE  Moved(a, len, d, max) \in Int
  BY DEF Moved, Sensor
<1> DEFINE mx == Moved(r.x, r.w, Tenths(r.w, c.x), MaxWidth)
           my == Moved(r.y, r.h, Tenths(r.h, c.y), MaxHeight)
<1>4. mx \in Int /\ my \in Int
  BY <1>1, <1>2, <1>3, TenthsType
<1>5. ZoomMove(r, c) = [r EXCEPT !.x = mx, !.y = my]
  BY DEF ZoomMove
<1> HIDE DEF mx, my
<1> QED BY <1>4, <1>5 DEF Crops

(* A zoom that the camera takes or refuses.                                 *)
LEMMA ZoomKeeps ==
  ASSUME IInv, NEW roi \in Crops, NEW wide \in BOOLEAN, Zoom(roi, wide),
         ~wide => (Zoomable(cam.roi) => Zoomable(roi))
  PROVE  IInv'
<1>1. /\ Inited /\ zooms' = zooms + 1 /\ zooms < MaxZooms
      /\ UNCHANGED <<owner, delay, dynamic, conf, quality, enc, recorded, failed>>
  BY DEF Zoom
<1>2. Scalars /\ Records /\ st \in Settings /\ cam \in Cameras
  BY DEF IInv, Records
<1>3. Sound' = Sound
  BY <1>1 DEF Sound, Inited
<1>4. zooms' \in 0..MaxZooms
  BY <1>1, <1>2, MaxZoomsAssumption DEF Scalars
<1>5. CASE /\ cam' = [cam EXCEPT !.roi = roi] /\ st' = [st EXCEPT !.roi = roi]
           /\ widened' = (widened \/ wide)
  <2>1. /\ st' \in Settings /\ st'.roi = roi /\ st'.size = st.size
        /\ st'.fps = st.fps /\ st'.rate = st.rate /\ st'.look = st.look
    BY <1>2, <1>5 DEF Settings
  <2>2. /\ cam' \in Cameras /\ cam'.roi = roi /\ cam'.size = cam.size
        /\ cam'.fps = cam.fps /\ cam'.look = cam.look
    BY <1>2, <1>5 DEF Cameras
  <2>3. widened' \in BOOLEAN /\ (~widened' => ~widened /\ ~wide)
    BY <1>5
  <2>4. Scalars' /\ Records'
    BY <1>1, <1>2, <1>4, <2>1, <2>2, <2>3 DEF Scalars, Records
  <2>5. CameraFollows' /\ RateFollows'
    BY <1>1, <1>3, <2>1, <2>2 DEF IInv, CameraFollows, RateFollows
  <2>6. ZoomSound'
    BY <1>3, <2>1, <2>2, <2>3 DEF IInv, ZoomSound
  <2> QED BY <2>4, <2>5, <2>6 DEF IInv
<1>6. CASE UNCHANGED <<cam, st, widened>>
  <2>1. Scalars' /\ Records'
    BY <1>1, <1>2, <1>4, <1>6 DEF Scalars, Records
  <2>2. CameraFollows' /\ RateFollows' /\ ZoomSound'
    BY <1>1, <1>3, <1>6 DEF IInv, CameraFollows, RateFollows, ZoomSound
  <2> QED BY <2>1, <2>2 DEF IInv
<1> QED BY <1>5, <1>6 DEF Zoom

LEMMA ZoomCommandKeeps == IInv /\ ZoomCommand => IInv'
<1> SUFFICES ASSUME IInv, ZoomCommand PROVE IInv'
  OBVIOUS
<1>1. cam.roi \in Crops
  BY DEF IInv, Records, Cameras
<1>2. ASSUME NEW c \in Centres, Zoom(ZoomIn(cam.roi, c), FALSE) PROVE IInv'
  BY <1>1, <1>2, ZoomInKeeps, ZoomKeeps
<1>3. CASE Zoom(ZoomOut(cam.roi), TRUE)
  BY <1>1, <1>3, ZoomOutType, ZoomKeeps
<1>4. ASSUME NEW c \in Drags, Zoom(ZoomMove(cam.roi, c), TRUE) PROVE IInv'
  BY <1>1, <1>4, ZoomMoveType, ZoomKeeps
<1>5. CASE Zoom(ZoomReset, FALSE)
  <2>1. ZoomReset \in Crops /\ Zoomable(ZoomReset)
    BY DEF ZoomReset, Crops, Zoomable, MaxWidth, MaxHeight, FullZoom, Sensor
  <2> QED BY <1>5, <2>1, ZoomKeeps
<1> QED BY <1>2, <1>3, <1>4, <1>5 DEF ZoomCommand

-----------------------------------------------------------------------------
(* The theorems *)

LEMMA InitIInv == Init => IInv
<1> SUFFICES ASSUME Init PROVE IInv
  OBVIOUS
<1>1. NewQuality(25, 300) \in Qualities
  BY DEF NewQuality, NoSize, Qualities, Params, Size
<1>2. Records
  BY DefaultsType DEF Init, Records
<1>3. zooms \in 0..MaxZooms /\ enc \in Nat
  BY MaxZoomsAssumption DEF Init
<1>4. Scalars
  BY <1>1, <1>3 DEF Init, Scalars
<1>5. ~Sound
  BY DEF Init, Sound, Inited
<1> QED BY <1>2, <1>4, <1>5 DEF IInv, CameraFollows, RateFollows, ZoomSound

LEMMA NextIInv == IInv /\ [Next]_vars => IInv'
<1> SUFFICES ASSUME IInv, [Next]_vars PROVE IInv'
  OBVIOUS
<1>1. Rates \subseteq Nat /\ FrameRates \subseteq Nat /\ Factors \subseteq Nat
  BY RatesAssumption
<1>2. ASSUME NEW rate \in Rates, NEW fps \in FrameRates, NEW m \in Factors,
             InitEncode(rate, fps, m) \/ SetRates(rate, fps, m)
      PROVE  IInv'
  BY <1>1, <1>2, InitEncodeKeeps, SetRatesKeeps
<1>3. CASE MotionStart
  BY <1>3, MotionStartKeeps
<1>4. CASE Release
  BY <1>4, ReleaseKeeps
<1>5. CASE Poll
  BY <1>5, PollKeeps
<1>6. CASE Configure
  BY <1>6, ConfigureKeeps
<1>7. CASE Apply
  BY <1>7, ApplyKeeps
<1>8. CASE ZoomCommand
  BY <1>8, ZoomCommandKeeps
<1>9. CASE UNCHANGED vars
  BY <1>9 DEF vars, IInv, Scalars, Records, CameraFollows, RateFollows, ZoomSound,
              Sound, Inited
<1> QED BY <1>2, <1>3, <1>4, <1>5, <1>6, <1>7, <1>8, <1>9 DEF Next

LEMMA Invariance == Spec => []IInv
BY InitIInv, NextIInv, PTL DEF Spec

(* The chosen size is one of the list at any bit rate, so that every        *)
(* variable keeps its type (raspi_quality_config.cc:124-178).               *)
THEOREM SettingsTypeCorrect == Spec => []TypeOK
<1>1. IInv => TypeOK
  BY TypeFromParts DEF IInv
<1> QED BY <1>1, Invariance, PTL

(* Whatever is rebuilt, delayed, applied or zoomed in which order: the      *)
(* camera has the size, rate and settings of state_, or a change is delayed *)
(* (mmal_wrapper.cc:129-157, 440-587), and the encoder its bit rate, unless *)
(* a rebuild recorded one (mmal_wrapper.cc:774-813).                        *)
THEOREM RecordIsTrue == Spec => []RecordHolds
<1>1. IInv => RecordHolds
  BY DEF IInv, RecordHolds
<1> QED BY <1>1, Invariance, PTL

(* Any number of zooms in and resets, at any centres and mixed with         *)
(* rebuilds and applied settings, keep the shown region recorded and on the *)
(* sensor (raspicamcontrol.c:880-976).                                      *)
THEOREM ZoomStaysOnSensor == Spec => []ZoomAgrees
<1>1. IInv => ZoomAgrees
  <2> SUFFICES ASSUME IInv, Sound, ~widened PROVE Inside(cam.roi)
    BY DEF IInv, ZoomSound, ZoomAgrees
  <2>1. Zoomable(cam.roi)
    BY DEF IInv, ZoomSound
  <2> QED BY <2>1 DEF Zoomable, Inside, Crops, FullZoom
<1> QED BY <1>1, Invariance, PTL

-----------------------------------------------------------------------------
(* MotionBlobs: what the recursive functions compute.  That there is one at *)
(* all is shown by the least point at which there is none.                  *)

(* The search from a point, step by step.                                   *)
Found(f, source, n) ==
  f[n - 1] \cup (source \cap UNION {Neighbours(d) : d \in f[n - 1]})

Searches(f, c, source, N) ==
  f = [n \in 0..N |-> IF n = 0 THEN {c}
                      ELSE LET found == f[n - 1]
                           IN  found \cup (source \cap UNION {Neighbours(d) : d \in found})]

Search(c, source) == CHOOSE f : Searches(f, c, source, Cardinality(source))

LEMMA ConnectedIs ==
  ASSUME NEW c, NEW source
  PROVE  Connected(c, source) = Search(c, source)[Cardinality(source)]
BY DEF Connected, Search, Searches

LEMMA SearchExists ==
  ASSUME NEW c, NEW source, NEW N \in Nat
  PROVE  \E f : Searches(f, c, source, N)
<1> DEFINE T == {m \in Nat : ~\E f : Searches(f, c, source, m)}
<1> SUFFICES ASSUME T # {} PROVE FALSE
  OBVIOUS
<1>1. PICK m \in T : \A k \in T : m <= k
  <2>1. T \subseteq Nat
    OBVIOUS
  <2> HIDE DEF T
  <2> QED BY <2>1, NatMin
<1>2. m # 0
  <2> SUFFICES ASSUME m = 0 PROVE \E f : Searches(f, c, source, 0)
    OBVIOUS
  <2> DEFINE f == [n \in 0..0 |-> {c}]
  <2>1. Searches(f, c, source, 0)
    BY DEF Searches
  <2> QED BY <2>1
<1>3. m - 1 \in Nat /\ m - 1 \notin T
  BY <1>1, <1>2
<1>4. PICK g : Searches(g, c, source, m - 1)
  BY <1>3
<1> DEFINE h == [n \in 0..m |-> IF n = m THEN Found(g, source, m) ELSE g[n]]
<1>5. \A n \in 0..(m - 1) : g[n] = IF n = 0 THEN {c} ELSE Found(g, source, n)
  BY <1>4 DEF Searches, Found
<1>6. ASSUME NEW n \in 0..m PROVE h[n] = IF n = 0 THEN {c} ELSE Found(h, source, n)
  <2>1. CASE n = 0
    BY <1>2, <1>5, <2>1
  <2>2. CASE n # 0
    <3>1. h[n - 1] = g[n - 1]
      BY <1>2, <2>2
    <3>2. h[n] = Found(g, source, n)
      BY <1>5, <2>2
    <3> HIDE DEF h
    <3> QED BY <2>2, <3>1, <3>2 DEF Found
  <2> QED BY <2>1, <2>2
<1>7. Searches(h, c, source, m)
  <2>1. h = [n \in 0..m |-> h[n]]
    OBVIOUS
  <2> HIDE DEF h
  <2> QED BY <1>6, <2>1 DEF Searches, Found
<1> QED BY <1>1, <1>7

LEMMA SearchIs ==
  ASSUME NEW c, NEW source, IsFiniteSet(source), NEW f, f = Search(c, source)
  PROVE  /\ f[0] = {c}
         /\ \A n \in 1..Cardinality(source) : f[n] = Found(f, source, n)
<1>1. Cardinality(source) \in Nat
  BY FS_CardinalityType
<1>2. Searches(f, c, source, Cardinality(source))
  BY <1>1, SearchExists DEF Search
<1> QED BY <1>1, <1>2 DEF Searches, Found

(* What the search takes is a part of the points that is closed under       *)
(* neighbourhood: until it is, each step finds one more.                    *)
LEMMA ConnectedClosed ==
  ASSUME NEW source, IsFiniteSet(source), NEW c \in source, NEW blob, blob = Connected(c, source)
  PROVE  /\ c \in blob /\ blob \subseteq source
         /\ \A d \in blob : source \cap Neighbours(d) \subseteq blob
<1> DEFINE N == Cardinality(source)
<1>1. N \in Nat
  BY FS_CardinalityType
<1>2. PICK f : f = Search(c, source)
  OBVIOUS
<1>3. f[0] = {c} /\ \A n \in 1..N : f[n] = Found(f, source, n)
  BY <1>2, SearchIs
<1>4. blob = f[N]
  BY <1>2, ConnectedIs
<1> DEFINE Closed(S) == \A d \in S : source \cap Neighbours(d) \subseteq S
           Good(n) == /\ c \in f[n] /\ f[n] \subseteq source
                      /\ Closed(f[n]) \/ Cardinality(f[n]) >= n + 1
           T == {n \in 0..N : ~Good(n)}
<1>5. T = {}
  <2> SUFFICES ASSUME T # {} PROVE FALSE
    OBVIOUS
  <2>1. PICK m \in T : \A k \in T : m <= k
    <3>1. T \subseteq Nat
      OBVIOUS
    <3> HIDE DEF T
    <3> QED BY <3>1, NatMin
  <2>2. m # 0
    <3>1. f[0] = {c}
      BY <1>3
    <3>2. Cardinality(f[0]) = 1
      BY <3>1, FS_Singleton, Zenon
    <3>3. Good(0)
      BY <3>1, <3>2
    <3> QED BY <2>1, <3>3
  <2>3. m - 1 \in 0..N /\ Good(m - 1)
    BY <1>1, <2>1, <2>2
  <2>4. f[m] = f[m - 1] \cup (source \cap UNION {Neighbours(d) : d \in f[m - 1]})
    BY <1>1, <1>3, <2>1, <2>2 DEF Found
  <2>5. c \in f[m] /\ f[m] \subseteq source
    BY <2>3, <2>4
  <2>6. CASE Closed(f[m - 1])
    <3>1. f[m] = f[m - 1]
      BY <2>4, <2>6
    <3> QED BY <2>1, <2>5, <2>6, <3>1
  <2>7. CASE ~Closed(f[m - 1])
    <3>1. PICK e \in f[m] : e \notin f[m - 1]
      BY <2>4, <2>7
    <3>2. IsFiniteSet(f[m]) /\ IsFiniteSet(f[m - 1])
      BY <2>3, <2>5, FS_Subset
    <3>3. f[m - 1] \cup {e} \subseteq f[m]
      BY <2>4, <3>1
    <3>4. Cardinality(f[m - 1] \cup {e}) = Cardinality(f[m - 1]) + 1
      BY <3>1, <3>2, FS_AddElement
    <3>5. Cardinality(f[m - 1] \cup {e}) <= Cardinality(f[m])
      BY <3>2, <3>3, FS_Subset
    <3>6. Cardinality(f[m - 1]) \in Nat /\ Cardinality(f[m]) \in Nat
      BY <3>2, FS_CardinalityType
    <3>7. Cardinality(f[m - 1]) >= m
      BY <2>1, <2>2, <2>3, <2>7
    <3>8. Cardinality(f[m]) >= m + 1
      BY <2>1, <3>4, <3>5, <3>6, <3>7
    <3> QED BY <2>1, <2>5, <3>8
  <2> QED BY <2>6, <2>7
<1>6. Good(N)
  BY <1>1, <1>5
<1>7. ~(Cardinality(f[N]) >= N + 1)
  <2>1. Cardinality(f[N]) <= N /\ Cardinality(f[N]) \in Nat
    BY <1>6, FS_Subset, FS_CardinalityType
  <2> QED BY <1>1, <2>1
<1> QED BY <1>4, <1>6, <1>7

(* And it is connected: what is closed and has the point it was searched    *)
(* from is all of it.                                                       *)
Spans(c, B) ==
  \A S \in SUBSET B : c \in S /\ (\A d \in S : B \cap Neighbours(d) \subseteq S) => S = B

LEMMA ConnectedSpans ==
  ASSUME NEW source, IsFiniteSet(source), NEW c \in source, NEW blob, blob = Connected(c, source)
  PROVE  Spans(c, blob)
<1> DEFINE N == Cardinality(source)
<1>1. N \in Nat
  BY FS_CardinalityType
<1>2. PICK f : f = Search(c, source)
  OBVIOUS
<1>3. f[0] = {c} /\ \A n \in 1..N : f[n] = Found(f, source, n)
  BY <1>2, SearchIs
<1>4. blob = f[N]
  BY <1>2, ConnectedIs
<1>5. \A d \in blob : source \cap Neighbours(d) \subseteq blob
  BY ConnectedClosed
<1> SUFFICES ASSUME NEW S \in SUBSET blob, c \in S,
                    \A d \in S : blob \cap Neighbours(d) \subseteq S
             PROVE  blob \subseteq S
  BY DEF Spans
<1> DEFINE T == {n \in 0..N : ~(f[n] \subseteq S)}
<1>6. T = {}
  <2> SUFFICES ASSUME T # {} PROVE FALSE
    OBVIOUS
  <2>1. PICK m \in T : \A k \in T : m <= k
    <3>1. T \subseteq Nat
      OBVIOUS
    <3> HIDE DEF T
    <3> QED BY <3>1, NatMin
  <2>2. m # 0
    BY <1>3, <2>1
  <2>3. f[m - 1] \subseteq S /\ m \in 1..N
    BY <1>1, <2>1, <2>2
  <2>4. f[m] = f[m - 1] \cup (source \cap UNION {Neighbours(d) : d \in f[m - 1]})
    BY <1>3, <2>3 DEF Found
  <2>5. f[m] \subseteq S
    BY <1>5, <2>3, <2>4
  <2> QED BY <2>1, <2>5
<1> QED BY <1>1, <1>4, <1>6

LEMMA GridType == Width \in Nat \ {0} /\ Height \in Nat \ {0} /\ Last \in Int /\ Cells \subseteq Nat
BY GridAssumption DEF Last, Cells

(* Division with remainder, for any divisor.                                *)
LEMMA Remainder ==
  ASSUME NEW w \in Nat \ {0}, NEW c \in Nat
  PROVE  /\ c \div w \in Nat /\ c % w \in 0..(w - 1)
         /\ c = w * (c \div w) + (c % w)
OBVIOUS

LEMMA RemainderUnique ==
  ASSUME NEW w \in Nat \ {0}, NEW q \in Int, NEW p \in Int,
         NEW r \in 0..(w - 1), NEW s \in 0..(w - 1), w * q + r = w * p + s
  PROVE  r = s
<1>1. CASE q >= p + 1
  <2>1. w * (q - p) >= w
    BY <1>1
  <2>2. w * q - w * p >= w
    BY <2>1
  <2> QED BY <2>2
<1>2. CASE p >= q + 1
  <2>1. w * (p - q) >= w
    BY <1>2
  <2>2. w * p - w * q >= w
    BY <2>1
  <2> QED BY <2>2
<1>3. CASE q = p
  BY <1>3
<1> QED BY <1>1, <1>2, <1>3

LEMMA QuotientUnique ==
  ASSUME NEW w \in Nat \ {0}, NEW q \in Nat, NEW p \in Nat, w * q = w * p
  PROVE  q = p
<1>1. CASE q >= p + 1
  <2>1. w * (q - p) >= w
    BY <1>1
  <2>2. w * q - w * p >= w
    BY <2>1
  <2> QED BY <2>2
<1>2. CASE p >= q + 1
  <2>1. w * (p - q) >= w
    BY <1>2
  <2>2. w * p - w * q >= w
    BY <2>1
  <2> QED BY <2>2
<1> QED BY <1>1, <1>2

LEMMA SameQuotient ==
  ASSUME NEW w \in Nat \ {0}, NEW c \in Nat, NEW d \in Nat, d - c = (d % w) - (c % w)
  PROVE  c \div w = d \div w
<1>1. /\ c \div w \in Nat /\ c % w \in 0..(w - 1)
      /\ d \div w \in Nat /\ d % w \in 0..(w - 1)
      /\ c = w * (c \div w) + (c % w) /\ d = w * (d \div w) + (d % w)
  BY Remainder
<1>2. PICK q, p : q = c \div w /\ p = d \div w
  OBVIOUS
<1>3. PICK r, t : r = c % w /\ t = d % w
  OBVIOUS
<1>4. q \in Nat /\ p \in Nat /\ r \in Nat /\ t \in Nat /\ d - c = t - r
  BY <1>1, <1>2, <1>3
<1>5. PICK x, y : x = w * q /\ y = w * p
  OBVIOUS
<1>6. x \in Nat /\ y \in Nat
  BY <1>4, <1>5
<1>7. c = x + r /\ d = y + t
  BY <1>1, <1>2, <1>3, <1>5
<1>8. x = y
  BY <1>4, <1>6, <1>7
<1>9. q = p
  BY <1>4, <1>5, <1>8, QuotientUnique
<1> QED BY <1>2, <1>9

LEMMA NextInRow ==
  ASSUME NEW w \in Nat \ {0}, NEW c \in Nat
  PROVE  /\ (c % w) + 1 < w => (c + 1) % w = (c % w) + 1
         /\ c % w >= 1 => c >= 1 /\ (c - 1) % w = (c % w) - 1
<1>1. /\ c \div w \in Nat /\ c % w \in 0..(w - 1)
      /\ c = w * (c \div w) + (c % w)
  BY Remainder
<1>2. ASSUME (c % w) + 1 < w PROVE (c + 1) % w = (c % w) + 1
  <2>1. /\ (c + 1) \div w \in Nat /\ (c + 1) % w \in 0..(w - 1)
        /\ c + 1 = w * ((c + 1) \div w) + ((c + 1) % w)
    <3>1. c + 1 \in Nat
      OBVIOUS
    <3> QED BY <3>1, Remainder
  <2>2. c + 1 = w * (c \div w) + ((c % w) + 1) /\ (c % w) + 1 \in 0..(w - 1)
    BY <1>1, <1>2
  <2>3. w * ((c + 1) \div w) + ((c + 1) % w) = w * (c \div w) + ((c % w) + 1)
    BY <2>1, <2>2
  <2>4. c \div w \in Int /\ (c + 1) \div w \in Int
    BY <1>1, <2>1
  <2> HIDE <1>1, <1>2
  <2> QED BY <2>1, <2>2, <2>3, <2>4, RemainderUnique
<1>3. ASSUME c % w >= 1 PROVE c >= 1 /\ (c - 1) % w = (c % w) - 1
  <2>0. w * (c \div w) >= 0
    BY <1>1
  <2>1. c >= 1 /\ c - 1 \in Nat
    BY <1>1, <1>3, <2>0
  <2>2. /\ (c - 1) \div w \in Nat /\ (c - 1) % w \in 0..(w - 1)
        /\ c - 1 = w * ((c - 1) \div w) + ((c - 1) % w)
    BY <2>1, Remainder
  <2>3. c - 1 = w * (c \div w) + ((c % w) - 1) /\ (c % w) - 1 \in 0..(w - 1)
    BY <1>1, <1>3
  <2>4. w * ((c - 1) \div w) + ((c - 1) % w) = w * (c \div w) + ((c % w) - 1)
    BY <2>2, <2>3
  <2>5. c \div w \in Int /\ (c - 1) \div w \in Int
    BY <1>1, <2>2
  <2> QED BY <2>1, <2>2, <2>3, <2>4, <2>5, RemainderUnique
<1> QED BY <1>2, <1>3

LEMMA NeighboursMutual ==
  ASSUME NEW c \in Cells, NEW d \in Neighbours(c) \cap Cells
  PROVE  c \in Neighbours(d)
<1>1. /\ c \in 0..Last /\ d \in 0..Last /\ Last \in Int
      /\ Width \in Nat \ {0} /\ c \in Nat
  BY GridType DEF Cells
<1>2. CASE (c % Width) + 1 < Width /\ d = c + 1
  <2>1. (c + 1) % Width = (c % Width) + 1 /\ c % Width \in Nat
    <3>1. (c % Width) + 1 < Width => (c + 1) % Width = (c % Width) + 1
      BY <1>1, NextInRow
    <3>2. c % Width \in Nat
      BY <1>1
    <3> QED BY <1>2, <3>1, <3>2
  <2>2. d % Width >= 1 /\ c = d - 1
    BY <1>1, <1>2, <2>1
  <2> QED BY <2>2 DEF Neighbours
<1>3. CASE c + Width <= Last /\ d = c + Width
  <2>1. d >= Width /\ c = d - Width
    BY <1>1, <1>3
  <2> QED BY <2>1 DEF Neighbours
<1>4. CASE c % Width >= 1 /\ d = c - 1
  <2>1. (c - 1) % Width = (c % Width) - 1 /\ c % Width \in 0..(Width - 1)
    <3>1. c % Width >= 1 => (c - 1) % Width = (c % Width) - 1
      BY <1>1, NextInRow
    <3>2. c % Width \in 0..(Width - 1)
      BY <1>1
    <3> QED BY <1>4, <3>1, <3>2
  <2>2. (d % Width) + 1 < Width /\ c = d + 1
    BY <1>1, <1>4, <2>1
  <2> QED BY <2>2 DEF Neighbours
<1>5. CASE c >= Width /\ d = c - Width
  <2>1. d + Width <= Last /\ c = d + Width
    BY <1>1, <1>5
  <2> QED BY <2>1 DEF Neighbours
<1> QED BY <1>2, <1>3, <1>4, <1>5 DEF Neighbours

(* The scan, point by point.                                                *)
Scans(f, s, N) == f = [n \in 0..N |-> IF n = 0 THEN s ELSE Scanned(f[n - 1], n - 1)]

Scan(s, N) == CHOOSE f : Scans(f, s, N)

Unscanned(moving) ==
  [source |-> moving, used |-> used, count |-> count, active |-> <<>>,
   extracted |-> [c \in Cells |-> NotUsed]]

LEMMA DetectedIs ==
  ASSUME NEW moving
  PROVE  Detected(moving) = Scan(Unscanned(moving), Last + 1)[Last + 1]
BY DEF Detected, Scan, Scans, Unscanned

LEMMA ScanExists ==
  ASSUME NEW s, NEW N \in Nat
  PROVE  \E f : Scans(f, s, N)
<1> DEFINE T == {m \in Nat : ~\E f : Scans(f, s, m)}
<1> SUFFICES ASSUME T # {} PROVE FALSE
  OBVIOUS
<1>1. PICK m \in T : \A k \in T : m <= k
  <2>1. T \subseteq Nat
    OBVIOUS
  <2> HIDE DEF T
  <2> QED BY <2>1, NatMin
<1>2. m # 0
  <2> SUFFICES ASSUME m = 0 PROVE \E f : Scans(f, s, 0)
    OBVIOUS
  <2> DEFINE f == [n \in 0..0 |-> s]
  <2>1. Scans(f, s, 0)
    BY DEF Scans
  <2> QED BY <2>1
<1>3. m - 1 \in Nat /\ m - 1 \notin T
  BY <1>1, <1>2
<1>4. PICK g : Scans(g, s, m - 1)
  BY <1>3
<1> DEFINE h == [n \in 0..m |-> IF n = m THEN Scanned(g[m - 1], m - 1) ELSE g[n]]
<1>5. \A n \in 0..(m - 1) : g[n] = IF n = 0 THEN s ELSE Scanned(g[n - 1], n - 1)
  BY <1>4 DEF Scans
<1>6. ASSUME NEW n \in 0..m PROVE h[n] = IF n = 0 THEN s ELSE Scanned(h[n - 1], n - 1)
  <2>1. CASE n = 0
    BY <1>2, <1>5, <2>1
  <2>2. CASE n # 0
    <3>1. h[n - 1] = g[n - 1]
      BY <1>2, <2>2
    <3>2. h[n] = Scanned(g[n - 1], n - 1)
      BY <1>5, <2>2
    <3> HIDE DEF h
    <3> QED BY <2>2, <3>1, <3>2
  <2> QED BY <2>1, <2>2
<1>7. Scans(h, s, m)
  <2>1. h = [n \in 0..m |-> h[n]]
    OBVIOUS
  <2> HIDE DEF h
  <2> QED BY <1>6, <2>1 DEF Scans
<1> QED BY <1>1, <1>7

(* What holds throughout a scan that began with the ids in start used and   *)
(* their counters in counts: the ids taken since are those of the blobs     *)
(* found, and the points around a blob are neither left in the source nor   *)
(* in another blob.                                                         *)
NamesIn(list) == {list[n] : n \in DOMAIN list}
Named(s) == NamesIn(s.active)
BlobOf(s, i) == {c \in Cells : s.extracted[c] = i}

Fields(s) ==
  s = [source |-> s.source, used |-> s.used, count |-> s.count, active |-> s.active,
       extracted |-> s.extracted]

Labelled(s, start) ==
  /\ s.active \in Seq(Ids) /\ IsFiniteSet(Named(s)) /\ Len(s.active) = Cardinality(Named(s))
  /\ s.used = start \cup Named(s) /\ Named(s) \cap start = {}
  /\ \A i \in Named(s) : BlobOf(s, i) # {} /\ Cardinality(BlobOf(s, i)) >= CancelSize

Separate(s) ==
  /\ \A d \in Cells : s.extracted[d] # NotUsed => s.extracted[d] \in Named(s) /\ d \notin s.source
  /\ \A c, d \in Cells :
       d \in Neighbours(c) /\ s.extracted[c] # NotUsed =>
         d \notin s.source /\ s.extracted[d] \in {s.extracted[c], NotUsed}

Joined(s) ==
  \A i \in Named(s) : s.count[i] = 1 /\ \E c \in BlobOf(s, i) : Spans(c, BlobOf(s, i))

Counted(s, start, counts) ==
  /\ s.count \in [Ids -> 0..MaxUpdates]
  /\ \A i \in start : s.count[i] = counts[i]

Scanning(s, start, counts) ==
  /\ Fields(s)
  /\ s.source \subseteq Cells
  /\ s.extracted \in [Cells -> {NotUsed} \cup Ids]
  /\ Labelled(s, start) /\ Separate(s) /\ Joined(s) /\ Counted(s, start, counts)

LEMMA IdsType == Ids \subseteq Nat /\ NotUsed \notin Ids /\ IsFiniteSet(Cells)
<1>1. MaxId \in Nat
  BY ThresholdAssumption
<1> QED BY <1>1, GridType, FS_Interval DEF Ids, NotUsed, Cells

LEMMA MinIn ==
  ASSUME NEW S, S \subseteq Nat, S # {}
  PROVE  Min(S) \in S
BY NatMin DEF Min

LEMMA AppendNames ==
  ASSUME NEW a \in Seq(Ids), NEW id
  PROVE  NamesIn(Append(a, id)) = NamesIn(a) \cup {id}
<1>1. DOMAIN a = 1..Len(a) /\ Len(a) \in Nat
  OBVIOUS
<1>2. DOMAIN Append(a, id) = 1..(Len(a) + 1)
  OBVIOUS
<1>3. \A n \in 1..Len(a) : Append(a, id)[n] = a[n]
  OBVIOUS
<1>4. Append(a, id)[Len(a) + 1] = id
  OBVIOUS
<1> QED BY <1>1, <1>2, <1>3, <1>4 DEF NamesIn

(* The three outcomes at a point: nothing, a blob that is too small, and    *)
(* one that is labelled.                                                    *)
Cancelled(s, id, blob) ==
  [source |-> s.source \ blob, used |-> s.used, count |-> [s.count EXCEPT ![id] = 0],
   active |-> s.active, extracted |-> s.extracted]

WithBlob(s, id, blob) ==
  [source |-> s.source \ blob, used |-> s.used \cup {id},
   count |-> [s.count EXCEPT ![id] = 1], active |-> Append(s.active, id),
   extracted |-> [d \in Cells |-> IF d \in blob THEN id ELSE s.extracted[d]]]

LEMMA ScannedIs ==
  ASSUME NEW s, Fields(s), NEW c, NEW t, t = Scanned(s, c),
         NEW id, id = Min(Ids \ s.used), NEW blob, blob = Connected(c, s.source)
  PROVE  \/ t = s
         \/ c \in s.source /\ Ids \ s.used # {} /\ t = Cancelled(s, id, blob)
         \/ /\ c \in s.source /\ Ids \ s.used # {} /\ ~(Cardinality(blob) < CancelSize)
            /\ t = WithBlob(s, id, blob)
<1>1. CASE c \notin s.source \/ Ids \ s.used = {}
  BY <1>1, Zenon DEF Scanned
<1>2. CASE ~(c \notin s.source \/ Ids \ s.used = {}) /\ Cardinality(blob) < CancelSize
  <2>1. t = [s EXCEPT !.source = @ \ blob, !.count[id] = 0]
    BY <1>2, Zenon DEF Scanned
  <2> DEFINE p == s.source
             u == s.used
             n == s.count
             a == s.active
             e == s.extracted
             p1 == p \ blob
             n1 == [n EXCEPT ![id] = 0]
  <2>2. s = [source |-> p, used |-> u, count |-> n, active |-> a, extracted |-> e]
    BY Zenon DEF Fields
  <2>3. t = [[s EXCEPT !.source = p1] EXCEPT !.count = n1]
    BY <2>1, <2>2
  <2> HIDE DEF p, u, n, a, e, p1, n1
  <2>4. [s EXCEPT !.source = p1] =
          [source |-> p1, used |-> u, count |-> n, active |-> a, extracted |-> e]
    BY <2>2
  <2>5. t = [source |-> p1, used |-> u, count |-> n1, active |-> a, extracted |-> e]
    BY <2>3, <2>4
  <2> QED BY <1>2, <2>5 DEF Cancelled, p, u, n, a, e, p1, n1
<1>3. CASE ~(c \notin s.source \/ Ids \ s.used = {}) /\ ~(Cardinality(blob) < CancelSize)
  <2>1. t = [s EXCEPT !.source = @ \ blob, !.used = @ \cup {id}, !.count[id] = 1,
                      !.active = Append(@, id),
                      !.extracted = [d \in Cells |-> IF d \in blob THEN id ELSE @[d]]]
    BY <1>3, Zenon DEF Scanned
  <2> DEFINE p == s.source
             u == s.used
             n == s.count
             a == s.active
             e == s.extracted
             p1 == p \ blob
             u1 == u \cup {id}
             n1 == [n EXCEPT ![id] = 1]
             a1 == Append(a, id)
             e1 == [d \in Cells |-> IF d \in blob THEN id ELSE e[d]]
             s1 == [source |-> p1, used |-> u, count |-> n, active |-> a, extracted |-> e]
             s2 == [source |-> p1, used |-> u1, count |-> n, active |-> a, extracted |-> e]
             s3 == [source |-> p1, used |-> u1, count |-> n1, active |-> a, extracted |-> e]
             s4 == [source |-> p1, used |-> u1, count |-> n1, active |-> a1, extracted |-> e]
             s5 == [source |-> p1, used |-> u1, count |-> n1, active |-> a1, extracted |-> e1]
  <2>2. s = [source |-> p, used |-> u, count |-> n, active |-> a, extracted |-> e]
    BY Zenon DEF Fields
  <2>3. t = [s EXCEPT !.source = p1, !.used = u1, !.count = n1, !.active = a1,
                      !.extracted = e1]
    BY <2>1, <2>2
  <2> HIDE DEF p, u, n, a, e, p1, u1, n1, a1, e1
  <2>4. [s EXCEPT !.source = p1] = s1
    BY <2>2
  <2>5. [s1 EXCEPT !.used = u1] = s2
    OBVIOUS
  <2>6. [s2 EXCEPT !.count = n1] = s3
    OBVIOUS
  <2>7. [s3 EXCEPT !.active = a1] = s4
    OBVIOUS
  <2>8. [s4 EXCEPT !.extracted = e1] = s5
    OBVIOUS
  <2>9. t = s5
    <3> HIDE DEF s1, s2, s3, s4, s5
    <3> QED BY <2>3, <2>4, <2>5, <2>6, <2>7, <2>8, Zenon
  <2> QED BY <1>3, <2>9 DEF WithBlob, p, u, n, a, e, p1, u1, n1, a1, e1
<1> QED BY <1>1, <1>2, <1>3

LEMMA ScannedKeeps ==
  ASSUME NEW start \in SUBSET Ids, NEW counts, NEW s, Scanning(s, start, counts),
         Ids # {} => MaxUpdates >= 1,
         NEW c \in Cells, NEW t, t = Scanned(s, c)
  PROVE  Scanning(t, start, counts)
<1> DEFINE id == Min(Ids \ s.used)
           blob == Connected(c, s.source)
<1>1. /\ Fields(s) /\ s.source \subseteq Cells
      /\ s.extracted \in [Cells -> {NotUsed} \cup Ids]
      /\ s.active \in Seq(Ids) /\ IsFiniteSet(Named(s)) /\ Len(s.active) = Cardinality(Named(s))
      /\ s.used = start \cup Named(s) /\ Named(s) \cap start = {}
      /\ \A i \in Named(s) : BlobOf(s, i) # {} /\ Cardinality(BlobOf(s, i)) >= CancelSize
      /\ s.count \in [Ids -> 0..MaxUpdates]
      /\ \A i \in start : s.count[i] = counts[i]
      /\ MaxUpdates \in Nat
  BY ThresholdAssumption DEF Scanning, Labelled, Counted
<1>15. Named(s) \subseteq Ids
  BY <1>1 DEF Named, NamesIn
<1>2. /\ \A d \in Cells : s.extracted[d] # NotUsed =>
             s.extracted[d] \in Named(s) /\ d \notin s.source
      /\ \A d, x \in Cells :
           x \in Neighbours(d) /\ s.extracted[d] # NotUsed =>
             x \notin s.source /\ s.extracted[x] \in {s.extracted[d], NotUsed}
  BY DEF Scanning, Separate
<1>25. \A i \in Named(s) :
         s.count[i] = 1 /\ \E x \in BlobOf(s, i) : Spans(x, BlobOf(s, i))
  BY DEF Scanning, Joined
<1>3. CASE t = s
  BY <1>3
<1>4. ASSUME c \in s.source, Ids \ s.used # {}
      PROVE  /\ id \in Ids \ s.used /\ MaxUpdates >= 1
             /\ c \in blob /\ blob \subseteq s.source /\ blob \subseteq Cells /\ IsFiniteSet(blob)
             /\ \A d \in blob : s.source \cap Neighbours(d) \subseteq blob
             /\ Spans(c, blob)
  <2>1. id \in Ids \ s.used
    BY <1>4, IdsType, MinIn
  <2>2. IsFiniteSet(s.source)
    BY <1>1, IdsType, FS_Subset
  <2>3. /\ c \in blob /\ blob \subseteq s.source
        /\ \A d \in blob : s.source \cap Neighbours(d) \subseteq blob
    BY <1>4, <2>2, ConnectedClosed
  <2>35. Spans(c, blob)
    BY <1>4, <2>2, ConnectedSpans
  <2> HIDE DEF id, blob
  <2>4. IsFiniteSet(blob)
    BY <2>2, <2>3, FS_Subset
  <2> QED BY <1>1, <2>1, <2>3, <2>35, <2>4
<1> HIDE DEF id, blob
<1>5. CASE c \in s.source /\ Ids \ s.used # {} /\ t = Cancelled(s, id, blob)
  <2>1. /\ t.source = s.source \ blob /\ t.used = s.used /\ t.active = s.active
        /\ t.count = [s.count EXCEPT ![id] = 0] /\ t.extracted = s.extracted
    BY <1>5 DEF Cancelled
  <2>2. Fields(t)
    BY <1>5, <2>1 DEF Cancelled, Fields
  <2>3. Named(t) = Named(s) /\ \A i : BlobOf(t, i) = BlobOf(s, i)
    BY <2>1 DEF Named, BlobOf
  <2>4. Labelled(t, start)
    BY <1>1, <2>1, <2>3 DEF Labelled
  <2>5. Separate(t)
    BY <1>2, <2>1, <2>3 DEF Separate
  <2>6. Counted(t, start, counts)
    BY <1>1, <1>4, <1>5, <2>1 DEF Counted
  <2>7. Joined(t)
    BY <1>1, <1>15, <1>25, <1>4, <1>5, <2>1, <2>3 DEF Joined
  <2> QED BY <1>1, <2>1, <2>2, <2>4, <2>5, <2>6, <2>7 DEF Scanning
<1>6. CASE /\ c \in s.source /\ Ids \ s.used # {} /\ ~(Cardinality(blob) < CancelSize)
           /\ t = WithBlob(s, id, blob)
  <2>1. /\ t.source = s.source \ blob /\ t.used = s.used \cup {id}
        /\ t.active = Append(s.active, id) /\ t.count = [s.count EXCEPT ![id] = 1]
        /\ t.extracted = [d \in Cells |-> IF d \in blob THEN id ELSE s.extracted[d]]
    BY <1>6 DEF WithBlob
  <2>2. Fields(t)
    BY <1>6, <2>1 DEF WithBlob, Fields
  <2>3. /\ id \in Ids /\ id \notin start /\ id \notin Named(s) /\ id # NotUsed /\ MaxUpdates >= 1
        /\ c \in blob /\ blob \subseteq s.source /\ blob \subseteq Cells /\ IsFiniteSet(blob)
        /\ \A d \in blob : s.source \cap Neighbours(d) \subseteq blob
    BY <1>1, <1>4, <1>6, IdsType
  <2>4. Named(t) = Named(s) \cup {id}
    <3>1. NamesIn(Append(s.active, id)) = NamesIn(s.active) \cup {id}
      BY <1>1, AppendNames
    <3> QED BY <2>1, <3>1, Zenon DEF Named
  <2>5. /\ \A d \in blob : t.extracted[d] = id /\ s.extracted[d] = NotUsed
        /\ \A d \in Cells \ blob : t.extracted[d] = s.extracted[d]
    BY <1>2, <2>1, <2>3
  <2>6. t.extracted \in [Cells -> {NotUsed} \cup Ids]
    BY <1>1, <2>1, <2>3
  <2>7. BlobOf(t, id) = blob
    BY <1>2, <2>3, <2>5 DEF BlobOf
  <2>8. \A i \in Named(s) : BlobOf(t, i) = BlobOf(s, i)
    <3> SUFFICES ASSUME NEW i \in Named(s) PROVE BlobOf(t, i) = BlobOf(s, i)
      OBVIOUS
    <3>1. i \in Ids
      BY <1>15
    <3>2. i # NotUsed /\ i # id
      BY <2>3, <3>1, IdsType
    <3> QED BY <2>5, <3>2 DEF BlobOf
  <2>9. Labelled(t, start)
    <3>1. t.active \in Seq(Ids) /\ Len(t.active) = Len(s.active) + 1
      BY <1>1, <2>1, <2>3
    <3>2. IsFiniteSet(Named(t)) /\ Cardinality(Named(t)) = Cardinality(Named(s)) + 1
      <4>1. PICK S : S = Named(s)
        OBVIOUS
      <4>2. IsFiniteSet(S) /\ id \notin S
        BY <1>1, <2>3, <4>1, Zenon
      <4>3. IsFiniteSet(S \cup {id}) /\ Cardinality(S \cup {id}) = Cardinality(S) + 1
        BY <4>2, FS_AddElement
      <4> QED BY <2>4, <4>1, <4>3, Zenon
    <3>3. t.used = start \cup Named(t) /\ Named(t) \cap start = {}
      BY <1>1, <2>1, <2>3, <2>4
    <3>4. Cardinality(blob) >= CancelSize
      <4>1. Cardinality(blob) \in Nat /\ CancelSize \in Nat
        BY <2>3, FS_CardinalityType, ThresholdAssumption
      <4> QED BY <1>6, <4>1
    <3>5. ASSUME NEW i \in Named(t)
          PROVE  BlobOf(t, i) # {} /\ Cardinality(BlobOf(t, i)) >= CancelSize
      <4>1. CASE i = id
        BY <2>3, <2>7, <3>4, <4>1
      <4>2. CASE i \in Named(s)
        BY <1>1, <2>8, <4>2
      <4> QED BY <2>4, <4>1, <4>2
    <3> QED BY <1>1, <3>1, <3>2, <3>3, <3>5 DEF Labelled
  <2>10. ASSUME NEW d \in Cells, t.extracted[d] # NotUsed
         PROVE  t.extracted[d] \in Named(t) /\ d \notin t.source
    <3>1. CASE d \in blob
      BY <2>1, <2>4, <2>5, <3>1
    <3>2. CASE d \notin blob
      BY <1>2, <2>1, <2>4, <2>5, <2>10, <3>2
    <3> QED BY <3>1, <3>2
  <2>11. ASSUME NEW d \in Cells, NEW x \in Cells, x \in Neighbours(d), t.extracted[d] # NotUsed
         PROVE  x \notin t.source /\ t.extracted[x] \in {t.extracted[d], NotUsed}
    <3>1. CASE d \in blob
      <4>1. CASE x \in s.source
        <5>1. x \in blob
          BY <2>3, <2>11, <3>1, <4>1
        <5> QED BY <2>1, <2>5, <3>1, <5>1
      <4>2. CASE x \notin s.source
        <5>1. x \notin blob /\ t.extracted[x] = s.extracted[x]
          BY <2>3, <2>5, <4>2
        <5>2. d \in Neighbours(x)
          BY <2>11, NeighboursMutual
        <5>3. s.extracted[x] = NotUsed
          BY <1>2, <2>3, <3>1, <5>2
        <5> QED BY <2>1, <4>2, <5>1, <5>3
      <4> QED BY <4>1, <4>2
    <3>2. CASE d \notin blob
      <4>1. t.extracted[d] = s.extracted[d]
        BY <2>5, <3>2
      <4>2. x \notin s.source /\ s.extracted[x] \in {s.extracted[d], NotUsed}
        BY <1>2, <2>11, <4>1
      <4>3. x \notin blob
        BY <2>3, <4>2
      <4> QED BY <2>1, <2>5, <4>1, <4>2, <4>3
    <3> QED BY <3>1, <3>2
  <2>12. Separate(t)
    BY <2>10, <2>11 DEF Separate
  <2>13. Counted(t, start, counts)
    BY <1>1, <2>1, <2>3 DEF Counted
  <2>14. Joined(t)
    <3> SUFFICES ASSUME NEW i \in Named(t)
                 PROVE  t.count[i] = 1 /\ \E x \in BlobOf(t, i) : Spans(x, BlobOf(t, i))
      BY DEF Joined
    <3>1. CASE i = id
      BY <1>1, <1>4, <1>6, <2>1, <2>3, <2>7, <3>1
    <3>2. CASE i \in Named(s)
      <4>1. i # id /\ i \in Ids
        BY <1>15, <2>3, <3>2
      <4>2. t.count[i] = s.count[i]
        BY <1>1, <2>1, <4>1
      <4> QED BY <1>25, <2>8, <3>2, <4>2
    <3> QED BY <2>4, <3>1, <3>2
  <2> QED BY <1>1, <2>1, <2>2, <2>6, <2>9, <2>12, <2>13, <2>14 DEF Scanning
<1> QED
  <2>1. id = Min(Ids \ s.used) /\ blob = Connected(c, s.source)
    BY DEF id, blob
  <2>2. Fields(s)
    BY <1>1
  <2>3. \/ t = s
        \/ c \in s.source /\ Ids \ s.used # {} /\ t = Cancelled(s, id, blob)
        \/ /\ c \in s.source /\ Ids \ s.used # {} /\ ~(Cardinality(blob) < CancelSize)
           /\ t = WithBlob(s, id, blob)
    BY <2>1, <2>2, ScannedIs
  <2> QED BY <1>3, <1>5, <1>6, <2>3, Zenon

(* What a frame's scan returns.                                             *)
LEMMA DetectedKeeps ==
  ASSUME used \subseteq Ids, count \in [Ids -> 0..MaxUpdates], Ids # {} => MaxUpdates >= 1,
         NEW moving, moving \subseteq Cells, NEW s, s = Detected(moving)
  PROVE  Scanning(s, used, count)
<1> DEFINE N == Last + 1
<1>1. N \in Nat /\ Cells = 0..(N - 1)
  BY GridAssumption DEF Last, Cells
<1>2. PICK s0 : s0 = Unscanned(moving)
  OBVIOUS
<1>3. Scanning(s0, used, count)
  <2>1. /\ s0.source = moving /\ s0.used = used /\ s0.count = count /\ s0.active = <<>>
        /\ s0.extracted = [c \in Cells |-> NotUsed] /\ Fields(s0)
    BY <1>2 DEF Unscanned, Fields
  <2>2. Named(s0) = {}
    BY <2>1 DEF Named, NamesIn
  <2>3. Labelled(s0, used)
    BY <2>1, <2>2, FS_EmptySet DEF Labelled
  <2>4. Separate(s0)
    BY <2>1 DEF Separate
  <2>5. Counted(s0, used, count)
    BY <2>1 DEF Counted
  <2>6. Joined(s0)
    BY <2>2 DEF Joined
  <2> QED BY <2>1, <2>3, <2>4, <2>5, <2>6 DEF Scanning
<1>4. PICK f : f = Scan(s0, N)
  OBVIOUS
<1>5. Scans(f, s0, N)
  BY <1>1, <1>4, ScanExists DEF Scan
<1>6. s = f[N]
  BY <1>2, <1>4, DetectedIs
<1>7. f[0] = s0 /\ \A n \in 1..N : f[n] = Scanned(f[n - 1], n - 1)
  BY <1>1, <1>5 DEF Scans
<1> DEFINE T == {n \in 0..N : ~Scanning(f[n], used, count)}
<1>8. T = {}
  <2> SUFFICES ASSUME T # {} PROVE FALSE
    OBVIOUS
  <2>1. PICK m \in T : \A k \in T : m <= k
    <3>1. T \subseteq Nat
      OBVIOUS
    <3> HIDE DEF T
    <3> QED BY <3>1, NatMin
  <2>2. m # 0
    BY <1>3, <1>7, <2>1
  <2>3. m \in 1..N /\ m - 1 \in Cells /\ m - 1 \in 0..N /\ m - 1 \notin T
    BY <1>1, <2>1, <2>2
  <2>4. Scanning(f[m - 1], used, count)
    BY <2>3
  <2>5. Scanning(f[m], used, count)
    BY <1>7, <2>3, <2>4, ScannedKeeps
  <2> QED BY <2>1, <2>5
<1> QED BY <1>1, <1>6, <1>8

LEMMA MaxIn ==
  ASSUME NEW M \in Nat, NEW S, S \subseteq 0..M, S # {}
  PROVE  Max(S) \in S /\ \A x \in S : Max(S) >= x
<1> DEFINE T == {M - x : x \in S}
<1>1. T \subseteq Nat /\ T # {}
  <2>1. ASSUME NEW x \in S PROVE M - x \in Nat
    <3>1. x \in 0..M
      OBVIOUS
    <3> QED BY <3>1
  <2> QED BY <2>1
<1>2. PICK y \in T : \A z \in T : y <= z
  <2> HIDE DEF T
  <2> QED BY <1>1, NatMin
<1>3. PICK x \in S : y = M - x
  OBVIOUS
<1>4. ASSUME NEW z \in S PROVE x >= z
  <2>1. M - z \in T
    OBVIOUS
  <2>2. M - x <= M - z
    BY <1>2, <1>3, <2>1
  <2>3. x \in Int /\ z \in Int
    OBVIOUS
  <2> QED BY <2>2, <2>3
<1> QED BY <1>4 DEF Max

(* There are no more blobs than points.                                     *)
LEMMA BlobsFit ==
  ASSUME NEW s, NEW start, NEW counts, Scanning(s, start, counts)
  PROVE  Len(s.active) <= Cardinality(Cells) /\ Len(s.active) \in Nat
<1>1. /\ s.extracted \in [Cells -> {NotUsed} \cup Ids] /\ s.active \in Seq(Ids)
      /\ IsFiniteSet(Named(s)) /\ Len(s.active) = Cardinality(Named(s))
      /\ \A i \in Named(s) : BlobOf(s, i) # {}
  BY DEF Scanning, Labelled
<1> DEFINE S == {c \in Cells : s.extracted[c] \in Named(s)}
           f == [c \in S |-> s.extracted[c]]
<1>2. S \subseteq Cells /\ f \in [S -> Named(s)]
  OBVIOUS
<1>3. \A i \in Named(s) : \E c \in S : f[c] = i
  BY <1>1 DEF BlobOf
<1> HIDE DEF S, f
<1>4. f \in Surjection(S, Named(s))
  BY <1>2, <1>3 DEF Surjection
<1>5. IsFiniteSet(S) /\ Cardinality(S) <= Cardinality(Cells)
  BY <1>2, IdsType, FS_Subset
<1>6. Cardinality(Named(s)) <= Cardinality(S)
  BY <1>4, <1>5, FS_Surjection
<1>7. /\ Cardinality(Named(s)) \in Nat /\ Cardinality(S) \in Nat /\ Cardinality(Cells) \in Nat
  BY <1>1, <1>5, IdsType, FS_CardinalityType
<1> QED BY <1>1, <1>5, <1>6, <1>7

BlobInv == BlobTypeOK /\ IdsAgree

LEMMA BlobInitInv == BlobInit => BlobInv
<1> SUFFICES ASSUME BlobInit PROVE BlobInv
  OBVIOUS
<1>1. Cardinality(Cells) \in Nat /\ MaxUpdates \in Nat
  BY IdsType, FS_CardinalityType, ThresholdAssumption
<1>2. BlobTypeOK
  <2>1. 0 \in 0..Cardinality(Cells) /\ 0 \in 0..MaxUpdates
    BY <1>1
  <2>2. <<>> \in Seq(Ids)
    OBVIOUS
  <2>3. /\ [c \in Cells |-> NotUsed] \in [Cells -> {NotUsed} \cup Ids]
        /\ [i \in Ids |-> 0] \in [Ids -> 0..MaxUpdates]
    BY <2>1
  <2> QED BY <2>1, <2>2, <2>3 DEF BlobInit, BlobTypeOK
<1>3. Previous = {}
  BY DEF BlobInit, Previous
<1>4. {active[n] : n \in DOMAIN active} = {} /\ Len(active) = 0
  BY DEF BlobInit
<1> QED BY <1>2, <1>3, <1>4, FS_EmptySet DEF BlobInit, BlobInv, IdsAgree

(* TrackingBlob: a counter goes up by one at most.                          *)
LEMMA TrackedType ==
  ASSUME BlobTypeOK, used = Previous, \A i \in Ids : count[i] < MaxUpdates,
         NEW s, Scanning(s, used, count)
  PROVE  Tracked(s) \in [Ids -> 0..MaxUpdates]
<1> SUFFICES ASSUME NEW i \in Ids PROVE Tracked(s)[i] \in 0..MaxUpdates
  BY DEF Tracked
<1>1. /\ s.count \in [Ids -> 0..MaxUpdates]
      /\ \A j \in used : s.count[j] = count[j]
      /\ MaxUpdates \in Nat
  BY ThresholdAssumption DEF Scanning, Counted
<1>2. used \subseteq Ids /\ count \in [Ids -> 0..MaxUpdates]
  BY DEF BlobTypeOK
<1> DEFINE C == {d \in Cells : s.extracted[d] = i /\ extracted[d] # NotUsed}
           S == {s.count[i]} \cup {s.count[extracted[c]] + 1 : c \in C}
<1>3. ASSUME NEW c \in C PROVE s.count[extracted[c]] + 1 \in 0..MaxUpdates
  <2>1. extracted[c] \in used
    BY DEF Previous
  <2>2. s.count[extracted[c]] < MaxUpdates /\ s.count[extracted[c]] \in 0..MaxUpdates
    BY <1>1, <1>2, <2>1
  <2> QED BY <1>1, <2>2
<1>4. S \subseteq 0..MaxUpdates /\ S # {}
  BY <1>1, <1>3
<1>5. Tracked(s)[i] = IF \E n \in DOMAIN s.active : s.active[n] = i THEN Max(S) ELSE s.count[i]
  BY DEF Tracked
<1> HIDE DEF S
<1>6. Max(S) \in 0..MaxUpdates
  BY <1>1, <1>4, MaxIn
<1> QED BY <1>1, <1>5, <1>6

(* What a scan leaves satisfies the property once the ids of the frame      *)
(* before are given back.                                                   *)
LEMMA UpdateKeeps ==
  ASSUME BlobInv, NEW moving \in SUBSET Cells, UpdateBlob(moving)
  PROVE  BlobInv'
<1>1. PICK s : s = Detected(moving)
  OBVIOUS
<1>2. /\ BlobTypeOK /\ IdsAgree /\ used = Previous
      /\ used \subseteq Ids /\ count \in [Ids -> 0..MaxUpdates]
      /\ \A i \in Ids : count[i] < MaxUpdates
      /\ MaxUpdates \in Nat
  BY ThresholdAssumption DEF BlobInv, BlobTypeOK, IdsAgree, UpdateBlob
<1>3. Ids # {} => MaxUpdates >= 1
  BY <1>2
<1>4. Scanning(s, used, count)
  BY <1>1, <1>2, <1>3, DetectedKeeps
<1>5. /\ extracted' = s.extracted /\ active' = s.active
      /\ count' = Tracked(s) /\ used' = s.used \ Previous
  BY <1>1 DEF UpdateBlob, Kept
<1>6. /\ s.extracted \in [Cells -> {NotUsed} \cup Ids] /\ s.active \in Seq(Ids)
      /\ Len(s.active) = Cardinality(Named(s))
      /\ s.used = used \cup Named(s) /\ Named(s) \cap used = {}
      /\ \A i \in Named(s) : BlobOf(s, i) # {} /\ Cardinality(BlobOf(s, i)) >= CancelSize
      /\ \A d \in Cells : s.extracted[d] # NotUsed => s.extracted[d] \in Named(s)
      /\ \A c, d \in Cells :
           d \in Neighbours(c) /\ s.extracted[c] # NotUsed =>
             s.extracted[d] \in {s.extracted[c], NotUsed}
  BY <1>4 DEF Scanning, Labelled, Separate
<1>7. used' = Named(s)
  BY <1>2, <1>5, <1>6
<1>8. Named(s) \subseteq Ids
  BY <1>6 DEF Named, NamesIn
<1>9. IdsAgree'
  <2>1. {s.extracted[c] : c \in Cells} \ {NotUsed} = Named(s)
    <3>1. ASSUME NEW i \in Named(s) PROVE \E c \in Cells : s.extracted[c] = i /\ i # NotUsed
      BY <1>6, <1>8, IdsType DEF BlobOf
    <3> QED BY <1>6, <3>1
  <2>2. Previous' = Named(s)
    BY <1>5, <2>1 DEF Previous
  <2>3. {active'[n] : n \in DOMAIN active'} = Named(s) /\ Len(active') = Cardinality(Named(s))
    BY <1>5, <1>6 DEF Named, NamesIn
  <2>4. ASSUME NEW i \in Named(s)
        PROVE  /\ Cardinality(Blob(i)') >= CancelSize
               /\ \A c \in Blob(i)', d \in Cells :
                    extracted'[d] \notin {i, NotUsed} => d \notin Neighbours(c)
    <3>1. Blob(i)' = BlobOf(s, i)
      BY <1>5 DEF Blob, BlobOf
    <3>2. i # NotUsed
      BY <1>8, IdsType
    <3>3. ASSUME NEW c \in BlobOf(s, i), NEW d \in Cells, s.extracted[d] \notin {i, NotUsed}
          PROVE  d \notin Neighbours(c)
      BY <1>6, <3>2, <3>3 DEF BlobOf
    <3> QED BY <1>5, <1>6, <3>1, <3>3
  <2> QED BY <1>7, <2>2, <2>3, <2>4 DEF IdsAgree
<1>10. count' \in [Ids -> 0..MaxUpdates]
  BY <1>2, <1>4, <1>5, TrackedType
<1>11. told' \in 0..Cardinality(Cells)
  <2>1. Len(s.active) <= Cardinality(Cells) /\ Len(s.active) \in Nat
    BY <1>4, BlobsFit
  <2>2. Cardinality(Cells) \in Nat
    BY IdsType, FS_CardinalityType
  <2> DEFINE K == {k \in DOMAIN s.active : count'[s.active[k]] > TrackingThreshold}
  <2>3. K \subseteq 1..Len(s.active)
    BY <1>6
  <2>4. ActiveCount(active', count') = Cardinality(K)
    BY <1>5 DEF ActiveCount
  <2> HIDE DEF K
  <2>5. IsFiniteSet(1..Len(s.active)) /\ Cardinality(1..Len(s.active)) = Len(s.active)
    <3>1. PICK n : n = Len(s.active)
      OBVIOUS
    <3>2. 1 \in Int /\ n \in Int /\ n \in Nat
      BY <2>1, <3>1
    <3>3. IsFiniteSet(1..n) /\ Cardinality(1..n) = IF 1 > n THEN 0 ELSE n - 1 + 1
      BY <3>2, FS_Interval, Zenon
    <3> QED BY <3>1, <3>2, <3>3
  <2>6. Cardinality(K) \in Nat /\ Cardinality(K) <= Len(s.active)
    <3>1. PICK D : D = 1..Len(s.active)
      OBVIOUS
    <3>2. K \subseteq D /\ IsFiniteSet(D) /\ Cardinality(D) = Len(s.active)
      BY <2>3, <2>5, <3>1, Zenon
    <3>3. IsFiniteSet(K) /\ Cardinality(K) <= Cardinality(D)
      BY <3>2, FS_Subset
    <3> QED BY <3>2, <3>3, FS_CardinalityType
  <2>7. ActiveCount(active', count') \in 0..Cardinality(Cells)
    BY <2>1, <2>2, <2>4, <2>6
  <2>8. told \in 0..Cardinality(Cells)
    BY <1>2 DEF BlobTypeOK
  <2>9. told' = IF watched' THEN ActiveCount(active', count') ELSE told
    BY DEF UpdateBlob, Report
  <2> QED BY <2>7, <2>8, <2>9
<1>12. oldest' \in 0..MaxUpdates
  <2> DEFINE S == {0} \cup {count'[s.active[k]] : k \in DOMAIN s.active}
  <2>1. S \subseteq 0..MaxUpdates /\ S # {}
    BY <1>2, <1>6, <1>10
  <2>2. oldest' = Max(S)
    BY <1>5 DEF UpdateBlob, Report, ActiveUpdates
  <2> HIDE DEF S
  <2> QED BY <1>2, <2>1, <2>2, MaxIn
<1>13. watched' \in BOOLEAN
  BY <1>2 DEF BlobTypeOK, UpdateBlob, Report
<1>14. BlobTypeOK'
  BY <1>5, <1>6, <1>7, <1>8, <1>10, <1>11, <1>12, <1>13 DEF BlobTypeOK
<1> QED BY <1>9, <1>14 DEF BlobInv

LEMMA BlobNextInv == BlobInv /\ [BlobNext]_blobVars => BlobInv'
<1> SUFFICES ASSUME BlobInv, [BlobNext]_blobVars PROVE BlobInv'
  OBVIOUS
<1>1. CASE BlobNext
  BY <1>1, UpdateKeeps DEF BlobNext
<1>2. CASE UNCHANGED blobVars
  BY <1>2 DEF blobVars, BlobInv, BlobTypeOK, IdsAgree, Previous, Blob
<1> QED BY <1>1, <1>2

LEMMA BlobInvariant == BlobSpec => []BlobInv
BY BlobInitInv, BlobNextInv, PTL DEF BlobSpec

(* BlobTypeCorrect: the ids, their counters and what the observer is told   *)
(* stay within their types (raspi_motionblob.cc:139-185, 318-413), for any  *)
(* size of the image, number of ids and thresholds.                         *)
THEOREM BlobTypeCorrect == BlobSpec => []BlobTypeOK
<1>1. BlobInv => BlobTypeOK
  BY DEF BlobInv
<1> QED BY <1>1, BlobInvariant, PTL

(* BlobsHoldTheirIds: after each frame exactly the blobs of the image hold  *)
(* ids, one each, and no blob touches another (raspi_motionblob.cc:139-185, *)
(* 238-315, 415-443), also when the ids do not suffice.                     *)
THEOREM BlobsHoldTheirIds == BlobSpec => []IdsAgree
<1>1. BlobInv => IdsAgree
  BY DEF BlobInv
<1> QED BY <1>1, BlobInvariant, PTL

-----------------------------------------------------------------------------
(* The refinement of MotionAges *)

LEMMA AdjacentIs ==
  ASSUME NEW c \in Cells, NEW d \in Cells
  PROVE  Ages!Adjacent(c, d) <=> d \in Neighbours(c)
<1>1. c \in Nat /\ d \in Nat /\ c <= Last /\ d <= Last /\ Last \in Int /\ Width \in Nat \ {0}
  BY GridType DEF Cells
<1>2. /\ c \div Width \in Nat /\ c % Width \in 0..(Width - 1)
      /\ c = Width * (c \div Width) + (c % Width)
  BY <1>1, Remainder
<1>3. /\ d \div Width \in Nat /\ d % Width \in 0..(Width - 1)
      /\ d = Width * (d \div Width) + (d % Width)
  BY <1>1, Remainder
<1>4. CASE d = c + 1
  <2>1. (c % Width) + 1 < Width => c \div Width = d \div Width
    <3> SUFFICES ASSUME (c % Width) + 1 < Width PROVE c \div Width = d \div Width
      OBVIOUS
    <3>1. d % Width = (c % Width) + 1
      BY <1>1, <1>4, NextInRow
    <3>2. d - c = (d % Width) - (c % Width)
      BY <1>1, <1>2, <1>4, <3>1
    <3> QED BY <1>1, <3>2, SameQuotient
  <2>2. c \div Width = d \div Width => (c % Width) + 1 < Width
    BY <1>1, <1>2, <1>3, <1>4
  <2>3. d - c = 1
    BY <1>1, <1>4
  <2> QED BY <1>1, <1>4, <2>1, <2>2, <2>3 DEF Ages!Adjacent, Neighbours
<1>5. CASE d = c - 1
  <2>1. c % Width >= 1 => c \div Width = d \div Width
    <3> SUFFICES ASSUME c % Width >= 1 PROVE c \div Width = d \div Width
      OBVIOUS
    <3>1. d % Width = (c % Width) - 1
      BY <1>1, <1>5, NextInRow
    <3>2. d - c = (d % Width) - (c % Width)
      BY <1>1, <1>2, <1>5, <3>1
    <3> QED BY <1>1, <3>2, SameQuotient
  <2>2. c \div Width = d \div Width => c % Width >= 1
    BY <1>1, <1>2, <1>3, <1>5
  <2>3. d - c = -1
    BY <1>1, <1>5
  <2> QED BY <1>1, <1>5, <2>1, <2>2, <2>3 DEF Ages!Adjacent, Neighbours
<1>6. CASE d # c + 1 /\ d # c - 1
  <2>1. d - c # 1 /\ d - c # -1
    BY <1>1, <1>6
  <2>2. d - c = Width <=> d = c + Width
    BY <1>1
  <2>3. d - c = -Width <=> d = c - Width
    BY <1>1
  <2> QED BY <1>1, <1>6, <2>1, <2>2, <2>3 DEF Ages!Adjacent, Neighbours
<1> QED BY <1>4, <1>5, <1>6

LEMMA AgesMaxIs == ASSUME NEW S PROVE Ages!Max(S) = Max(S)
BY DEF Ages!Max, Max

LEMMA AgesCellsAre == Ages!Cells = Cells
BY DEF Ages!Cells, Cells, Last

(* A connected part of the labelled points is the blob of one id.           *)
LEMMA RegionIsBlob ==
  ASSUME NEW s, NEW start, NEW counts, Scanning(s, start, counts),
         NEW W, W = {c \in Cells : s.extracted[c] # NotUsed},
         NEW R \in Ages!Regions(W)
  PROVE  \E i \in Named(s) : R = BlobOf(s, i)
<1>1. /\ R \subseteq W /\ R # {}
      /\ \A x \in R, d \in W : Ages!Adjacent(x, d) => d \in R
      /\ \A S \in (SUBSET R) \ {{}, R} : ~Ages!Closed(S, W)
  BY DEF Ages!Regions, Ages!Closed
<1>2. W \subseteq Cells /\ \A d \in Cells : d \in W <=> s.extracted[d] # NotUsed
  OBVIOUS
<1>3. PICK c \in R : c \in W /\ c \in Cells
  BY <1>1, <1>2
<1>4. PICK i : i = s.extracted[c]
  OBVIOUS
<1>5. /\ \A d \in Cells : s.extracted[d] # NotUsed => s.extracted[d] \in Named(s)
      /\ \A x, d \in Cells :
           d \in Neighbours(x) /\ s.extracted[x] # NotUsed =>
             s.extracted[d] \in {s.extracted[x], NotUsed}
  BY DEF Scanning, Separate
<1>6. i \in Named(s) /\ i # NotUsed
  BY <1>2, <1>3, <1>4, <1>5
<1>7. PICK B : B = BlobOf(s, i)
  OBVIOUS
<1>8. B \subseteq W /\ \A d \in Cells : d \in B <=> s.extracted[d] = i
  BY <1>2, <1>6, <1>7 DEF BlobOf
<1>9. \A x \in R, d \in W : d \in Neighbours(x) => d \in R
  BY <1>1, <1>2, AdjacentIs
<1>10. R \subseteq B
  <2>1. Ages!Closed(R \cap B, W)
    <3> SUFFICES ASSUME NEW x \in R \cap B, NEW d \in W, Ages!Adjacent(x, d)
                 PROVE  d \in R \cap B
      BY DEF Ages!Closed
    <3>1. x \in Cells /\ d \in Cells /\ d \in Neighbours(x)
      BY <1>1, <1>2, AdjacentIs
    <3>2. s.extracted[d] = i
      BY <1>2, <1>5, <1>6, <1>8, <3>1
    <3> QED BY <1>8, <1>9, <3>1, <3>2
  <2>2. R \cap B # {} /\ R \cap B \in SUBSET R
    BY <1>3, <1>4, <1>8
  <2>3. R \cap B = R
    BY <1>1, <2>1, <2>2
  <2> QED BY <2>3
<1>11. PICK x0 \in B : Spans(x0, B)
  BY <1>6, <1>7 DEF Scanning, Joined
<1>12. CASE x0 \in R
  <2>1. \A d \in R : B \cap Neighbours(d) \subseteq R
    BY <1>8, <1>9
  <2>2. R = B
    BY <1>10, <1>11, <1>12, <2>1 DEF Spans
  <2> QED BY <1>6, <1>7, <2>2
<1>13. CASE x0 \notin R
  <2>1. ASSUME NEW d \in B \ R, NEW x \in B \cap Neighbours(d) PROVE x \in B \ R
    <3>1. d \in Cells /\ x \in Cells /\ d \in W
      BY <1>2, <1>8
    <3>2. d \in Neighbours(x)
      BY <3>1, NeighboursMutual
    <3> QED BY <1>9, <3>1, <3>2
  <2>2. B \ R = B
    <3>1. \A d \in B \ R : B \cap Neighbours(d) \subseteq B \ R
      BY <2>1
    <3>2. x0 \in B \ R /\ B \ R \in SUBSET B
      BY <1>11, <1>13
    <3> QED BY <1>11, <3>1, <3>2 DEF Spans
  <2> QED BY <1>3, <1>10, <2>2
<1> QED BY <1>12, <1>13

LEMMA UpdateAges ==
  ASSUME BlobInv, NEW moving \in SUBSET Cells, UpdateBlob(moving)
  PROVE  Ages!Next
<1>1. PICK s : s = Detected(moving)
  OBVIOUS
<1>2. /\ used = Previous /\ extracted \in [Cells -> {NotUsed} \cup Ids]
      /\ used \subseteq Ids /\ count \in [Ids -> 0..MaxUpdates] /\ BlobTypeOK
      /\ \A i \in Ids : count[i] < MaxUpdates
      /\ MaxUpdates \in Nat
  BY ThresholdAssumption DEF BlobInv, BlobTypeOK, IdsAgree, UpdateBlob
<1>3. Ids # {} => MaxUpdates >= 1
  BY <1>2
<1>4. Scanning(s, used, count)
  BY <1>1, <1>2, <1>3, DetectedKeeps
<1>5. PICK n : n = Tracked(s)
  OBVIOUS
<1>6. extracted' = s.extracted /\ count' = n
  BY <1>1, <1>5 DEF UpdateBlob
<1>7. /\ s.extracted \in [Cells -> {NotUsed} \cup Ids]
      /\ s.active \in Seq(Ids)
      /\ \A i \in Named(s) : s.count[i] = 1 /\ Cardinality(BlobOf(s, i)) >= CancelSize
      /\ \A d \in Cells : s.extracted[d] # NotUsed => s.extracted[d] \in Named(s)
      /\ \A i \in used : s.count[i] = count[i]
  BY <1>4 DEF Scanning, Labelled, Separate, Joined, Counted
<1>8. n \in [Ids -> 0..MaxUpdates]
  BY <1>2, <1>4, <1>5, TrackedType
<1>9. PICK v : v = [c \in Cells |-> IF extracted[c] = NotUsed THEN 0 ELSE count[extracted[c]]]
  OBVIOUS
<1>10. PICK w : w = [c \in Cells |-> IF s.extracted[c] = NotUsed THEN 0 ELSE n[s.extracted[c]]]
  OBVIOUS
<1>11. /\ \A c \in Cells : /\ extracted[c] = NotUsed => v[c] = 0
                           /\ extracted[c] # NotUsed => extracted[c] \in used
                                                  /\ v[c] = count[extracted[c]]
       /\ \A c \in Cells : v[c] \in 0..MaxUpdates
  <2>1. ASSUME NEW c \in Cells, extracted[c] # NotUsed PROVE extracted[c] \in used
    BY <1>2, <2>1 DEF Previous
  <2> QED BY <1>2, <1>9, <2>1
<1>12. ASSUME NEW i \in Named(s)
       PROVE  n[i] \in Nat /\ n[i] = 1 + Max({v[d] : d \in BlobOf(s, i)})
  <2>1. i \in Ids /\ BlobOf(s, i) # {} /\ \E k \in DOMAIN s.active : s.active[k] = i
    BY <1>4, <1>7 DEF Named, NamesIn, Scanning, Labelled
  <2> DEFINE C == {d \in Cells : s.extracted[d] = i /\ extracted[d] # NotUsed}
             S == {s.count[i]} \cup {s.count[extracted[c]] + 1 : c \in C}
             V == {v[d] : d \in BlobOf(s, i)}
  <2>2. n[i] = Max(S)
    BY <1>5, <2>1 DEF Tracked
  <2>3. \A c \in C : s.count[extracted[c]] + 1 = v[c] + 1 /\ c \in BlobOf(s, i)
    BY <1>7, <1>11 DEF BlobOf
  <2>4. S = {1} \cup {v[c] + 1 : c \in C}
    BY <1>7, <2>3
  <2>5. V \subseteq 0..MaxUpdates /\ V # {}
    BY <1>11, <2>1 DEF BlobOf
  <2>6. PICK m : m = Max(V)
    OBVIOUS
  <2>7. m \in V /\ m \in 0..MaxUpdates /\ \A x \in V : m >= x
    <3> HIDE DEF V
    <3> QED BY <1>2, <2>5, <2>6, MaxIn
  <2>8. ASSUME NEW c \in C PROVE v[c] + 1 <= m + 1 /\ v[c] + 1 \in 0..MaxUpdates
    <3>1. v[c] \in V /\ v[c] \in 0..MaxUpdates
      BY <1>11, <2>3
    <3>2. v[c] = count[extracted[c]] /\ extracted[c] \in Ids
      BY <1>2, <1>11
    <3>3. v[c] < MaxUpdates
      BY <1>2, <3>2
    <3>4. PICK x : x = v[c]
      OBVIOUS
    <3>5. x <= m /\ x < MaxUpdates /\ x \in 0..MaxUpdates
      BY <2>7, <3>1, <3>3, <3>4
    <3>6. x + 1 <= m + 1 /\ x + 1 \in 0..MaxUpdates
      BY <1>2, <2>7, <3>5
    <3> QED BY <3>4, <3>6
  <2>9. 1 \in 0..MaxUpdates
    BY <1>2, <1>3, <2>1
  <2>10. S \subseteq 0..MaxUpdates /\ S # {} /\ \A x \in S : x <= m + 1
    BY <2>4, <2>7, <2>8, <2>9
  <2>11. m + 1 \in S
    <3>1. PICK d \in BlobOf(s, i) : m = v[d]
      BY <2>7
    <3>2. CASE extracted[d] = NotUsed
      <4>1. m = 0
        <5>1. d \in Cells
          BY <3>1 DEF BlobOf
        <5> QED BY <1>11, <3>1, <3>2, <5>1
      <4>2. 1 \in S
        BY <2>4
      <4> HIDE DEF S
      <4> QED BY <4>1, <4>2
    <3>3. CASE extracted[d] # NotUsed
      <4>1. d \in C
        BY <3>3 DEF BlobOf
      <4> QED BY <2>4, <3>1, <4>1
    <3> QED BY <3>2, <3>3
  <2>12. Max(S) \in S /\ \A x \in S : Max(S) >= x
    <3> HIDE DEF S
    <3> QED BY <1>2, <2>10, MaxIn
  <2>13. Max(S) = m + 1
    <3> HIDE DEF S
    <3>1. Max(S) <= m + 1 /\ Max(S) >= m + 1 /\ Max(S) \in 0..MaxUpdates
      BY <2>10, <2>11, <2>12
    <3> QED BY <2>7, <3>1
  <2> HIDE DEF S, V
  <2>14. n[i] = 1 + m /\ n[i] \in Nat
    BY <2>2, <2>7, <2>13
  <2> QED BY <2>6, <2>14 DEF V
<1>13. ASSUME NEW i \in Named(s) PROVE n[i] # 0
  <2>1. i \in Ids /\ BlobOf(s, i) # {}
    BY <1>4, <1>7 DEF Named, NamesIn, Scanning, Labelled
  <2> DEFINE V == {v[d] : d \in BlobOf(s, i)}
  <2>2. V \subseteq 0..MaxUpdates /\ V # {}
    BY <1>11, <2>1 DEF BlobOf
  <2>3. Max(V) \in Nat
    <3> HIDE DEF V
    <3>1. PICK x : x = Max(V)
      OBVIOUS
    <3>2. x \in V
      BY <1>2, <2>2, <3>1, MaxIn
    <3>3. x \in Nat
      BY <1>2, <2>2, <3>2
    <3> QED BY <3>1, <3>3
  <2>4. n[i] = 1 + Max(V)
    BY <1>12
  <2> HIDE DEF V
  <2> QED BY <2>3, <2>4
<1>14. PICK W : W = {c \in Cells : s.extracted[c] # NotUsed}
  OBVIOUS
<1>15. {c \in Cells : w[c] # 0} = W
  BY <1>7, <1>10, <1>13, <1>14
<1>16. w \in [Cells -> Nat]
  BY <1>7, <1>10, <1>12
<1>17. ASSUME NEW R \in Ages!Regions(W)
       PROVE  /\ Cardinality(R) >= CancelSize
              /\ \A c \in R : w[c] = 1 + Max({v[d] : d \in R})
  <2>1. PICK i \in Named(s) : R = BlobOf(s, i)
    BY <1>4, <1>14, RegionIsBlob
  <2>2. \A c \in R : c \in Cells /\ s.extracted[c] = i
    BY <2>1 DEF BlobOf
  <2>3. i # NotUsed
    BY <1>4, <1>7, <2>1, IdsType DEF Named, NamesIn
  <2>4. \A c \in R : w[c] = n[i]
    BY <1>10, <2>2, <2>3
  <2> QED BY <1>7, <1>12, <2>1, <2>4
<1>18. /\ [c \in Cells |-> IF extracted'[c] = NotUsed THEN 0 ELSE count'[extracted'[c]]] = w
       /\ [c \in Cells |-> IF extracted[c] = NotUsed THEN 0 ELSE count[extracted[c]]] = v
  BY <1>6, <1>9, <1>10
<1>19. Ages!Moving' = W
  BY <1>15, <1>18, AgesCellsAre DEF Ages!Moving
<1>20. [c \in Cells |-> IF extracted[c] = NotUsed THEN 0 ELSE count[extracted[c]]]' = w
  BY <1>18
<1>21. [c \in Cells |-> IF extracted[c] = NotUsed THEN 0 ELSE count[extracted[c]]]'
         \in [Ages!Cells -> Nat]
  BY <1>16, <1>20, AgesCellsAre
<1>22. ASSUME NEW R \in Ages!Regions(Ages!Moving')
       PROVE  /\ Ages!Cardinality(R) >= CancelSize
              /\ \A c \in R :
                   [d \in Cells |-> IF extracted[d] = NotUsed THEN 0 ELSE count[extracted[d]]]'[c]
                     = 1 + Ages!Max({[e \in Cells |-> IF extracted[e] = NotUsed THEN 0
                                                      ELSE count[extracted[e]]][d] : d \in R})
  <2>1. R \in Ages!Regions(W)
    BY <1>19
  <2>2. Ages!Cardinality(R) = Cardinality(R)
    BY DEF Ages!Cardinality, Cardinality
  <2>3. {[e \in Cells |-> IF extracted[e] = NotUsed THEN 0 ELSE count[extracted[e]]][d] : d \in R}
          = {v[d] : d \in R}
    BY <1>18
  <2>4. Ages!Max({v[d] : d \in R}) = Max({v[d] : d \in R})
    BY AgesMaxIs
  <2>5. \A c \in R : w[c] = 1 + Max({v[d] : d \in R})
    BY <1>17, <2>1
  <2>6. Cardinality(R) >= CancelSize
    BY <1>17, <2>1
  <2> QED BY <1>20, <2>2, <2>3, <2>4, <2>5, <2>6
<1> QED BY <1>21, <1>22 DEF Ages!Next

(* BlobsImplementAges: the blobs and their ages are those that the points   *)
(* of the frames determine (MotionAges), whichever ids they get: a blob is  *)
(* one frame older than the oldest one that it overlaps                     *)
(* (raspi_motionblob.cc:318-413), for any size of the image, number of ids  *)
(* and thresholds.  A region that finds no id does not count as moving.     *)
THEOREM BlobsImplementAges == BlobSpec => ImplementsAges
<1>1. BlobInit => Ages!Init
  BY AgesCellsAre DEF BlobInit, Ages!Init
<1>2. BlobInv /\ [BlobNext]_blobVars =>
        [Ages!Next]_([c \in Cells |-> IF extracted[c] = NotUsed THEN 0 ELSE count[extracted[c]]])
  <2> SUFFICES ASSUME BlobInv, [BlobNext]_blobVars
               PROVE  [Ages!Next]_([c \in Cells |-> IF extracted[c] = NotUsed THEN 0
                                                    ELSE count[extracted[c]]])
    OBVIOUS
  <2>1. CASE BlobNext
    <3>1. Ages!Next
      BY <2>1, UpdateAges DEF BlobNext
    <3> QED BY <3>1
  <2>2. CASE UNCHANGED blobVars
    BY <2>2 DEF blobVars
  <2> QED BY <2>1, <2>2
<1> QED BY <1>1, <1>2, BlobInitInv, BlobNextInv, PTL DEF BlobSpec, ImplementsAges, Ages!Spec

-----------------------------------------------------------------------------
(* Powers of two *)

Weights(f, N) == f = [i \in 0..N |-> IF i = 0 THEN 1 ELSE 2 * f[i - 1]]

LEMMA WeightsExist == ASSUME NEW N \in Nat PROVE \E f : Weights(f, N)
<1> DEFINE T == {m \in Nat : ~\E f : Weights(f, m)}
<1> SUFFICES ASSUME T # {} PROVE FALSE
  OBVIOUS
<1>1. PICK m \in T : \A k \in T : m <= k
  <2>1. T \subseteq Nat
    OBVIOUS
  <2> HIDE DEF T
  <2> QED BY <2>1, NatMin
<1>2. m # 0
  <2> SUFFICES ASSUME m = 0 PROVE \E f : Weights(f, 0)
    OBVIOUS
  <2> DEFINE f == [i \in 0..0 |-> 1]
  <2>1. Weights(f, 0)
    BY DEF Weights
  <2> QED BY <2>1
<1>3. m - 1 \in Nat /\ m - 1 \notin T
  BY <1>1, <1>2
<1>4. PICK g : Weights(g, m - 1)
  BY <1>3
<1> DEFINE h == [i \in 0..m |-> IF i = m THEN 2 * g[m - 1] ELSE g[i]]
<1>5. ASSUME NEW i \in 0..m PROVE h[i] = IF i = 0 THEN 1 ELSE 2 * h[i - 1]
  <2>1. CASE i = m
    BY <1>1, <1>2, <2>1
  <2>2. CASE i # m
    <3>1. i \in 0..(m - 1)
      BY <1>1, <2>2
    <3>2. g[i] = IF i = 0 THEN 1 ELSE 2 * g[i - 1]
      BY <1>4, <3>1 DEF Weights
    <3>3. i # 0 => i - 1 \in 0..m /\ i - 1 # m
      BY <1>1, <3>1
    <3> QED BY <2>2, <3>2, <3>3
  <2> QED BY <2>1, <2>2
<1>6. Weights(h, m)
  <2> HIDE DEF h
  <2>1. h = [i \in 0..m |-> h[i]]
    BY DEF h
  <2> QED BY <1>5, <2>1 DEF Weights
<1> QED BY <1>1, <1>6

LEMMA WeightIs ==
  /\ Weight[0] = 1
  /\ \A i \in 1..HistoryBits : Weight[i] = 2 * Weight[i - 1]
<1>1. HistoryBits \in Nat \ {0}
  BY BitsAssumption
<1>2. \E f : Weights(f, HistoryBits)
  BY <1>1, WeightsExist
<1>3. Weight = CHOOSE f : Weights(f, HistoryBits)
  BY DEF Weight, Weights
<1>4. Weights(Weight, HistoryBits)
  BY <1>2, <1>3
<1>5. PICK w : w = Weight
  OBVIOUS
<1>6. w = [i \in 0..HistoryBits |-> IF i = 0 THEN 1 ELSE 2 * w[i - 1]]
  BY <1>4, <1>5 DEF Weights
<1>7. w[0] = 1 /\ \A i \in 1..HistoryBits : w[i] = 2 * w[i - 1]
  BY <1>1, <1>6
<1> QED BY <1>5, <1>7

LEMMA WeightType == \A i \in 0..HistoryBits : Weight[i] \in Nat \ {0}
<1> DEFINE T == {i \in 0..HistoryBits : Weight[i] \notin Nat \ {0}}
<1> SUFFICES ASSUME T # {} PROVE FALSE
  OBVIOUS
<1>1. PICK m \in T : \A k \in T : m <= k
  <2>1. T \subseteq Nat
    OBVIOUS
  <2> HIDE DEF T
  <2> QED BY <2>1, NatMin
<1>2. m # 0
  BY <1>1, WeightIs
<1>3. m \in 1..HistoryBits /\ m - 1 \in 0..HistoryBits /\ m - 1 \notin T
  BY <1>1, <1>2, BitsAssumption
<1>4. Weight[m - 1] \in Nat \ {0} /\ Weight[m] = 2 * Weight[m - 1]
  BY <1>3, WeightIs
<1>5. PICK x : x = Weight[m - 1]
  OBVIOUS
<1>6. 2 * x \in Nat \ {0}
  BY <1>4, <1>5
<1> QED BY <1>1, <1>4, <1>5, <1>6

LEMMA DivisionIs ==
  ASSUME NEW b \in Nat \ {0}, NEW q \in Nat, NEW r \in 0..(b - 1)
  PROVE  (b * q + r) \div b = q /\ (b * q + r) % b = r
<1>1. PICK x : x = b * q + r
  OBVIOUS
<1>2. x \in Nat
  BY <1>1
<1>3. /\ x \div b \in Nat /\ x % b \in 0..(b - 1)
      /\ x = b * (x \div b) + (x % b)
  BY <1>2, Remainder
<1>4. PICK p, s : p = x \div b /\ s = x % b
  OBVIOUS
<1>5. p \in Nat /\ s \in 0..(b - 1) /\ b * q + r = b * p + s
  BY <1>1, <1>3, <1>4
<1>6. r = s
  BY <1>5, RemainderUnique
<1>7. b * q = b * p
  <2>1. PICK y, z : y = b * q /\ z = b * p
    OBVIOUS
  <2>2. y \in Nat /\ z \in Nat /\ y + r = z + r
    BY <1>5, <1>6, <2>1
  <2>3. y = z
    BY <2>2
  <2> QED BY <2>1, <2>3
<1>8. q = p
  BY <1>5, <1>7, QuotientUnique
<1> QED BY <1>1, <1>4, <1>6, <1>8

LEMMA WeightSum ==
  ASSUME NEW i \in 0..HistoryBits, NEW j \in 0..HistoryBits, i + j <= HistoryBits
  PROVE  Weight[i + j] = Weight[i] * Weight[j]
<1> DEFINE T == {k \in 0..j : Weight[i + k] # Weight[i] * Weight[k]}
<1> SUFFICES ASSUME T # {} PROVE FALSE
  <2>1. j \in 0..j
    OBVIOUS
  <2> QED BY <2>1
<1>1. PICK m \in T : \A k \in T : m <= k
  <2>1. T \subseteq Nat
    OBVIOUS
  <2> HIDE DEF T
  <2> QED BY <2>1, NatMin
<1>2. m # 0
  <2>1. Weight[i] \in Nat /\ Weight[0] = 1 /\ i + 0 = i
    BY WeightIs, WeightType
  <2>2. PICK x : x = Weight[i]
    OBVIOUS
  <2>3. x * 1 = x
    BY <2>1, <2>2
  <2> QED BY <1>1, <2>1, <2>2, <2>3
<1>3. /\ m \in 1..HistoryBits /\ i + m \in 1..HistoryBits /\ m - 1 \notin T /\ m - 1 \in 0..j
      /\ m - 1 \in 0..HistoryBits /\ (i + m) - 1 = i + (m - 1)
  BY <1>1, <1>2, BitsAssumption
<1>4. /\ Weight[m] = 2 * Weight[m - 1] /\ Weight[i + m] = 2 * Weight[i + (m - 1)]
      /\ Weight[i + (m - 1)] = Weight[i] * Weight[m - 1]
      /\ Weight[i] \in Nat /\ Weight[m - 1] \in Nat
  BY <1>3, WeightIs, WeightType
<1>5. PICK x, y : x = Weight[i] /\ y = Weight[m - 1]
  OBVIOUS
<1>6. 2 * (x * y) = x * (2 * y)
  BY <1>4, <1>5
<1> QED BY <1>1, <1>4, <1>5, <1>6

LEMMA DivideTwice ==
  ASSUME NEW a \in Nat \ {0}, NEW b \in Nat \ {0}, NEW x \in Nat
  PROVE  x \div (a * b) = (x \div a) \div b
<1>1. PICK q, r : q = x \div a /\ r = x % a
  OBVIOUS
<1>2. q \in Nat /\ r \in 0..(a - 1) /\ x = a * q + r
  BY <1>1, Remainder
<1>3. PICK s, t : s = q \div b /\ t = q % b
  OBVIOUS
<1>4. s \in Nat /\ t \in 0..(b - 1) /\ q = b * s + t
  BY <1>2, <1>3, Remainder
<1>5. PICK c : c = a * b
  OBVIOUS
<1>6. c \in Nat \ {0}
  BY <1>5
<1>7. x = c * s + (a * t + r)
  BY <1>2, <1>4, <1>5
<1>8. a * t + r \in 0..(c - 1)
  <2>1. a * t <= a * (b - 1)
    BY <1>4
  <2>2. a * (b - 1) = c - a
    BY <1>5
  <2>3. PICK y : y = a * t
    OBVIOUS
  <2>4. y \in Nat
    BY <1>4, <2>3
  <2>5. y <= c - a
    BY <2>1, <2>2, <2>3
  <2>6. y + r \in 0..(c - 1)
    BY <1>2, <1>6, <2>4, <2>5
  <2> QED BY <2>3, <2>6
<1>9. x \div c = s
  BY <1>4, <1>6, <1>7, <1>8, DivisionIs
<1> QED BY <1>1, <1>3, <1>5, <1>9

(* The bits of a number *)

LEMMA BitsType ==
  ASSUME NEW v
  PROVE  /\ Bits(v) \subseteq 0..(HistoryBits - 1) /\ IsFiniteSet(Bits(v))
         /\ BitCount(v) \in Nat
<1>1. IsFiniteSet(0..(HistoryBits - 1))
  BY BitsAssumption, FS_Interval
<1>2. Bits(v) \subseteq 0..(HistoryBits - 1)
  BY DEF Bits
<1>3. IsFiniteSet(Bits(v))
  BY <1>1, <1>2, FS_Subset
<1> QED BY <1>2, <1>3, FS_CardinalityType DEF BitCount

(* The bits from the d-th on are those of the number without the others.    *)
LEMMA HighBits ==
  ASSUME NEW v \in Nat, NEW d \in 0..HistoryBits, NEW i \in d..HistoryBits
  PROVE  v \div Weight[i] = (v \div Weight[d]) \div Weight[i - d]
<1>1. i - d \in 0..HistoryBits /\ i \in 0..HistoryBits /\ d + (i - d) = i
  BY BitsAssumption
<1>2. Weight[i] = Weight[d] * Weight[i - d]
  BY <1>1, WeightSum
<1> QED BY <1>1, <1>2, WeightType, DivideTwice

(* The bits below the d-th are those of the remainder.                      *)
LEMMA LowBits ==
  ASSUME NEW d \in 0..HistoryBits, NEW i \in 0..(d - 1), NEW m \in Nat, NEW r \in Nat
  PROVE  ((Weight[d] * m + r) \div Weight[i]) % 2 = (r \div Weight[i]) % 2
<1>1. /\ i \in 0..HistoryBits /\ d - i \in 1..HistoryBits /\ (d - i) - 1 \in 0..HistoryBits
      /\ d - i \in 0..HistoryBits /\ i + (d - i) = d
  BY BitsAssumption
<1>2. Weight[d] = Weight[i] * Weight[d - i] /\ Weight[d - i] = 2 * Weight[(d - i) - 1]
  BY <1>1, WeightSum, WeightIs
<1>3. PICK a, b : a = Weight[i] /\ b = Weight[(d - i) - 1]
  OBVIOUS
<1>4. a \in Nat \ {0} /\ b \in Nat /\ Weight[d] = a * (2 * b)
  BY <1>1, <1>2, <1>3, WeightType
<1>5. PICK q, s : q = r \div a /\ s = r % a
  OBVIOUS
<1>6. q \in Nat /\ s \in 0..(a - 1) /\ r = a * q + s
  BY <1>4, <1>5, Remainder
<1>7. PICK n : n = b * m
  OBVIOUS
<1>8. n \in Nat
  BY <1>4, <1>7
<1>9. (a * (2 * b)) * m + r = a * (2 * n + q) + s
  BY <1>4, <1>6, <1>7
<1>10. 2 * n + q \in Nat
  BY <1>6, <1>8
<1>11. (a * (2 * n + q) + s) \div a = 2 * n + q
  BY <1>4, <1>6, <1>10, DivisionIs
<1>12. (2 * n + q) % 2 = q % 2
  BY <1>6, <1>8
<1> QED BY <1>3, <1>4, <1>5, <1>9, <1>11, <1>12

LEMMA SettingBit ==
  ASSUME NEW v \in Nat, NEW d \in 0..(HistoryBits - 1), (v \div Weight[d]) % 2 = 0
  PROVE  Bits(v + Weight[d]) = Bits(v) \cup {d} /\ d \notin Bits(v)
<1>1. d \in 0..HistoryBits /\ d + 1 \in 0..HistoryBits /\ HistoryBits \in Nat
  BY BitsAssumption
<1>2. PICK a : a = Weight[d]
  OBVIOUS
<1>3. a \in Nat \ {0}
  BY <1>1, <1>2, WeightType
<1>4. PICK q, r : q = v \div a /\ r = v % a
  OBVIOUS
<1>5. q \in Nat /\ r \in 0..(a - 1) /\ v = a * q + r /\ q % 2 = 0
  BY <1>2, <1>3, <1>4, Remainder
<1>6. PICK w : w = v + a
  OBVIOUS
<1>7. w \in Nat /\ w = a * (q + 1) + r /\ q + 1 \in Nat
  BY <1>3, <1>5, <1>6
<1>8. w \div a = q + 1
  BY <1>3, <1>5, <1>7, DivisionIs
<1>9. (q + 1) % 2 = 1 /\ (q + 1) \div 2 = q \div 2
  BY <1>5
<1>10. ASSUME NEW i \in 0..(HistoryBits - 1), i < d
       PROVE  (w \div Weight[i]) % 2 = (v \div Weight[i]) % 2
  <2>1. i \in 0..(d - 1) /\ r \in Nat
    BY <1>5, <1>10
  <2> QED BY <1>1, <1>2, <1>5, <1>7, <2>1, LowBits
<1>11. ASSUME NEW i \in 0..(HistoryBits - 1), i > d
       PROVE  w \div Weight[i] = v \div Weight[i]
  <2>1. /\ i \in d..HistoryBits /\ i - d \in 1..HistoryBits /\ (i - d) - 1 \in 0..HistoryBits
    BY <1>1, <1>11
  <2>2. PICK b : b = Weight[(i - d) - 1]
    OBVIOUS
  <2>3. Weight[i - d] = 2 * b /\ b \in Nat \ {0}
    BY <2>1, <2>2, WeightIs, WeightType
  <2>4. v \div Weight[i] = q \div (2 * b) /\ w \div Weight[i] = (q + 1) \div (2 * b)
    BY <1>1, <1>2, <1>4, <1>5, <1>7, <1>8, <2>1, <2>3, HighBits
  <2>5. q \div (2 * b) = (q \div 2) \div b /\ (q + 1) \div (2 * b) = ((q + 1) \div 2) \div b
    BY <1>5, <1>7, <2>3, DivideTwice
  <2> QED BY <1>9, <2>4, <2>5
<1>12. d \notin Bits(v)
  BY DEF Bits
<1>13. ASSUME NEW i \in 0..(HistoryBits - 1) PROVE i \in Bits(w) <=> i \in Bits(v) \cup {d}
  <2>1. CASE i < d
    BY <1>10, <2>1 DEF Bits
  <2>2. CASE i > d
    BY <1>11, <2>2 DEF Bits
  <2>3. CASE i = d
    BY <1>2, <1>8, <1>9, <2>3 DEF Bits
  <2> QED BY <1>1, <2>1, <2>2, <2>3
<1>14. Bits(w) = Bits(v) \cup {d}
  BY <1>13 DEF Bits
<1> QED BY <1>2, <1>6, <1>12, <1>14

(* Adding one power of two adds at most one bit.                            *)
LEMMA AddingWeight ==
  ASSUME NEW d \in 0..HistoryBits, NEW v \in Nat
  PROVE  BitCount(v + Weight[d]) <= BitCount(v) + 1
<1> DEFINE Good(k) == \A x \in Nat : BitCount(x + Weight[HistoryBits - k]) <= BitCount(x) + 1
           T == {k \in 0..HistoryBits : ~Good(k)}
<1>1. HistoryBits \in Nat
  BY BitsAssumption
<1>2. T = {}
  <2> SUFFICES ASSUME T # {} PROVE FALSE
    OBVIOUS
  <2>1. PICK m \in T : \A k \in T : m <= k
    <3>1. T \subseteq Nat
      OBVIOUS
    <3> HIDE DEF T
    <3> QED BY <3>1, NatMin
  <2>2. m # 0
    <3> SUFFICES ASSUME NEW x \in Nat PROVE BitCount(x + Weight[HistoryBits]) <= BitCount(x) + 1
      BY <1>1, <2>1
    <3>1. ASSUME NEW i \in 0..(HistoryBits - 1)
          PROVE  ((x + Weight[HistoryBits]) \div Weight[i]) % 2 = (x \div Weight[i]) % 2
      <4>1. PICK a : a = Weight[HistoryBits]
        OBVIOUS
      <4>2. a \in Nat
        BY <1>1, <4>1, WeightType
      <4>3. a * 1 + x = x + a
        BY <4>2
      <4>4. ((a * 1 + x) \div Weight[i]) % 2 = (x \div Weight[i]) % 2
        BY <1>1, <4>1, LowBits
      <4> QED BY <4>1, <4>3, <4>4
    <3>2. Bits(x + Weight[HistoryBits]) = Bits(x)
      BY <3>1 DEF Bits
    <3>3. BitCount(x) \in Nat /\ BitCount(x + Weight[HistoryBits]) = BitCount(x)
      BY <3>2, BitsType DEF BitCount
    <3> QED BY <3>3
  <2>3. m - 1 \in 0..HistoryBits /\ Good(m - 1)
    BY <1>1, <2>1, <2>2
  <2>4. PICK e : e = HistoryBits - m
    OBVIOUS
  <2>5. /\ e \in 0..(HistoryBits - 1) /\ e + 1 \in 1..HistoryBits /\ HistoryBits - (m - 1) = e + 1
        /\ e \in 0..HistoryBits /\ (e + 1) - 1 = e
    BY <1>1, <2>1, <2>2, <2>4
  <2>6. PICK a : a = Weight[e]
    OBVIOUS
  <2>7. a \in Nat \ {0} /\ Weight[e + 1] = 2 * a
    BY <2>5, <2>6, WeightIs, WeightType
  <2>8. \A x \in Nat : BitCount(x + 2 * a) <= BitCount(x) + 1
    BY <2>3, <2>5, <2>7
  <2>9. ASSUME NEW x \in Nat PROVE BitCount(x + a) <= BitCount(x) + 1
    <3>1. PICK q, r : q = x \div a /\ r = x % a
      OBVIOUS
    <3>2. q \in Nat /\ r \in 0..(a - 1) /\ x = a * q + r
      BY <2>7, <3>1, Remainder
    <3>3. CASE q % 2 = 0
      <4>1. Bits(x + a) = Bits(x) \cup {e} /\ e \notin Bits(x)
        BY <2>5, <2>6, <3>1, <3>3, SettingBit
      <4>2. BitCount(x + a) = BitCount(x) + 1 /\ BitCount(x) \in Nat
        BY <4>1, BitsType, FS_AddElement DEF BitCount
      <4> QED BY <4>2
    <3>4. CASE q % 2 = 1
      <4>1. q >= 1 /\ q - 1 \in Nat /\ (q - 1) % 2 = 0
        BY <3>2, <3>4
      <4>2. PICK u : u = a * (q - 1) + r
        OBVIOUS
      <4>3. u \in Nat /\ x = u + a /\ x + a = u + 2 * a
        BY <2>7, <3>2, <4>1, <4>2
      <4>4. u \div a = q - 1
        BY <2>7, <3>2, <4>1, <4>2, DivisionIs
      <4>5. Bits(x) = Bits(u) \cup {e} /\ e \notin Bits(u)
        BY <2>5, <2>6, <4>1, <4>3, <4>4, SettingBit
      <4>6. BitCount(x) = BitCount(u) + 1 /\ BitCount(u) \in Nat /\ BitCount(x) \in Nat
        BY <4>5, BitsType, FS_AddElement DEF BitCount
      <4>7. BitCount(x + a) <= BitCount(u) + 1 /\ BitCount(x + a) \in Nat
        BY <2>8, <4>3, BitsType
      <4> QED BY <4>6, <4>7
    <3> QED BY <3>2, <3>3, <3>4
  <2> QED BY <2>1, <2>4, <2>6, <2>9
<1>3. HistoryBits - d \in 0..HistoryBits /\ HistoryBits - (HistoryBits - d) = d
  BY <1>1
<1> QED BY <1>2, <1>3

(* A number other than 0 has a bit.                                         *)
LEMMA SomeBit ==
  ASSUME NEW d \in 0..HistoryBits, NEW r \in 1..(Weight[d] - 1)
  PROVE  \E i \in 0..(d - 1) : (r \div Weight[i]) % 2 = 1
<1> DEFINE T == {i \in 0..d : r % Weight[i] # 0}
<1>1. r \in Nat /\ r < Weight[d] /\ r # 0 /\ Weight[d] \in Nat \ {0}
  BY WeightType
<1>2. d \in T
  <2>1. PICK x : x = Weight[d]
    OBVIOUS
  <2>2. r = x * 0 + r /\ r \in 0..(x - 1) /\ x \in Nat \ {0}
    BY <1>1, <2>1
  <2>3. (x * 0 + r) % x = r
    BY <2>2, DivisionIs
  <2> QED BY <1>1, <2>1, <2>2, <2>3
<1>3. PICK m \in T : \A k \in T : m <= k
  <2>1. T \subseteq Nat /\ T # {}
    BY <1>2
  <2> HIDE DEF T
  <2> QED BY <2>1, NatMin
<1>4. m # 0
  BY <1>1, <1>3, WeightIs
<1>5. /\ m - 1 \in 0..(d - 1) /\ m - 1 \notin T /\ m - 1 \in 0..HistoryBits
      /\ m \in 1..HistoryBits /\ m - 1 \in 0..d /\ r % Weight[m] # 0
  BY <1>3, <1>4, BitsAssumption
<1>6. PICK a : a = Weight[m - 1]
  OBVIOUS
<1>7. a \in Nat \ {0} /\ Weight[m] = 2 * a /\ r % a = 0
  BY <1>5, <1>6, WeightIs, WeightType
<1>8. PICK q : q = r \div a
  OBVIOUS
<1>9. q \in Nat /\ r = a * q
  <2>1. q \in Nat /\ r = a * q + (r % a)
    BY <1>1, <1>7, <1>8, Remainder
  <2>2. PICK y : y = a * q
    OBVIOUS
  <2>3. r = y + 0 /\ y \in Nat
    BY <1>7, <2>1, <2>2
  <2> QED BY <2>1, <2>2, <2>3
<1>10. CASE q % 2 = 0
  <2>1. PICK s \in Nat : q = 2 * s
    BY <1>9, <1>10
  <2>2. PICK b : b = 2 * a
    OBVIOUS
  <2>3. r = b * s + 0 /\ b \in Nat \ {0} /\ 0 \in 0..(b - 1)
    BY <1>7, <1>9, <2>1, <2>2
  <2>4. r % b = 0
    BY <2>3, DivisionIs
  <2> QED BY <1>5, <1>7, <2>2, <2>4
<1>11. CASE q % 2 = 1
  BY <1>5, <1>6, <1>8, <1>11
<1> QED BY <1>9, <1>10, <1>11

LEMMA HistoriesAre ==
  /\ Top \in Nat \ {0} /\ 2 * Top = Weight[HistoryBits] /\ Weight[HistoryBits] \in Nat \ {0}
  /\ Histories = 0..(Weight[HistoryBits] - 1)
<1>1. HistoryBits \in 1..HistoryBits /\ HistoryBits - 1 \in 0..HistoryBits
      /\ HistoryBits \in 0..HistoryBits
  BY BitsAssumption
<1> QED BY <1>1, WeightIs, WeightType DEF Top, Histories

(* What is left of the bits of a number without those below the d-th.       *)
LEMMA ClearedBits ==
  ASSUME NEW v \in Nat, NEW d \in 0..HistoryBits
  PROVE  Bits(Weight[d] * (v \div Weight[d])) = {i \in Bits(v) : i >= d}
<1>1. PICK a : a = Weight[d]
  OBVIOUS
<1>2. a \in Nat \ {0} /\ HistoryBits \in Nat
  BY <1>1, BitsAssumption, WeightType
<1>3. PICK k : k = v \div a
  OBVIOUS
<1>4. k \in Nat
  BY <1>2, <1>3, Remainder
<1>5. PICK x : x = a * k
  OBVIOUS
<1>6. x \in Nat /\ x = a * k + 0 /\ 0 \in 0..(a - 1)
  BY <1>2, <1>4, <1>5
<1>7. x \div a = k
  BY <1>2, <1>4, <1>6, DivisionIs
<1>8. ASSUME NEW i \in 0..(HistoryBits - 1), i >= d PROVE x \div Weight[i] = v \div Weight[i]
  <2>1. i \in d..HistoryBits
    BY <1>2, <1>8
  <2> QED BY <1>1, <1>3, <1>6, <1>7, <2>1, HighBits
<1>9. ASSUME NEW i \in 0..(HistoryBits - 1), i < d PROVE (x \div Weight[i]) % 2 = 0
  <2>1. i \in 0..(d - 1) /\ i \in 0..HistoryBits
    BY <1>2, <1>9
  <2>2. (x \div Weight[i]) % 2 = (0 \div Weight[i]) % 2
    BY <1>1, <1>4, <1>6, <2>1, LowBits
  <2>3. PICK b : b = Weight[i]
    OBVIOUS
  <2>4. b \in Nat \ {0} /\ 0 = b * 0 + 0 /\ 0 \in 0..(b - 1)
    BY <2>1, <2>3, WeightType
  <2>5. 0 \div b = 0
    BY <2>4
  <2> QED BY <2>2, <2>3, <2>5
<1>10. ASSUME NEW i \in 0..(HistoryBits - 1) PROVE i \in Bits(x) <=> i \in Bits(v) /\ i >= d
  <2>1. CASE i >= d
    BY <1>8, <2>1 DEF Bits
  <2>2. CASE ~(i >= d)
    BY <1>2, <1>9, <2>2 DEF Bits
  <2> QED BY <2>1, <2>2
<1>11. Bits(x) = {i \in Bits(v) : i >= d}
  BY <1>10 DEF Bits
<1> QED BY <1>1, <1>3, <1>5, <1>11

(* Rounding up takes at least as many bits away as it adds.                 *)
LEMMA RoundingBits ==
  ASSUME NEW v \in Nat, NEW d \in 0..HistoryBits
  PROVE  /\ BitCount(Weight[d] * (v \div Weight[d])) <= BitCount(v)
         /\ v % Weight[d] # 0 =>
              BitCount(Weight[d] * (v \div Weight[d] + 1)) <= BitCount(v)
<1>1. PICK a : a = Weight[d]
  OBVIOUS
<1>2. a \in Nat \ {0} /\ HistoryBits \in Nat
  BY <1>1, BitsAssumption, WeightType
<1>3. PICK k, r : k = v \div a /\ r = v % a
  OBVIOUS
<1>4. k \in Nat /\ r \in 0..(a - 1) /\ v = a * k + r
  BY <1>2, <1>3, Remainder
<1>5. PICK x : x = a * k
  OBVIOUS
<1>6. x \in Nat /\ a * (k + 1) = x + a
  BY <1>2, <1>4, <1>5
<1>7. Bits(x) = {i \in Bits(v) : i >= d}
  BY <1>1, <1>3, <1>5, ClearedBits
<1>8. /\ IsFiniteSet(Bits(v)) /\ BitCount(v) \in Nat /\ BitCount(x) \in Nat
      /\ IsFiniteSet(Bits(x)) /\ BitCount(x + a) \in Nat
  BY BitsType
<1>9. BitCount(x) <= BitCount(v)
  BY <1>7, <1>8, FS_Subset DEF BitCount
<1>10. ASSUME r # 0 PROVE BitCount(x + a) <= BitCount(v)
  <2>1. PICK i \in 0..(d - 1) : (r \div Weight[i]) % 2 = 1
    BY <1>1, <1>4, <1>10, SomeBit
  <2>2. i \in 0..(HistoryBits - 1) /\ ~(i >= d) /\ r \in Nat
    BY <1>2, <1>4, <2>1
  <2>3. (v \div Weight[i]) % 2 = 1
    BY <1>1, <1>4, <2>1, <2>2, LowBits
  <2>4. i \in Bits(v) /\ i \notin Bits(x)
    BY <1>7, <2>2, <2>3 DEF Bits
  <2>5. Bits(x) \cup {i} \subseteq Bits(v)
    BY <1>7, <2>4
  <2>6. Cardinality(Bits(x) \cup {i}) = BitCount(x) + 1
    BY <1>8, <2>4, FS_AddElement DEF BitCount
  <2>7. Cardinality(Bits(x) \cup {i}) <= BitCount(v)
    BY <1>8, <2>5, FS_Subset DEF BitCount
  <2>8. BitCount(x + a) <= BitCount(x) + 1
    BY <1>1, <1>6, AddingWeight
  <2> QED BY <1>8, <2>6, <2>7, <2>8
<1> QED BY <1>1, <1>3, <1>5, <1>6, <1>9, <1>10

LEMMA OnesBelow ==
  ASSUME NEW n \in 0..HistoryBits, NEW i \in 0..(n - 1)
  PROVE  ((Weight[n] - 1) \div Weight[i]) % 2 = 1
<1>1. /\ i \in 0..HistoryBits /\ n - i \in 1..HistoryBits /\ (n - i) - 1 \in 0..HistoryBits
      /\ n - i \in 0..HistoryBits /\ i + (n - i) = n
  BY BitsAssumption
<1>2. Weight[n] = Weight[i] * Weight[n - i] /\ Weight[n - i] = 2 * Weight[(n - i) - 1]
  BY <1>1, WeightSum, WeightIs
<1>3. PICK a, b : a = Weight[i] /\ b = Weight[(n - i) - 1]
  OBVIOUS
<1>4. a \in Nat \ {0} /\ b \in Nat \ {0} /\ Weight[n] = a * (2 * b)
  BY <1>1, <1>2, <1>3, WeightType
<1>5. (a * (2 * b)) - 1 = a * (2 * b - 1) + (a - 1) /\ 2 * b - 1 \in Nat /\ a - 1 \in 0..(a - 1)
  BY <1>4
<1>6. (a * (2 * b - 1) + (a - 1)) \div a = 2 * b - 1
  BY <1>4, <1>5, DivisionIs
<1>7. (2 * b - 1) % 2 = 1
  BY <1>4
<1> QED BY <1>3, <1>4, <1>5, <1>6, <1>7

(* What overflows when it is rounded up has all of the upper bits, and one  *)
(* of the others.                                                           *)
LEMMA OverflowBits ==
  ASSUME NEW v \in Histories, NEW d \in 0..HistoryBits, v % Weight[d] # 0,
         Weight[d] * (v \div Weight[d] + 1) >= Weight[HistoryBits]
  PROVE  BitCount(v) >= (HistoryBits - d) + 1
<1>1. PICK a : a = Weight[d]
  OBVIOUS
<1>2. a \in Nat \ {0} /\ HistoryBits \in Nat /\ v \in Nat /\ v < Weight[HistoryBits]
  BY <1>1, BitsAssumption, WeightType, HistoriesAre
<1>3. PICK k, r : k = v \div a /\ r = v % a
  OBVIOUS
<1>4. k \in Nat /\ r \in 0..(a - 1) /\ v = a * k + r /\ r # 0
  BY <1>1, <1>2, <1>3, Remainder
<1>5. PICK n : n = HistoryBits - d
  OBVIOUS
<1>6. n \in 0..HistoryBits /\ d + n = HistoryBits
  BY <1>2, <1>5
<1>7. PICK b : b = Weight[n]
  OBVIOUS
<1>8. b \in Nat \ {0} /\ Weight[HistoryBits] = a * b
  <2>1. Weight[d + n] = Weight[d] * Weight[n]
    BY <1>6, WeightSum, BitsAssumption
  <2> QED BY <1>1, <1>6, <1>7, <2>1, WeightType
<1>9. k = b - 1
  <2>1. CASE k >= b
    <3>1. a * k >= a * b
      BY <1>2, <1>4, <1>8, <2>1
    <3>2. PICK x, y : x = a * k /\ y = a * b
      OBVIOUS
    <3>3. x \in Nat /\ y \in Nat /\ x >= y /\ x + r < y
      BY <1>2, <1>4, <1>8, <3>1, <3>2
    <3> QED BY <1>4, <3>3
  <2>2. CASE k + 2 <= b
    <3>1. a * (k + 2) <= a * b
      BY <1>2, <1>4, <1>8, <2>2
    <3>2. PICK x, y : x = a * (k + 1) /\ y = a * b
      OBVIOUS
    <3>3. x \in Nat /\ y \in Nat /\ a * (k + 2) = x + a /\ x >= y
      <4>1. x >= y
        BY <1>1, <1>3, <1>8, <3>2
      <4> QED BY <1>2, <1>4, <1>8, <3>2, <4>1
    <3>4. x + a <= y
      BY <3>1, <3>2, <3>3
    <3> QED BY <1>2, <3>3, <3>4
  <2> QED BY <1>4, <1>8, <2>1, <2>2
<1>10. ASSUME NEW i \in d..(HistoryBits - 1) PROVE i \in Bits(v)
  <2>1. i \in d..HistoryBits /\ i - d \in 0..(n - 1) /\ i \in 0..(HistoryBits - 1)
    BY <1>2, <1>5
  <2>2. v \div Weight[i] = k \div Weight[i - d]
    BY <1>1, <1>2, <1>3, <2>1, HighBits
  <2>3. ((b - 1) \div Weight[i - d]) % 2 = 1
    BY <1>6, <1>7, <2>1, OnesBelow
  <2> QED BY <1>9, <2>1, <2>2, <2>3 DEF Bits
<1>11. PICK j \in 0..(d - 1) : (r \div Weight[j]) % 2 = 1
  BY <1>1, <1>4, SomeBit
<1>12. j \in 0..(HistoryBits - 1) /\ j \notin d..(HistoryBits - 1) /\ r \in Nat
  BY <1>2, <1>4, <1>11
<1>13. (v \div Weight[j]) % 2 = 1
  BY <1>1, <1>4, <1>11, <1>12, LowBits
<1>14. j \in Bits(v)
  BY <1>12, <1>13 DEF Bits
<1>15. d..(HistoryBits - 1) \cup {j} \subseteq Bits(v)
  BY <1>10, <1>14
<1>16. IsFiniteSet(d..(HistoryBits - 1)) /\ Cardinality(d..(HistoryBits - 1)) = n
  <2>1. d \in Int /\ HistoryBits - 1 \in Int
    BY <1>2
  <2>2. /\ IsFiniteSet(d..(HistoryBits - 1))
        /\ Cardinality(d..(HistoryBits - 1)) = IF d > HistoryBits - 1 THEN 0
                                               ELSE (HistoryBits - 1) - d + 1
    BY <2>1, FS_Interval
  <2> QED BY <1>2, <1>5, <1>6, <2>2
<1>17. Cardinality(d..(HistoryBits - 1) \cup {j}) = n + 1
  BY <1>12, <1>16, FS_AddElement
<1>18. IsFiniteSet(Bits(v)) /\ BitCount(v) \in Nat
  BY BitsType
<1>19. Cardinality(d..(HistoryBits - 1) \cup {j}) <= BitCount(v)
  BY <1>15, <1>18, FS_Subset DEF BitCount
<1> QED BY <1>5, <1>17, <1>19

(* No number passes the threshold on its way through a float that did not   *)
(* pass it before.                                                          *)
LEMMA FloatAddsNothing ==
  ASSUME NEW v \in Histories, BitCount(Integer(Float(v))) > CutBits
  PROVE  BitCount(v) > CutBits
<1> DEFINE S == {i \in 0..(HistoryBits - 1) : v >= Weight[i]}
<1>1. PICK digits : digits = Cardinality(S)
  OBVIOUS
<1>2. HistoryBits \in Nat \ {0} /\ MantissaBits \in 1..HistoryBits /\ CutBits \in 0..MantissaBits
  BY BitsAssumption
<1>3. digits \in 0..HistoryBits
  <2>1. IsFiniteSet(0..(HistoryBits - 1)) /\ Cardinality(0..(HistoryBits - 1)) = HistoryBits
    <3>1. 0 \in Int /\ HistoryBits - 1 \in Int
      BY <1>2
    <3>2. /\ IsFiniteSet(0..(HistoryBits - 1))
          /\ Cardinality(0..(HistoryBits - 1)) = IF 0 > HistoryBits - 1 THEN 0
                                                 ELSE (HistoryBits - 1) - 0 + 1
      BY <3>1, FS_Interval
    <3> QED BY <1>2, <3>2
  <2>2. S \subseteq 0..(HistoryBits - 1)
    OBVIOUS
  <2> HIDE DEF S
  <2>3. Cardinality(S) <= HistoryBits /\ Cardinality(S) \in Nat
    BY <2>1, <2>2, FS_Subset, FS_CardinalityType
  <2> QED BY <1>1, <1>2, <2>3
<1>4. PICK unit : unit = IF digits > MantissaBits THEN Weight[digits - MantissaBits] ELSE 1
  OBVIOUS
<1>5. PICK kept, rest : kept = v \div unit /\ rest = v % unit
  OBVIOUS
<1> DEFINE up == \/ 2 * rest > unit
                 \/ 2 * rest = unit /\ kept % 2 = 1
<1>7. Float(v) = (kept + (IF up /\ unit > 1 THEN 1 ELSE 0)) * unit
  BY <1>1, <1>4, <1>5, Zenon DEF Float
<1>8. v \in Nat /\ v < Weight[HistoryBits] /\ Weight[HistoryBits] \in Nat \ {0}
      /\ 2 * Top = Weight[HistoryBits]
  BY HistoriesAre
<1>9. PICK d : d = IF digits > MantissaBits THEN digits - MantissaBits ELSE 0
  OBVIOUS
<1>10. d \in 0..HistoryBits /\ HistoryBits - d >= MantissaBits /\ unit = Weight[d]
       /\ unit \in Nat \ {0}
  BY <1>2, <1>3, <1>4, <1>9, WeightIs, WeightType
<1>11. kept \in Nat /\ rest \in 0..(unit - 1) /\ v = unit * kept + rest
  BY <1>5, <1>8, <1>10, Remainder
<1>12. BitCount(v) \in Nat
  BY BitsType
<1>13. CASE ~(up /\ unit > 1)
  <2>1. Float(v) = unit * kept
    <3>1. kept + 0 = kept /\ kept * unit = unit * kept
      BY <1>10, <1>11
    <3> QED BY <1>7, <1>13, <3>1
  <2>2. PICK x : x = unit * kept
    OBVIOUS
  <2>3. x \in Nat /\ x <= v
    BY <1>10, <1>11, <2>2
  <2>4. Integer(x) = x
    BY <1>8, <2>3 DEF Integer
  <2>5. BitCount(x) <= BitCount(v)
    BY <1>5, <1>8, <1>10, <2>2, RoundingBits
  <2>6. BitCount(x) > CutBits /\ BitCount(x) \in Nat
    BY <2>1, <2>2, <2>4, BitsType
  <2> QED BY <1>2, <1>12, <2>5, <2>6
<1>14. CASE up /\ unit > 1
  <2>1. rest # 0
    BY <1>10, <1>11, <1>14
  <2>2. Float(v) = unit * (kept + 1)
    <3>1. (kept + 1) * unit = unit * (kept + 1)
      BY <1>10, <1>11
    <3> QED BY <1>7, <1>14, <3>1
  <2>3. PICK x : x = unit * (kept + 1)
    OBVIOUS
  <2>4. x \in Nat
    BY <1>10, <1>11, <2>3
  <2>5. CASE x >= Weight[HistoryBits]
    <3>1. BitCount(v) >= (HistoryBits - d) + 1
      BY <1>5, <1>10, <2>1, <2>3, <2>5, OverflowBits
    <3> QED BY <1>2, <1>10, <1>12, <3>1
  <2>6. CASE ~(x >= Weight[HistoryBits])
    <3>1. Integer(x) = x
      BY <1>8, <2>6 DEF Integer
    <3>2. BitCount(x) <= BitCount(v)
      BY <1>5, <1>8, <1>10, <2>1, <2>3, RoundingBits
    <3>3. BitCount(x) > CutBits /\ BitCount(x) \in Nat
      BY <2>2, <2>3, <3>1, BitsType
    <3> QED BY <1>2, <1>12, <3>2, <3>3
  <2> QED BY <2>5, <2>6
<1> QED BY <1>13, <1>14

-----------------------------------------------------------------------------
(* MotionVectors: the inductive invariant *)

(* Frames that the histories know of, all of them once there have been      *)
(* enough.                                                                  *)
Seen == IF updates < HistoryBits THEN updates ELSE HistoryBits

(* A history is that of the frames that were seen, above what is left of    *)
(* what was in the memory before.                                           *)
Agrees(history, seen, n) ==
  /\ seen <= history /\ history < seen + Weight[HistoryBits - n]
  /\ seen % Weight[HistoryBits - n] = 0

VectorInv ==
  /\ VectorTypeOK
  /\ enabled => EnabledAfter(updates)
  /\ CoolingDown >= HistoryBits - 1 => \A p \in Points : Agrees(candidate[p], moved[p], Seen)
  /\ \A p \in image : BitCount(Integer(Float(candidate[p]))) > CutBits

LEMMA ShiftedHalf ==
  ASSUME NEW v \in Histories, NEW top \in {0, Top}
  PROVE  v \div 2 + top \in Histories
<1>1. PICK t : t = Top
  OBVIOUS
<1>2. t \in Nat /\ v \in Nat /\ v < 2 * t /\ Histories = 0..(2 * t - 1) /\ top \in {0, t}
  BY <1>1, HistoriesAre
<1>3. v \div 2 \in Nat /\ v \div 2 < t
  BY <1>2
<1>4. PICK h : h = v \div 2
  OBVIOUS
<1>5. h + top \in 0..(2 * t - 1)
  BY <1>2, <1>3, <1>4
<1> QED BY <1>2, <1>4, <1>5

LEMMA ShiftingAgrees ==
  ASSUME NEW n \in 0..HistoryBits, NEW c \in Histories, NEW m \in Histories,
         Agrees(c, m, n), NEW top \in {0, Top}
  PROVE  Agrees(c \div 2 + top, m \div 2 + top, IF n < HistoryBits THEN n + 1 ELSE HistoryBits)
<1>1. HistoryBits \in Nat \ {0} /\ c \in Nat /\ m \in Nat /\ Top \in Nat \ {0}
  BY BitsAssumption, HistoriesAre
<1>2. CASE n = HistoryBits
  <2>1. HistoryBits - n = 0 /\ HistoryBits - HistoryBits = 0 /\ Weight[0] = 1
    BY <1>1, <1>2, WeightIs
  <2>2. m <= c /\ c < m + 1
    BY <2>1 DEF Agrees
  <2>3. c = m
    BY <1>1, <2>2
  <2>4. PICK x : x = m \div 2 + top
    OBVIOUS
  <2>5. x \in Nat
    BY <1>1, <2>4
  <2>6. x <= x /\ x < x + 1 /\ x % 1 = 0
    BY <2>5
  <2> QED BY <1>1, <1>2, <2>1, <2>3, <2>4, <2>6 DEF Agrees
<1>3. CASE n < HistoryBits
  <2>1. PICK e : e = HistoryBits - (n + 1)
    OBVIOUS
  <2>2. /\ e \in 0..HistoryBits /\ HistoryBits - n = e + 1 /\ e + 1 \in 1..HistoryBits
        /\ (e + 1) - 1 = e /\ n + e = HistoryBits - 1 /\ n + e <= HistoryBits
    BY <1>1, <1>3, <2>1
  <2>3. PICK b, w : b = Weight[e] /\ w = Weight[n]
    OBVIOUS
  <2>4. /\ b \in Nat \ {0} /\ w \in Nat \ {0} /\ Weight[e + 1] = 2 * b
    BY <2>2, <2>3, WeightIs, WeightType
  <2>5. Top = b * w
    <3>1. Weight[n + e] = Weight[n] * Weight[e]
      BY <2>2, WeightSum
    <3>2. w * b = b * w
      BY <2>4
    <3> QED BY <2>2, <2>3, <3>1, <3>2 DEF Top
  <2>6. m <= c /\ c < m + 2 * b /\ m % (2 * b) = 0
    BY <2>2, <2>4 DEF Agrees
  <2>7. PICK k \in Nat : m = (2 * b) * k
    <3>1. 2 * b \in Nat \ {0}
      BY <2>4
    <3>2. PICK z : z = 2 * b
      OBVIOUS
    <3>3. m \div z \in Nat /\ m = z * (m \div z) + (m % z)
      BY <1>1, <3>1, <3>2, Remainder
    <3>4. PICK q : q = m \div z
      OBVIOUS
    <3>5. m = z * q
      BY <2>6, <3>1, <3>2, <3>3, <3>4
    <3> QED BY <3>2, <3>3, <3>4, <3>5
  <2>8. PICK y : y = b * k
    OBVIOUS
  <2>9. y \in Nat /\ m = 2 * y
    BY <2>4, <2>7, <2>8
  <2>10. m \div 2 = y /\ c \div 2 \in Nat /\ y <= c \div 2 /\ c \div 2 < y + b
    BY <1>1, <2>4, <2>6, <2>9
  <2>11. (y + top) % b = 0
    <3>1. CASE top = 0
      <4>1. y + top = b * k + 0 /\ 0 \in 0..(b - 1)
        BY <2>4, <2>8, <2>9, <3>1
      <4> QED BY <2>4, <4>1, DivisionIs
    <3>2. CASE top = Top
      <4>1. PICK q : q = k + w
        OBVIOUS
      <4>2. y + top = b * q + 0 /\ 0 \in 0..(b - 1) /\ q \in Nat
        BY <2>4, <2>5, <2>7, <2>8, <3>2, <4>1
      <4>3. (b * q + 0) % b = 0
        BY <2>4, <4>2, DivisionIs
      <4> QED BY <4>2, <4>3
    <3> QED BY <3>1, <3>2
  <2>12. PICK x : x = c \div 2
    OBVIOUS
  <2>13. y + top <= x + top /\ x + top < (y + top) + b
    BY <1>1, <2>4, <2>9, <2>10, <2>12
  <2> QED BY <1>3, <2>1, <2>3, <2>10, <2>11, <2>12, <2>13 DEF Agrees
<1> QED BY <1>1, <1>2, <1>3

LEMMA VectorInitInv == VectorInit => VectorInv
<1> SUFFICES ASSUME VectorInit PROVE VectorInv
  OBVIOUS
<1>1. HistoryBits \in Nat \ {0} /\ CoolingDown \in Nat
  BY BitsAssumption
<1>2. VectorTypeOK
  <2>1. 0 \in Histories
    BY HistoriesAre
  <2>2. moved \in [Points -> Histories]
    BY <2>1 DEF VectorInit
  <2>3. updates \in 0..(CoolingDown + 1)
    BY <1>1 DEF VectorInit
  <2>4. image \subseteq Points /\ enabled \in BOOLEAN /\ candidate \in [Points -> Histories]
    BY Zenon DEF VectorInit
  <2> QED BY <2>2, <2>3, <2>4 DEF VectorTypeOK
<1>3. Seen = 0
  BY <1>1 DEF VectorInit, Seen
<1>4. ASSUME NEW p \in Points PROVE Agrees(candidate[p], moved[p], Seen)
  <2>1. PICK a, c : a = Weight[HistoryBits] /\ c = candidate[p]
    OBVIOUS
  <2>2. a \in Nat \ {0} /\ c \in 0..(a - 1) /\ moved[p] = 0
    BY <2>1, HistoriesAre DEF VectorInit
  <2>3. HistoryBits - 0 = HistoryBits
    BY <1>1
  <2>4. 0 <= c /\ c < 0 + a /\ 0 % a = 0
    BY <2>2
  <2> QED BY <1>3, <2>1, <2>2, <2>3, <2>4 DEF Agrees
<1> QED BY <1>2, <1>4 DEF VectorInit, VectorInv

LEMMA AnalyseKeeps ==
  ASSUME VectorInv, NEW now \in SUBSET Points, Analyse(now)
  PROVE  VectorInv'
<1>1. HistoryBits \in Nat \ {0} /\ CoolingDown \in Nat
  BY BitsAssumption
<1>2. /\ candidate \in [Points -> Histories] /\ moved \in [Points -> Histories]
      /\ updates \in 0..(CoolingDown + 1) /\ enabled \in BOOLEAN
  BY DEF VectorInv, VectorTypeOK
<1>3. /\ candidate' = Shifted(candidate, now) /\ moved' = Shifted(moved, now)
      /\ image' = Active(candidate') /\ enabled' = (enabled \/ EnabledAfter(updates'))
      /\ updates' = IF updates > CoolingDown THEN updates ELSE updates + 1
  BY DEF Analyse
<1>4. ASSUME NEW p \in Points
      PROVE  \E top \in {0, Top} : /\ candidate'[p] = candidate[p] \div 2 + top
                                   /\ moved'[p] = moved[p] \div 2 + top
  BY <1>3 DEF Shifted
<1>5. candidate' \in [Points -> Histories] /\ moved' \in [Points -> Histories]
  <2>1. \A p \in Points : candidate'[p] \in Histories /\ moved'[p] \in Histories
    BY <1>2, <1>4, ShiftedHalf
  <2> QED BY <1>3, <2>1 DEF Shifted
<1>6. image' \subseteq Points
  BY <1>3 DEF Active
<1>7. updates' \in 0..(CoolingDown + 1) /\ enabled' \in BOOLEAN
  BY <1>1, <1>2, <1>3
<1>8. (enabled => EnabledAfter(updates))'
  <2>1. CASE enabled
    BY <1>1, <1>2, <1>3, <2>1 DEF VectorInv, EnabledAfter
  <2>2. CASE ~enabled
    BY <1>3, <2>2
  <2> QED BY <2>1, <2>2
<1>9. ASSUME CoolingDown >= HistoryBits - 1, NEW p \in Points
      PROVE  Agrees(candidate'[p], moved'[p], Seen')
  <2>1. Seen \in 0..HistoryBits /\ Agrees(candidate[p], moved[p], Seen)
    BY <1>1, <1>2, <1>9 DEF VectorInv, Seen
  <2>2. Seen' = IF Seen < HistoryBits THEN Seen + 1 ELSE HistoryBits
    BY <1>1, <1>2, <1>3, <1>9 DEF Seen
  <2>3. candidate[p] \in Histories /\ moved[p] \in Histories
    BY <1>2
  <2>4. PICK top \in {0, Top} : /\ candidate'[p] = candidate[p] \div 2 + top
                                /\ moved'[p] = moved[p] \div 2 + top
    BY <1>4
  <2> QED BY <2>1, <2>2, <2>3, <2>4, ShiftingAgrees
<1>10. \A p \in image' : BitCount(Integer(Float(candidate'[p]))) > CutBits
  BY <1>3 DEF Active
<1>11. VectorTypeOK'
  BY <1>5, <1>6, <1>7 DEF VectorTypeOK
<1> QED BY <1>8, <1>9, <1>10, <1>11 DEF VectorInv, Agrees

LEMMA VectorInvariant == VectorSpec => []VectorInv
<1>1. VectorInv /\ [VectorNext]_vectorVars => VectorInv'
  <2> SUFFICES ASSUME VectorInv, [VectorNext]_vectorVars PROVE VectorInv'
    OBVIOUS
  <2>1. CASE VectorNext
    BY <2>1, AnalyseKeeps DEF VectorNext
  <2>2. CASE UNCHANGED vectorVars
    BY <2>2 DEF vectorVars, VectorInv, VectorTypeOK, Seen
  <2> QED BY <2>1, <2>2
<1> QED BY <1>1, VectorInitInv, PTL DEF VectorSpec

(* VectorTypeCorrect: a history stays within its bits when it is shifted    *)
(* and gets a new one (raspi_motionvector.cc:154-166), for any number of    *)
(* points and bits.                                                         *)
THEOREM VectorTypeCorrect == VectorSpec => []VectorTypeOK
<1>1. VectorInv => VectorTypeOK
  BY DEF VectorInv
<1> QED BY <1>1, VectorInvariant, PTL

(* ReportsRealMotion: what the observers are told has moved in the frames   *)
(* of this stream, whatever was in the memory of the histories and however  *)
(* the float rounds them (raspi_motionvector.cc:94-97, 161, 182-197,        *)
(* 207-218), for any numbers of points, bits and frames to wait.            *)
THEOREM ReportsRealMotion == VectorSpec => []MotionIsReal
<1>1. VectorInv => MotionIsReal
  <2> SUFFICES ASSUME VectorInv, enabled, CoolingDown >= HistoryBits - 1, NEW p \in image
               PROVE  BitCount(moved[p]) > CutBits
    BY DEF MotionIsReal
  <2>1. /\ HistoryBits \in Nat \ {0} /\ CoolingDown \in Nat
        /\ updates \in Nat /\ updates > CoolingDown /\ p \in Points
        /\ candidate[p] \in Histories /\ moved[p] \in Histories
    BY BitsAssumption DEF VectorInv, VectorTypeOK, EnabledAfter
  <2>2. Seen = HistoryBits
    BY <2>1 DEF Seen
  <2>3. HistoryBits - HistoryBits = 0 /\ Weight[0] = 1
    BY <2>1, WeightIs
  <2>4. moved[p] <= candidate[p] /\ candidate[p] < moved[p] + 1
    BY <2>1, <2>2, <2>3 DEF VectorInv, Agrees
  <2>5. candidate[p] \in Nat /\ moved[p] \in Nat
    BY <2>1, HistoriesAre
  <2>6. candidate[p] = moved[p]
    BY <2>4, <2>5
  <2>7. BitCount(Integer(Float(candidate[p]))) > CutBits
    BY DEF VectorInv
  <2> QED BY <2>1, <2>6, <2>7, FloatAddsNothing
<1> QED BY <1>1, VectorInvariant, PTL
=============================================================================
