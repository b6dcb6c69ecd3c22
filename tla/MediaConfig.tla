----------------------------- MODULE MediaConfig -----------------------------
(***************************************************************************)
(* The media configuration: what ConfigMedia keeps of each option, the     *)
(* values it derives from some of them, the file behind it (OptionsFile),  *)
(* and what reaches the camera when a session applies it.                  *)
(*                                                                         *)
(* An option has a value and a mark isloaded__, set by the file and by a   *)
(* client, which decides whether Save writes it.  The validators of the    *)
(* region of interest, of the fixed resolution and of the resolution lists *)
(* also store what they parsed, and the program uses that, never the text. *)
(* OptionsFile has a copy of the file in memory, read once and written as  *)
(* a whole.                                                                *)
(*                                                                         *)
(* The rows are those of def/config_media.def whose code differs: all      *)
(* integers the camera or the encoder gets, a switch of each kind, and     *)
(* every text with a validator of its own.  A behaviour changes the rows   *)
(* in focus; the others keep their defaults.                               *)
(***************************************************************************)
EXTENDS Integers, Sequences

CONSTANT Focuses  \* sets of rows; a behaviour is about one of them

VARIABLES
  focus,    \* the rows this behaviour is about
  up,       \* "down", "running", or in the middle of OptionsFile::Save
  config,   \* the rows and what is derived from them
  options,  \* options_: the file as it was read, with what Save has added
  file,     \* the configuration file
  saved,    \* << >>, or what the configuration was when the file was written
  camera,   \* the settings the camera has
  applied   \* << >>, or the values the last apply started from

vars == <<focus, up, config, options, file, saved, camera, applied>>

-----------------------------------------------------------------------------
(* The rows *)

(* Integers: the limits their validators check.                             *)
Limits ==
  [camera_select |-> <<0, 2>>, max_bitrate |-> <<200, 17000000>>,
   video_rotation |-> <<0, 270>>, fixed_video_fps |-> <<5, 30>>,
   video_sharpness |-> <<-100, 100>>, video_contrast |-> <<-100, 100>>,
   video_brightness |-> <<0, 100>>, video_saturation |-> <<-100, 100>>,
   video_ev |-> <<-10, 10>>, video_annotate_text_size_ratio |-> <<2, 9>>,
   still_camera_num |-> <<0, 3>>, still_max_age |-> <<0, 600>>,
   still_quality |-> <<0, 100>>, still_capture_interval |-> <<0, 3600>>]

(* Names the camera has a mode for.                                         *)
Modes ==
  [video_exposure_mode |-> {"off", "auto", "night", "nightpreview",
     "backlight", "spotlight", "sports", "snow", "beach", "verylong",
     "fixedfps", "antishake", "fireworks"},
   video_flicker_mode |-> {"off", "auto", "50hz", "60hz"},
   video_awb_mode |-> {"off", "auto", "sun", "cloud", "shade", "tungsten",
     "fluorescent", "incandescent", "flash", "horizon"},
   video_drc_mode |-> {"off", "low", "med", "high"}]

Switches == {"resolution_4_3_enable", "video_hflip", "still_capture_enable"}

(* Resolution lists and regions, by name; "bad" is text that does not parse.*)
ListOf == [std43 |-> {"640x480", "320x240"}, own43 |-> {"320x240"},
           std169 |-> {"1280x720"}, own169 |-> {"640x360", "1280x720"}]
Regions == {"full", "left half"}

(* Rows in the order of the definition file, which is the order of every    *)
(* loop over them.  A row's validator looks at no other row, but that of    *)
(* the fixed resolution looks at rows before it.                            *)
Rows ==
  <<"camera_select", "video_roi", "max_bitrate", "resolution_4_3_enable",
    "video_rotation", "video_hflip", "video_resolution_list_4_3",
    "video_resolution_list_16_9", "fixed_video_resolution",
    "fixed_video_fps", "video_sharpness", "video_contrast",
    "video_brightness", "video_saturation", "video_ev",
    "video_exposure_mode", "video_flicker_mode", "video_awb_mode",
    "video_drc_mode", "video_annotate_text",
    "video_annotate_text_size_ratio", "still_capture_enable",
    "still_camera_num", "still_max_age", "still_quality",
    "still_capture_interval">>

Defaults ==
  [camera_select |-> 0, video_roi |-> "full", max_bitrate |-> 3500000,
   resolution_4_3_enable |-> "true", video_rotation |-> 0,
   video_hflip |-> "false", video_resolution_list_4_3 |-> "std43",
   video_resolution_list_16_9 |-> "std169",
   fixed_video_resolution |-> "640x480", fixed_video_fps |-> 30,
   video_sharpness |-> 0, video_contrast |-> 0, video_brightness |-> 50,
   video_saturation |-> 0, video_ev |-> 2, video_exposure_mode |-> "auto",
   video_flicker_mode |-> "auto", video_awb_mode |-> "auto",
   video_drc_mode |-> "off", video_annotate_text |-> "",
   video_annotate_text_size_ratio |-> 3, still_capture_enable |-> "false",
   still_camera_num |-> 0, still_max_age |-> 300, still_quality |-> 85,
   still_capture_interval |-> 300]
Options == DOMAIN Defaults

ASSUME FocusesAssumption == Focuses \subseteq SUBSET Options

(* Rows a client may change.                                                *)
Remote ==
  {"video_rotation", "video_hflip", "video_sharpness", "video_contrast",
   "video_brightness", "video_saturation", "video_ev",
   "video_annotate_text", "video_annotate_text_size_ratio"} \cup DOMAIN Modes

(* Values to try: for an integer the limits and what lies beyond them.  A   *)
(* text that is no number is refused as a number out of range is.           *)
Texts(o) ==
  CASE o \in DOMAIN Modes -> Modes[o] \cup {"bad"}
    [] o \in Switches -> {"true", "false", "bad"}
    [] o = "video_roi" -> Regions \cup {"bad"}
    [] o = "video_resolution_list_4_3" -> {"std43", "own43", "bad"}
    [] o = "video_resolution_list_16_9" -> {"std169", "own169", "bad"}
    [] o = "fixed_video_resolution" ->
         {"640x480", "320x240", "1280x720", "bad"}
    [] OTHER -> {"", "note", "note # 1", "back\\slash", "65 letters"}
Values(o) ==
  IF o \in DOMAIN Limits
  THEN {Limits[o][1] - 1, Limits[o][1], Limits[o][2], Limits[o][2] + 1}
  ELSE Texts(o)

(* Files and messages: some rows in focus, each with a value to try.        *)
Assignments(rows) ==
  UNION {{f \in [s -> UNION {Values(o) : o \in s}] :
            \A o \in s : f[o] \in Values(o)} : s \in SUBSET rows}

-----------------------------------------------------------------------------
(* Validation *)

(* A resolution that is no resolution passes: the validator only looks at   *)
(* what it could parse.                                                     *)
Valid(c, o, v) ==
  /\ o = "video_rotation" => v \in {0, 90, 180, 270}
  /\ o \in DOMAIN Limits => Limits[o][1] <= v /\ v <= Limits[o][2]
  /\ o \in DOMAIN Modes => v \in Modes[o]
  /\ o \in Switches => v \in {"true", "false"}
  /\ o = "fixed_video_resolution" =>
       \/ v = "bad"
       \/ v \in IF c.value["resolution_4_3_enable"] = "true"
                THEN c.list43 ELSE c.list169
  /\ o = "video_annotate_text" => v \notin {"", "65 letters"}
  /\ o \in {"video_roi", "video_resolution_list_4_3", "video_resolution_list_16_9"} =>
       v # "bad"

(* Several rows get new values.  What the validators store besides:         *)
Derived(c, new) ==
  LET Got(o) == o \in DOMAIN new IN
  [c EXCEPT
     !.roi = IF Got("video_roi") THEN new["video_roi"] ELSE @,
     !.list43 = IF Got("video_resolution_list_4_3")
                THEN ListOf[new["video_resolution_list_4_3"]] ELSE @,
     !.list169 = IF Got("video_resolution_list_16_9")
                 THEN ListOf[new["video_resolution_list_16_9"]] ELSE @,
     !.fixed = IF Got("fixed_video_resolution") /\ new["fixed_video_resolution"] # "bad"
               THEN new["fixed_video_resolution"] ELSE @]

Changed(value, new) == [o \in Options |-> IF o \in DOMAIN new THEN new[o] ELSE value[o]]

(* Bug: the setter does not mark the rows.                                  *)
WithUnmarked(c, new, marks) == [Derived(c, new) EXCEPT !.value = Changed(@, new)]

(* The rows get the values, and those in marks their isloaded__.            *)
With(c, new, marks) ==
  [Derived(c, new) EXCEPT !.value = Changed(@, new), !.marked = @ \cup marks]

DefaultLists ==
  [o \in {"video_resolution_list_4_3", "video_resolution_list_16_9"} |-> Defaults[o]]

(* Bug: the marks stay.                                                     *)
ResetKeepsMarks(c) == [Derived(c, DefaultLists) EXCEPT !.value = Defaults]

(* ConfigMedia::Reset.  The lists are parsed again, the region and the      *)
(* fixed resolution are not.                                                *)
ResetConfig(c) ==
  [Derived(c, DefaultLists) EXCEPT !.value = Defaults, !.marked = {}]

(* The constructor: no region and no resolution yet.                        *)
NewConfig ==
  ResetConfig([value |-> Defaults, marked |-> {}, roi |-> "none",
               fixed |-> "0x0", list43 |-> {}, list169 |-> {}])

-----------------------------------------------------------------------------
(* OptionsFile *)

(* What is read back of a text: a line ends at the comment sign, and blanks *)
(* are trimmed.                                                             *)
ReadBack(o, v) ==
  IF o = "video_annotate_text" /\ v = "note # 1" THEN "note" ELSE v

(* IsLegalValue: no backslash and no line break.                            *)
Legal(o, v) == o # "video_annotate_text" \/ v # "back\\slash"

ReadFile(f) == [o \in DOMAIN f |-> ReadBack(o, f[o])]

(* The rows that get what the file has for them; a switch without a mark.   *)
Loaded(c, opts, rows) ==
  LET valid == {o \in rows \cap DOMAIN opts : Valid(c, o, opts[o])}
  IN  With(c, [o \in valid |-> opts[o]], valid \ Switches)

(* ConfigMedia::Load: row by row, the fixed resolution after those that its *)
(* validator looks at.                                                      *)
LoadConfig(opts) ==
  Loaded(Loaded(NewConfig, opts, Options \ {"fixed_video_resolution"}),
         opts, {"fixed_video_resolution"})

(* ConfigMedia::Save: the marked rows are added to what the file had.       *)
SavedOptions(c, opts) ==
  LET new == {o \in c.marked : Legal(o, c.value[o])} IN
  [o \in new \cup DOMAIN opts |-> IF o \in new THEN c.value[o] ELSE opts[o]]

-----------------------------------------------------------------------------
(* The camera *)

(* The ranges the setters of raspicamcontrol accept.                        *)
CameraLimits ==
  [video_sharpness |-> <<-100, 100>>, video_contrast |-> <<-100, 100>>,
   video_brightness |-> <<0, 100>>, video_saturation |-> <<-100, 100>>]

(* Bug: the lowest value of each range is refused.                          *)
AcceptsAbove(o, v) ==
  o \in DOMAIN CameraLimits => CameraLimits[o][1] < v /\ v <= CameraLimits[o][2]

Accepts(o, v) ==
  o \in DOMAIN CameraLimits =>
    CameraLimits[o][1] <= v /\ v <= CameraLimits[o][2]

(* ..._mode_from_string: the mode of a name, or a mode to fall back to.     *)
ModeOf(o, v) ==
  IF v \in Modes[o] THEN v
  ELSE IF o \in {"video_exposure_mode", "video_awb_mode"}
       THEN "auto" ELSE "off"

(* What a setter makes of the value it is given.                            *)
Setting(o, v) ==
  IF o = "video_rotation" THEN ((v % 360) \div 90) * 90
  ELSE IF o \in DOMAIN Modes THEN ModeOf(o, v) ELSE v

CameraRows ==
  {"video_rotation", "video_hflip", "video_sharpness", "video_contrast",
   "video_brightness", "video_saturation", "video_ev"} \cup DOMAIN Modes

(* raspicamcontrol_set_defaults.                                            *)
CameraDefaults ==
  [o \in CameraRows |->
     CASE o = "video_ev" -> 3
       [] o = "video_flicker_mode" -> "off"
       [] OTHER -> Defaults[o]]

(* raspicamcontrol_set_all_parameters: a setter that refuses its value      *)
(* leaves the camera as it is, and the others are called all the same.      *)
AllSet(cam, value) ==
  [o \in CameraRows |->
     IF Accepts(o, value[o]) THEN Setting(o, value[o]) ELSE cam[o]]

-----------------------------------------------------------------------------
(* The program *)

Init ==
  /\ focus \in Focuses
  /\ up = "down"
  /\ config = NewConfig
  /\ options = << >>
  /\ file \in Assignments(focus)
  /\ saved = << >>
  /\ camera = CameraDefaults
  /\ applied = << >>

(* main(): the configuration is constructed and loaded.  There is no error  *)
(* in a file that is not there.                                             *)
Start ==
  /\ up = "down"
  /\ up' = "running"
  /\ options' = ReadFile(file)
  /\ config' = LoadConfig(options')
  /\ camera' = CameraDefaults
  /\ UNCHANGED <<focus, file, saved, applied>>

(* FromJson: row by row up to the first value that is refused; the rows     *)
(* before it have been changed when the client gets its error.              *)
Before(o, p) == \E i, j \in DOMAIN Rows : i < j /\ Rows[i] = o /\ Rows[j] = p

Updated(c, message) ==
  LET sent == DOMAIN message \cap Remote
      refused == {o \in sent : ~Valid(c, o, message[o])}
      set == {o \in sent \ refused : \A p \in refused : Before(o, p)}
  IN  With(c, [o \in set |-> message[o]], set)

FromJson ==
  /\ up = "running"
  /\ \E message \in Assignments(focus) : config' = Updated(config, message)
  /\ UNCHANGED <<focus, up, options, file, saved, camera, applied>>

Reset ==
  /\ up = "running"
  /\ config' = ResetConfig(config)
  /\ UNCHANGED <<focus, up, options, file, saved, camera, applied>>

(* Save: opening the file for writing empties it ...                        *)
SaveOpens ==
  /\ up = "running"
  /\ up' = "saving"
  /\ options' = SavedOptions(config, options)
  /\ file' = << >>
  /\ saved' = << >>
  /\ UNCHANGED <<focus, config, camera, applied>>

(* ... then the rows are written.                                           *)
SaveWrites ==
  /\ up = "saving"
  /\ up' = "running"
  /\ file' = options
  /\ saved' = [config |-> config]
  /\ UNCHANGED <<focus, config, options, camera, applied>>

(* The file cannot be opened: the rows wait in options_.                    *)
SaveFails ==
  /\ up = "running"
  /\ options' = SavedOptions(config, options)
  /\ UNCHANGED <<focus, up, config, file, saved, camera, applied>>

(* A session starts or a client asks to apply: SetEncoderConfigParams, and  *)
(* a camera component is made and set.                                      *)
Apply ==
  /\ up = "running"
  /\ camera' = AllSet(CameraDefaults, config.value)
  /\ applied' = config.value
  /\ UNCHANGED <<focus, up, config, options, file, saved>>

Crash ==
  /\ up # "down"
  /\ up' = "down"
  /\ config' = NewConfig
  /\ options' = << >>
  /\ applied' = << >>
  /\ UNCHANGED <<focus, file, saved, camera>>

Next ==
  \/ Start \/ FromJson \/ Reset \/ SaveOpens \/ SaveWrites \/ SaveFails
  \/ Apply \/ Crash

Spec == Init /\ [][Next]_vars

-----------------------------------------------------------------------------
(* Properties *)

(* What the program uses is what the rows say: the lists always, the region *)
(* and the fixed resolution for as long as the row stands that was parsed   *)
(* (the defaults of these two rows never are), and it is a resolution.      *)
DerivedAgrees ==
  LET value == config.value IN
  /\ config.list43 = ListOf[value["video_resolution_list_4_3"]]
  /\ config.list169 = ListOf[value["video_resolution_list_16_9"]]
  /\ "video_roi" \in config.marked => config.roi = value["video_roi"]
  /\ "fixed_video_resolution" \in config.marked =>
       \/ value["fixed_video_resolution"] = "bad"
       \/ config.fixed = value["fixed_video_resolution"]

(* A configuration that has been saved is the one the next start loads,     *)
(* except for a row that was reset and not set since, which the file still  *)
(* has as it was, and for a text the file cannot hold.                      *)
SavedIsLoaded ==
  saved # << >> =>
    LET next == LoadConfig(ReadFile(file)) IN
    \A o \in focus :
      \/ next.value[o] = saved.config.value[o]
      \/ o \notin saved.config.marked /\ saved.config.value[o] = Defaults[o]
      \/ o = "video_annotate_text"
           /\ saved.config.value[o] \in {"note # 1", "back\\slash"}

(* No setter of the camera refuses what the configuration accepts: after an *)
(* apply the camera has every value of the configuration, as it was given.  *)
CameraTakesConfig ==
  applied # << >> => \A o \in CameraRows : camera[o] = applied[o]
=============================================================================
