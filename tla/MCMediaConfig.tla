---------------------------- MODULE MCMediaConfig ----------------------------
(* Rows that depend on each other are in one focus; of the rows that do not *)
(* each integer, each table of modes and each other text is in some focus.  *)
EXTENDS MediaConfig

AllFocuses ==
  {{"resolution_4_3_enable", "video_resolution_list_4_3",
    "video_resolution_list_16_9", "fixed_video_resolution"},
   {"video_roi"}, {"video_annotate_text"}, {"video_hflip"},
   {"video_brightness", "video_ev"}, {"still_capture_enable"}}
  \cup {{o} : o \in DOMAIN Modes \cup DOMAIN Limits}
=============================================================================
