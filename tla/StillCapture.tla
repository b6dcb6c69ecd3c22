----------------------------- MODULE StillCapture -----------------------------
(***************************************************************************)
(* StillCapture::GetLatestOrCapture: a request for a still image returns   *)
(* the latest file of the still directory if it is recent enough, and else *)
(* builds camera, preview and image encoder, starts a capture, waits for   *)
(* the callback that reports the end of the image, and removes them all.   *)
(* The request runs on the main thread, the callback on MMAL's.            *)
(*                                                                         *)
(* The Event of the wait is auto-reset and never cleared otherwise.  A     *)
(* file is known by its name, its age, and whether the image was written   *)
(* to its end ("whole"), or to its end but for a write that failed ("cut").*)
(***************************************************************************)
EXTENDS Naturals, FiniteSets, MmalComponents

CONSTANTS
  Names,     \* file names; one is used again within a second or by request
  NoName,
  MaxAge     \* GetStillMaxAge, in ticks

ASSUME NamesAssumption == NoName \notin Names
ASSUME AgeAssumption == MaxAge \in Nat

VARIABLES
  graph,         \* state_ and the port pointers
  request,        \* where the request is
  target,    \* the name of the open file_
  file,      \* the still directory
  event,     \* the Event is set
  shot,      \* what the encoder is still to report
  result,    \* name that the last request returned, if it succeeded
  ok,        \* status of the request that is under way
  timedOut,  \* a wait has timed out before
  unfinished,\* a start has failed before
  unjoined   \* a tunnel could not be enabled

stillVars == <<graph, request, target, file, event, shot, result, ok, timedOut, unfinished, unjoined>>

Contents == {"absent", "partial", "whole", "cut"}
Ended == {"whole", "cut"}

StillTypeOK ==
  /\ graph \in Graphs
  /\ request \in {"idle", "init", "open", "start", "wait", "uninit", "crashed"}
  /\ target \in Names \cup {NoName}
  /\ file \in [Names -> [data : Contents, age : 0..MaxAge]]
  /\ shot \in {"none", "taking"}
  /\ result \in Names \cup {NoName}
  /\ {event, ok, timedOut, unfinished, unjoined} \subseteq BOOLEAN

Absent == [data |-> "absent", age |-> 0]

StillInit ==
  /\ graph = EmptyGraph
  /\ request = "idle"
  /\ target = NoName
  /\ file = [n \in Names |-> Absent]
  /\ event = FALSE
  /\ shot = "none"
  /\ result = NoName
  /\ ok = FALSE
  /\ timedOut = FALSE
  /\ unfinished = FALSE
  /\ unjoined = FALSE

StillAlive == graph.damage = "none" /\ request # "crashed"

-----------------------------------------------------------------------------
(* The functions of mmal_still.c.  What fails in one of them is destroyed   *)
(* by it, and no pointer is set; a pool that cannot be made is no failure.  *)
StillDefaults(h) == Wipe(h)
CreateStillCamera(h, done) == IF done THEN Assign(h, "camera") ELSE h
CreateStillEncoder(h, done, pool) ==
  IF done THEN Assign(CreatePool(h, pool), "encoder") ELSE h
DestroyStillCamera(h) == Destroy(h, "camera")
DestroyStillEncoder(h) == DestroyEncoder(h)

(* The options of the request and the configuration have no part in this.   *)
InitParams(h) == StillDefaults(h)

-----------------------------------------------------------------------------
(* The still directory *)

Present == {n \in Names : file[n].data # "absent"}
Expired(n) == file[n].age >= MaxAge

(* The files that GetLatestAndRemoveExpired deletes when n is the latest,   *)
(* which it spares.                                                         *)
OthersExpired(n) == {m \in Present \ {n} : Expired(m)}

(* The latest file; of those of one age, any.                               *)
Latest == {n \in Present : \A m \in Present : file[n].age <= file[m].age}

Idle == StillAlive /\ request = "idle"

(* GetLatestAndRemoveExpired succeeds.                                      *)
ReturnLatest(n) ==
  /\ Idle
  /\ n \in Latest /\ ~Expired(n)
  /\ result' = n
  /\ file' = [m \in Names |-> IF m \in OthersExpired(n) THEN Absent ELSE file[m]]
  /\ UNCHANGED <<graph, request, target, event, shot, ok, timedOut, unfinished, unjoined>>

(* A forced capture, or one for want of a recent file.                      *)
Request(force) ==
  /\ Idle
  /\ \/ force /\ UNCHANGED file
     \/ ~force /\ Present = {} /\ UNCHANGED file
     \/ /\ ~force
        /\ \E n \in Latest :
             /\ Expired(n)
             /\ file' = [m \in Names |-> IF m \in OthersExpired(n) THEN Absent
                                         ELSE file[m]]
  /\ request' = "init"
  /\ graph' = InitParams(graph)
  /\ result' = NoName
  /\ ok' = FALSE
  /\ UNCHANGED <<target, event, shot, timedOut, unfinished, unjoined>>

(* A file grows old.                                                        *)
Tick ==
  /\ Idle
  /\ file' = [n \in Names |->
                IF n \in Present /\ file[n].age < MaxAge
                THEN [file[n] EXCEPT !.age = @ + 1] ELSE file[n]]
  /\ UNCHANGED <<graph, request, target, event, shot, result, ok, timedOut, unfinished, unjoined>>

-----------------------------------------------------------------------------
(* Capture *)

(* Bug: the encoder's pool and component are left.                          *)
RemovedWithoutEncoder(h) ==
  LET ports == UsePort(UsePort(h, "camera"), "encoder")
      cut == Cut(Cut(ports, "preview_tunnel"), "encoder_tunnel")
  IN  DestroyStillCamera(Destroy(Disable(cut), "preview"))

(* UninitStillEncoder.                                                      *)
StillRemoved(h) ==
  LET ports == UsePort(UsePort(h, "camera"), "encoder")
      cut == Cut(Cut(ports, "preview_tunnel"), "encoder_tunnel")
  IN  DestroyStillCamera(Destroy(DestroyStillEncoder(Disable(cut)), "preview"))

(* connect_ports destroys a tunnel that it could not enable, and leaves the *)
(* pointer.                                                                 *)
Tunnel(h, t, step) ==
  CASE step = "create" -> h
    [] step = "enable" -> Cut(Assign(h, t), t)
    [] OTHER -> Assign(h, t)

(* What InitStillEncoder builds, up to a failure; if it gets as far as the  *)
(* tunnels it cleans up with UninitStillEncoder.                            *)
StillBuilt(fail, step, pool) ==
  LET cam == CreateStillCamera(graph, fail # "camera")
      pre == CreatePreview(cam, fail # "preview")
      enc == CreateStillEncoder(pre, fail # "encoder", pool)
      view == Tunnel(SetPorts(enc), "preview_tunnel",
                     IF fail = "preview_tunnel" THEN step ELSE "none")
      coded == IF fail = "preview_tunnel" THEN view
               ELSE Tunnel(view, "encoder_tunnel",
                           IF fail = "encoder_tunnel" THEN step ELSE "none")
  IN  CASE fail = "camera" -> cam
        [] fail = "preview" -> DestroyStillCamera(pre)
        [] fail = "encoder" -> DestroyStillCamera(Destroy(enc, "preview"))
        [] fail = "none" -> coded
        [] OTHER -> StillRemoved(coded)

(* InitStillEncoder.  It takes buffers from the pool without a look at it.  *)
InitStillEncoder ==
  /\ StillAlive /\ request = "init"
  /\ \E fail \in {"none", "camera", "preview", "encoder", "preview_tunnel",
                  "encoder_tunnel", "port"},
        step \in {"create", "enable"}, pool \in BOOLEAN :
       /\ graph' = StillBuilt(fail, step, pool)
       /\ request' = IF fail # "none" THEN "idle" ELSE IF pool THEN "open" ELSE "crashed"
       /\ unjoined' = (unjoined \/ (step = "enable" /\
                                    fail \in {"preview_tunnel", "encoder_tunnel"}))
  /\ UNCHANGED <<target, file, event, shot, result, ok, timedOut, unfinished>>

(* The file is created, or cut to nothing.                                  *)
Open(n) ==
  /\ StillAlive /\ request = "open"
  /\ \/ /\ target' = n
        /\ file' = [file EXCEPT ![n] = [data |-> "partial", age |-> 0]]
        /\ request' = "start"
        /\ UNCHANGED graph
     \/ /\ graph' = StillRemoved(graph)
        /\ request' = "idle"
        /\ UNCHANGED <<target, file>>
  /\ UNCHANGED <<event, shot, result, ok, timedOut, unfinished, unjoined>>

(* If the capture cannot be started all that was built stays.               *)
Start ==
  /\ StillAlive /\ request = "start"
  /\ \/ request' = "wait" /\ shot' = "taking" /\ UNCHANGED unfinished
     \/ request' = "idle" /\ unfinished' = TRUE /\ UNCHANGED shot
  /\ UNCHANGED <<graph, target, file, event, result, ok, timedOut, unjoined>>

(* The wait ends by the Event, which it resets.                             *)
Wait ==
  /\ StillAlive /\ request = "wait"
  /\ event
  /\ event' = FALSE
  /\ ok' = TRUE
  /\ request' = "uninit"
  /\ UNCHANGED <<graph, target, file, shot, result, timedOut, unfinished, unjoined>>

(* Five seconds are over.                                                   *)
TimeOut ==
  /\ StillAlive /\ request = "wait"
  /\ ~event
  /\ timedOut' = TRUE
  /\ request' = "uninit"
  /\ UNCHANGED <<graph, target, file, event, shot, result, ok, unfinished, unjoined>>

(* UninitStillEncoder; the port is disabled, so no callback comes any more. *)
(* The file is closed, and the name returned.                               *)
Finish ==
  /\ StillAlive /\ request = "uninit"
  /\ graph' = StillRemoved(graph)
  /\ shot' = "none"
  /\ result' = IF ok THEN target ELSE NoName
  /\ target' = NoName
  /\ request' = "idle"
  /\ UNCHANGED <<file, event, ok, timedOut, unfinished, unjoined>>

-----------------------------------------------------------------------------
(* OnBufferCallback, on MMAL's thread *)

(* Bug: the last buffer is reported before it is written.                   *)
ImageEndsUnwritten ==
  /\ StillAlive /\ shot = "taking"
  /\ event' = TRUE
  /\ shot' = "none"
  /\ UNCHANGED <<graph, request, target, file, result, ok, timedOut, unfinished, unjoined>>

(* The buffer that ends the image.  Nobody looks whether it, or one before  *)
(* it, could be written.  The callback may come after the wait has timed    *)
(* out.                                                                     *)
ImageEnds ==
  /\ StillAlive /\ shot = "taking"
  /\ \E data \in Ended : file' = [file EXCEPT ![target].data = data]
  /\ event' = TRUE
  /\ shot' = "none"
  /\ UNCHANGED <<graph, request, target, result, ok, timedOut, unfinished, unjoined>>

-----------------------------------------------------------------------------
(* rws.service starts the program again; the files stay.                    *)
StillRestart ==
  /\ ~StillAlive
  /\ graph' = EmptyGraph /\ request' = "idle" /\ target' = NoName
  /\ event' = FALSE /\ shot' = "none" /\ result' = NoName /\ ok' = FALSE
  /\ timedOut' = (timedOut \/ \E n \in Names : file[n].data = "partial")
  /\ unfinished' = FALSE /\ unjoined' = FALSE
  /\ UNCHANGED file

RequestStep ==
  \/ InitStillEncoder \/ Start \/ Wait \/ TimeOut \/ Finish
  \/ \E n \in Names : Open(n)

StillNext ==
  \/ \E n \in Names : ReturnLatest(n)
  \/ \E force \in BOOLEAN : Request(force)
  \/ RequestStep \/ ImageEnds \/ Tick \/ StillRestart

StillSpec == StillInit /\ [][StillNext]_stillVars

-----------------------------------------------------------------------------
(* Properties *)

(* A successful answer names a file whose image was written to its end, but *)
(* for what could not be written, and an answer left over is never taken    *)
(* for a new one, unless a capture has timed out or could not be started    *)
(* before: those leave a partial file, which counts as the latest, and the  *)
(* late callback leaves the Event set.                                      *)
NamesEndedImage ==
  ~timedOut /\ ~unfinished =>
    /\ result # NoName => file[result].data \in Ended
    /\ request = "idle" => ~event

(* Between requests nothing is left of what a request built, and nothing is *)
(* lost or destroyed twice, unless a capture could not be started or a      *)
(* tunnel not be enabled.                                                   *)
RequestCleansUp ==
  ~unfinished /\ ~unjoined =>
    /\ graph.damage = "none" /\ graph.lost = {}
    /\ request = "idle" => /\ \A c \in Components : graph.at[c] = "null"
                      /\ shot = "none"
=============================================================================
