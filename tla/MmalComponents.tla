---------------------------- MODULE MmalComponents ----------------------------
(***************************************************************************)
(* The MMAL components that the video encoder and the still capture build  *)
(* in the same way: a camera, a preview (a null sink unless a preview is   *)
(* wanted), an encoder with its pool of buffers, and tunnels between them. *)
(*                                                                         *)
(* What a C function does to a component matters here only for the         *)
(* pointers: a graph g records where each pointer of the state structure   *)
(* points to, to which component's ports the port pointers belong, what    *)
(* was lost, and the first damage done.  Every function below maps a graph *)
(* to a graph.  The many MMAL calls of a function that are checked and end *)
(* in "goto error" are one failure of that function.                       *)
(***************************************************************************)

Components == {"camera", "preview", "encoder"}
Objects == Components \cup {"pool", "preview_tunnel", "encoder_tunnel"}

(* A pointer is null, or it points to an object that exists, or to one that *)
(* was destroyed.  A port pointer may also belong to an object that no      *)
(* pointer leads to any more.                                               *)
Pointers == {"null", "live", "dead"}
Ports == Pointers \cup {"lost"}
Damages == {"none", "null_pointer", "dead_port", "dead_component", "dead_tunnel",
            "dead_pool"}

Graphs == [at : [Objects -> Pointers], port : [Components -> Ports],
           lost : SUBSET Objects, damage : Damages]

EmptyGraph ==
  [at |-> [o \in Objects |-> "null"], port |-> [c \in Components |-> "null"],
   lost |-> {}, damage |-> "none"]

DeadKind(o) ==
  IF o \in Components THEN "dead_component"
  ELSE IF o = "pool" THEN "dead_pool" ELSE "dead_tunnel"

Harm(g, d) == IF g.damage = "none" THEN [g EXCEPT !.damage = d] ELSE g

(* The object is used without a look at the pointer.                        *)
Use(g, o) ==
  IF g.at[o] = "live" THEN g
  ELSE Harm(g, IF g.at[o] = "null" THEN "null_pointer" ELSE DeadKind(o))

(* mmal_port_* of a port: MMAL rejects a null port itself.                  *)
UsePort(g, c) == IF g.port[c] = "dead" THEN Harm(g, "dead_port") ELSE g

(* The pointer is given a new object; the old one is lost.                  *)
Assign(g, o) ==
  LET old == g.at[o] = "live" IN
  [g EXCEPT !.at[o] = "live",
            !.lost = @ \cup (IF old THEN {o} ELSE {}),
            !.port = [c \in Components |->
                        IF c = o /\ old /\ @[c] = "live" THEN "lost" ELSE @[c]]]

(* The object is destroyed, and the pointer set to p.                       *)
Release(g, o, p) ==
  IF g.at[o] = "dead" THEN Harm(g, DeadKind(o))
  ELSE [g EXCEPT !.at[o] = p,
                 !.port = [c \in Components |->
                             IF c = o /\ @[c] = "live" THEN "dead" ELSE @[c]]]

(* destroy_camera_component, raspipreview_destroy and their like.           *)
Destroy(g, o) == IF g.at[o] = "null" THEN g ELSE Release(g, o, "null")

(* mmal_connection_destroy of a tunnel whose pointer is tested; it keeps    *)
(* its value.                                                               *)
Cut(g, t) == IF g.at[t] = "null" THEN g ELSE Release(g, t, "dead")

-----------------------------------------------------------------------------

(* create_camera_component, create_camera_still_component: what fails was   *)
(* destroyed before the pointer is set.                                     *)
CreateCamera(g, ok) == IF ok THEN Assign(g, "camera") ELSE g

(* raspipreview_create takes the preview component there is, if any, and    *)
(* when it fails it destroys that one too.                                  *)
CreatePreview(g, ok) ==
  IF g.at["preview"] = "null"
  THEN IF ok THEN Assign(g, "preview") ELSE g
  ELSE IF ok THEN Use(g, "preview") ELSE Release(g, "preview", "dead")

(* mmal_port_pool_create may give none, which is logged and no failure.     *)
CreatePool(g, pool) ==
  IF pool THEN Assign(g, "pool")
  ELSE [g EXCEPT !.at["pool"] = "null",
                 !.lost = @ \cup (IF g.at["pool"] = "live" THEN {"pool"} ELSE {})]

(* destroy_encoder_component and destroy_encoder_still_component: the pool  *)
(* goes through the encoder's port, and its pointer stays.                  *)
DestroyEncoder(g) ==
  Destroy(IF g.at["pool"] = "null" THEN g
          ELSE Release(Use(g, "encoder"), "pool", "dead"), "encoder")

(* mmal_component_disable of a component whose pointer is tested.           *)
Disable(g) ==
  LET o == {c \in Components : g.at[c] = "dead"}
  IN  IF o = {} THEN g ELSE Harm(g, "dead_component")

(* connect_ports; the callers handle the pointer after a failure.           *)
Connect(g, t, ok) == IF ok THEN Assign(g, t) ELSE [g EXCEPT !.at[t] = "null"]

(* default_status, default_still_status: memset of the structure.  The port *)
(* pointers are no part of it.  What it loses is recorded until the next.   *)
Wipe(g) ==
  LET left == {o \in Objects : g.at[o] = "live"} IN
  [g EXCEPT !.at = EmptyGraph.at,
            !.lost = left,
            !.port = [c \in Components |->
                        IF c \in left /\ @[c] = "live" THEN "lost" ELSE @[c]]]

(* The pointers to the ports are set again.                                 *)
SetPorts(g) ==
  LET u == Use(Use(Use(g, "camera"), "preview"), "encoder")
  IN  IF u.damage = "none" THEN [u EXCEPT !.port = [c \in Components |-> "live"]]
      ELSE u
=============================================================================
