------------------------------ MODULE MmalProofs ------------------------------
(***************************************************************************)
(* Theorems about the two parts that build MMAL components.  VideoEncoder, *)
(* for every interleaving of its four threads and every sequence of uses   *)
(* and failures: the drain thread ends with the use, an encoder in use is  *)
(* whole, and damage has the cause that is noted for it.  StillCapture,    *)
(* for any names and ages of files: a request names a whole image, and     *)
(* removes what it built.  The first part is about MmalComponents: what    *)
(* each function does to a graph.                                          *)
(***************************************************************************)
EXTENDS VideoEncoder, StillCapture, TLAPS

-----------------------------------------------------------------------------
(* The inductive invariant, in parts *)

NoneLive(h) == \A o \in Objects : h.at[o] # "live"
AllNull(h) == \A o \in Objects : h.at[o] = "null"

Whole(h) ==
  /\ \A o \in Components \cup {"encoder_tunnel"} : h.at[o] = "live"
  /\ \A c \in Components : h.port[c] = "live"
  /\ h.at["pool"] \in {"live", "null"}

(* No rebuild has failed, and no thread was inside one at a Release.        *)
Clean == happened \cap {"rebuild", "overlap"} = {}

(* InitEncoder has made the camera in an empty graph h; state_ may have     *)
(* been reset since then.                                                   *)
CameraOf(h, made) ==
  /\ h \in Graphs /\ AllNull(h) /\ h.damage = "none" /\ h.lost = g.lost
  /\ g = CreateCamera(h, made)
  /\ "overlap" \notin happened => made

Building == \E h \in Graphs, made \in BOOLEAN : CameraOf(h, made)

(* While nothing was damaged: a clean use is whole; between the uses no     *)
(* object is left, but for a failure after the ports were set; a new use    *)
(* starts from null pointers.                                               *)
GraphSound ==
  g.damage = "none" =>
    /\ inited /\ Clean => Whole(g)
    /\ ~inited /\ pc # "build" /\ "late_init" \notin happened => NoneLive(g)
    /\ ~inited /\ pc = "init" => AllNull(g)
    /\ pc = "build" => Building
    /\ Clean => g.at["camera"] # "dead"
    /\ pc = "stop" /\ happened = {"late_init"} => g.port["camera"] # "dead"

NothingLost == happened \cap {"late_init", "overlap"} = {} => g.lost = {}

DamageKinds ==
  /\ happened \in {{}, {"late_init"}} => g.damage = "none"
  /\ happened = {"early_init"} => g.damage \in {"none", "dead_port"}

(* A thread in a rebuild of an encoder that is gone was there at a Release; *)
(* a camera that Zoom still points to is destroyed by a failure or Release. *)
OverlapNoted ==
  /\ \A t \in Threads :
       builder[t] \in {"checked", "capture"} /\ ~inited => "overlap" \in happened
  /\ builder["main"] = "zoom_dead" => ~Clean

(* The stages of a use.                                                     *)
Stages ==
  /\ pc = "idle" /\ attached => inited
  /\ pc \in {"capture", "rates"} => inited
  /\ pc = "join" => ~attached
  /\ pc = "build" => ~inited
  /\ pc = "stop" => ~inited /\ happened \cap {"early_init", "late_init"} # {}

GraphInv ==
  /\ TypeOK /\ g.at["preview_tunnel"] = "null"
  /\ GraphSound /\ NothingLost /\ DamageKinds /\ OverlapNoted /\ Stages

(* The drain thread and the use of the encoder.                             *)
DrainInv ==
  /\ ~attached => pc = "join" \/ (pc = "idle" /\ drain = "none")
  /\ pc \in {"uninit", "join"} /\ drain \notin {"none", "ended"} => quit
  /\ fault = "no_wrapper" => pc = "join"

-----------------------------------------------------------------------------
(* MmalComponents: single steps on a graph *)

LEMMA GraphParts ==
  ASSUME NEW h \in Graphs
  PROVE  /\ h.at \in [Objects -> Pointers] /\ h.port \in [Components -> Ports]
         /\ h.lost \subseteq Objects /\ h.damage \in Damages
BY DEF Graphs

LEMMA HarmIs ==
  ASSUME NEW h \in Graphs, NEW d \in Damages
  PROVE  /\ Harm(h, d) \in Graphs
         /\ Harm(h, d).at = h.at /\ Harm(h, d).port = h.port
         /\ Harm(h, d).lost = h.lost
         /\ Harm(h, d).damage = IF h.damage = "none" THEN d ELSE h.damage
BY DEF Harm, Graphs

LEMMA KindsAreDamages ==
  \A o \in Objects : DeadKind(o) \in Damages /\ DeadKind(o) # "none"
BY DEF DeadKind, Damages

LEMMA UseIs ==
  ASSUME NEW h \in Graphs, NEW o \in Objects
  PROVE  /\ Use(h, o) \in Graphs
         /\ Use(h, o).at = h.at /\ Use(h, o).port = h.port
         /\ Use(h, o).lost = h.lost
         /\ h.at[o] = "live" => Use(h, o) = h
         /\ h.at[o] # "live" => Use(h, o).damage # "none"
         /\ h.damage # "none" => Use(h, o).damage # "none"
<1> DEFINE d == IF h.at[o] = "null" THEN "null_pointer" ELSE DeadKind(o)
<1>1. d \in Damages /\ d # "none"
  BY KindsAreDamages DEF Damages
<1>2. Use(h, o) = IF h.at[o] = "live" THEN h ELSE Harm(h, d)
  BY DEF Use
<1> HIDE DEF d
<1>3. CASE h.at[o] = "live"
  BY <1>2, <1>3
<1>4. CASE h.at[o] # "live"
  BY <1>1, <1>2, <1>4, HarmIs
<1> QED BY <1>3, <1>4

LEMMA UsePortIs ==
  ASSUME NEW h \in Graphs, NEW c \in Components
  PROVE  /\ UsePort(h, c) \in Graphs
         /\ UsePort(h, c).at = h.at /\ UsePort(h, c).port = h.port
         /\ UsePort(h, c).lost = h.lost
         /\ h.port[c] # "dead" => UsePort(h, c) = h
         /\ UsePort(h, c).damage \in {h.damage, "dead_port"}
         /\ h.damage # "none" => UsePort(h, c).damage # "none"
<1>1. "dead_port" \in Damages
  BY DEF Damages
<1> QED BY <1>1, HarmIs DEF UsePort

LEMMA AssignIs ==
  ASSUME NEW h \in Graphs, NEW o \in Objects
  PROVE  /\ Assign(h, o) \in Graphs /\ Assign(h, o).damage = h.damage
         /\ \A p \in Objects : Assign(h, o).at[p] = IF p = o THEN "live" ELSE h.at[p]
         /\ h.at[o] # "live" => /\ Assign(h, o).lost = h.lost
                                /\ Assign(h, o).port = h.port
<1> DEFINE old == h.at[o] = "live"
           at == [h.at EXCEPT ![o] = "live"]
           lost == h.lost \cup (IF old THEN {o} ELSE {})
           port == [c \in Components |->
                      IF c = o /\ old /\ h.port[c] = "live" THEN "lost" ELSE h.port[c]]
<1>1. /\ h.at \in [Objects -> Pointers] /\ h.port \in [Components -> Ports]
      /\ h.lost \subseteq Objects
  BY GraphParts
<1>2. at \in [Objects -> Pointers]
  BY <1>1 DEF Pointers
<1>3. lost \in SUBSET Objects
  BY <1>1
<1>4. port \in [Components -> Ports]
  BY <1>1 DEF Ports
<1>5. h.at[o] # "live" => lost = h.lost /\ port = h.port
  BY <1>1
<1>6. \A p \in Objects : at[p] = IF p = o THEN "live" ELSE h.at[p]
  BY <1>1
<1>7. Assign(h, o) = [h EXCEPT !.at = at, !.lost = lost, !.port = port]
  BY <1>1 DEF Assign, Graphs
<1> DEFINE k == [h EXCEPT !.at = at, !.lost = lost, !.port = port]
<1> HIDE DEF old, at, lost, port
<1>8. /\ k \in Graphs /\ k.at = at /\ k.port = port /\ k.lost = lost
      /\ k.damage = h.damage
  BY <1>2, <1>3, <1>4 DEF Graphs
<1> HIDE DEF k
<1>9. Assign(h, o) = k
  BY <1>7 DEF k
<1> QED BY <1>5, <1>6, <1>8, <1>9

(* A destroyed object takes its ports along.                                *)
LEMMA ReleaseIs ==
  ASSUME NEW h \in Graphs, NEW o \in Objects, NEW q \in Pointers
  PROVE  /\ Release(h, o, q) \in Graphs /\ Release(h, o, q).lost = h.lost
         /\ h.damage # "none" => Release(h, o, q).damage # "none"
         /\ h.at[o] = "dead" => /\ Release(h, o, q).damage # "none"
                                /\ Release(h, o, q).at = h.at
                                /\ Release(h, o, q).port = h.port
         /\ h.at[o] # "dead" =>
              /\ Release(h, o, q).damage = h.damage
              /\ \A p \in Objects :
                   Release(h, o, q).at[p] = IF p = o THEN q ELSE h.at[p]
              /\ \A c \in Components :
                   Release(h, o, q).port[c] =
                     IF c = o /\ h.port[c] = "live" THEN "dead" ELSE h.port[c]
<1>1. /\ h.at \in [Objects -> Pointers] /\ h.port \in [Components -> Ports]
      /\ h.lost \in SUBSET Objects
  BY GraphParts
<1>2. CASE h.at[o] = "dead"
  <2>1. Release(h, o, q) = Harm(h, DeadKind(o))
    BY <1>2 DEF Release
  <2> QED BY <1>2, <2>1, HarmIs, KindsAreDamages
<1>3. CASE h.at[o] # "dead"
  <2> DEFINE at == [h.at EXCEPT ![o] = q]
             port == [c \in Components |->
                        IF c = o /\ h.port[c] = "live" THEN "dead" ELSE h.port[c]]
  <2>1. at \in [Objects -> Pointers]
    BY <1>1
  <2>2. port \in [Components -> Ports]
    BY <1>1 DEF Ports, Pointers
  <2>3. \A p \in Objects : at[p] = IF p = o THEN q ELSE h.at[p]
    BY <1>1
  <2>4. Release(h, o, q) = [h EXCEPT !.at = at, !.port = port]
    BY <1>1, <1>3 DEF Release, Graphs
  <2>5. \A c \in Components :
          port[c] = IF c = o /\ h.port[c] = "live" THEN "dead" ELSE h.port[c]
    OBVIOUS
  <2> HIDE DEF at, port
  <2>6. LET k == [h EXCEPT !.at = at, !.port = port]
        IN  /\ k \in Graphs /\ k.at = at /\ k.port = port /\ k.lost = h.lost
            /\ k.damage = h.damage
    BY <2>1, <2>2 DEF Graphs
  <2> QED BY <1>3, <2>3, <2>4, <2>5, <2>6
<1> QED BY <1>2, <1>3

-----------------------------------------------------------------------------
(* MmalComponents: the functions of the C files                             *)

(* What a function may do to a graph, damaged or not.                       *)
LEMMA DestroyIs ==
  ASSUME NEW h \in Graphs, NEW o \in Objects
  PROVE  /\ Destroy(h, o) \in Graphs /\ Destroy(h, o).lost = h.lost
         /\ h.damage # "none" => Destroy(h, o).damage # "none"
         /\ h.at[o] # "dead" => Destroy(h, o).damage = h.damage
         /\ Destroy(h, o).damage = "none" => Destroy(h, o).at[o] = "null"
         /\ \A p \in Objects \ {o} : Destroy(h, o).at[p] = h.at[p]
<1>1. "null" \in Pointers
  BY DEF Pointers
<1>2. CASE h.at[o] = "null"
  BY <1>2 DEF Destroy
<1>3. CASE h.at[o] # "null"
  <2>1. Destroy(h, o) = Release(h, o, "null")
    BY <1>3 DEF Destroy
  <2> QED BY <1>1, <2>1, ReleaseIs
<1> QED BY <1>2, <1>3

LEMMA CutIs ==
  ASSUME NEW h \in Graphs, NEW t \in Objects
  PROVE  /\ Cut(h, t) \in Graphs /\ Cut(h, t).lost = h.lost
         /\ h.damage # "none" => Cut(h, t).damage # "none"
         /\ h.at[t] # "dead" => Cut(h, t).damage = h.damage
         /\ Cut(h, t).at[t] # "live"
         /\ \A p \in Objects \ {t} : Cut(h, t).at[p] = h.at[p]
<1>1. "dead" \in Pointers
  BY DEF Pointers
<1>2. CASE h.at[t] = "null"
  BY <1>2 DEF Cut
<1>3. CASE h.at[t] # "null"
  <2>1. Cut(h, t) = Release(h, t, "dead")
    BY <1>3 DEF Cut
  <2> QED BY <1>1, <2>1, ReleaseIs
<1> QED BY <1>2, <1>3

LEMMA DisableIs ==
  ASSUME NEW h \in Graphs
  PROVE  /\ Disable(h) \in Graphs /\ Disable(h).lost = h.lost
         /\ Disable(h).at = h.at /\ Disable(h).port = h.port
         /\ h.damage # "none" => Disable(h).damage # "none"
         /\ (\A c \in Components : h.at[c] # "dead") => Disable(h) = h
<1>1. "dead_component" \in Damages
  BY DEF Damages
<1> QED BY <1>1, HarmIs DEF Disable

LEMMA SetPortsIs ==
  ASSUME NEW h \in Graphs
  PROVE  /\ SetPorts(h) \in Graphs /\ SetPorts(h).lost = h.lost
         /\ SetPorts(h).at = h.at
         /\ h.damage # "none" => SetPorts(h).damage # "none"
         /\ h.damage = "none" /\ (\A c \in Components : h.at[c] = "live") =>
              /\ SetPorts(h).damage = "none"
              /\ \A c \in Components : SetPorts(h).port[c] = "live"
         /\ h.at["camera"] # "live" => SetPorts(h).damage # "none"
<1> DEFINE u1 == Use(h, "camera")
           u2 == Use(u1, "preview")
           u == Use(u2, "encoder")
           port == [c \in Components |-> "live"]
<1>0. {"camera", "preview", "encoder"} \subseteq Objects /\ Components \subseteq Objects
      /\ {"camera", "preview", "encoder"} \subseteq Components
  BY DEF Objects, Components
<1>1. /\ u1 \in Graphs /\ u1.at = h.at /\ u1.lost = h.lost
      /\ h.damage # "none" => u1.damage # "none"
      /\ h.at["camera"] = "live" => u1 = h
      /\ h.at["camera"] # "live" => u1.damage # "none"
  BY <1>0, UseIs
<1> HIDE DEF u1
<1>2. /\ u2 \in Graphs /\ u2.at = u1.at /\ u2.lost = u1.lost
      /\ u1.damage # "none" => u2.damage # "none"
      /\ u1.at["preview"] = "live" => u2 = u1
  BY <1>0, <1>1, UseIs, Zenon
<1> HIDE DEF u2
<1>3. /\ u \in Graphs /\ u.at = u2.at /\ u.lost = u2.lost
      /\ u2.damage # "none" => u.damage # "none"
      /\ u2.at["encoder"] = "live" => u = u2
  BY <1>0, <1>2, UseIs, Zenon
<1>4. SetPorts(h) = IF u.damage = "none" THEN [u EXCEPT !.port = port] ELSE u
  BY DEF SetPorts, u1, u2
<1> HIDE DEF u
<1>5. port \in [Components -> Ports] /\ \A c \in Components : port[c] = "live"
  BY DEF Ports, Pointers
<1> DEFINE k == [u EXCEPT !.port = port]
<1> HIDE DEF port
<1>6. /\ k \in Graphs /\ k.at = u.at /\ k.lost = u.lost /\ k.damage = u.damage
      /\ k.port = port
  BY <1>3, <1>5 DEF Graphs
<1> HIDE DEF k
<1>7. SetPorts(h) = IF u.damage = "none" THEN k ELSE u
  BY <1>4 DEF k
<1>8. CASE u.damage = "none"
  BY <1>1, <1>2, <1>3, <1>5, <1>6, <1>7, <1>8
<1>9. CASE u.damage # "none"
  BY <1>0, <1>1, <1>2, <1>3, <1>7, <1>9
<1> QED BY <1>8, <1>9

(* An entry that is set without a look at the old one.                      *)
LEMMA SetAtIs ==
  ASSUME NEW h \in Graphs, NEW t \in Objects, NEW q \in Pointers
  PROVE  LET k == [h EXCEPT !.at[t] = q]
         IN  /\ k \in Graphs /\ k.damage = h.damage /\ k.lost = h.lost
             /\ k.port = h.port
             /\ \A p \in Objects : k.at[p] = IF p = t THEN q ELSE h.at[p]
<1> DEFINE at == [h.at EXCEPT ![t] = q]
           k == [h EXCEPT !.at = at]
<1>1. at \in [Objects -> Pointers] /\ \A p \in Objects : at[p] = IF p = t THEN q ELSE h.at[p]
  BY GraphParts
<1>2. [h EXCEPT !.at[t] = q] = k
  BY DEF Graphs
<1> DEFINE j == [h EXCEPT !.at[t] = q]
<1>4. j = k
  BY <1>2
<1> HIDE DEF at, j
<1>3. /\ k \in Graphs /\ k.at = at /\ k.lost = h.lost /\ k.damage = h.damage
      /\ k.port = h.port
  BY <1>1 DEF Graphs
<1> HIDE DEF k
<1>5. /\ j \in Graphs /\ j.damage = h.damage /\ j.lost = h.lost
      /\ j.port = h.port
      /\ \A p \in Objects : j.at[p] = IF p = t THEN q ELSE h.at[p]
  BY <1>1, <1>3, <1>4
<1> QED BY <1>5 DEF j

LEMMA ConnectIs ==
  ASSUME NEW h \in Graphs, NEW t \in Objects, NEW fine \in BOOLEAN, h.at[t] # "live"
  PROVE  /\ Connect(h, t, fine) \in Graphs /\ Connect(h, t, fine).damage = h.damage
         /\ Connect(h, t, fine).lost = h.lost /\ Connect(h, t, fine).port = h.port
         /\ fine => Connect(h, t, fine).at[t] = "live"
         /\ ~fine => Connect(h, t, fine).at[t] = "null"
         /\ \A p \in Objects \ {t} : Connect(h, t, fine).at[p] = h.at[p]
<1>1. CASE fine
  BY <1>1, AssignIs DEF Connect
<1>2. CASE ~fine
  <2>1. "null" \in Pointers
    BY DEF Pointers
  <2>2. Connect(h, t, fine) = [h EXCEPT !.at[t] = "null"]
    BY <1>2 DEF Connect
  <2> QED BY <1>2, <2>1, <2>2, SetAtIs
<1> QED BY <1>1, <1>2

LEMMA CreatePreviewIs ==
  ASSUME NEW h \in Graphs, NEW fine \in BOOLEAN
  PROVE  /\ CreatePreview(h, fine) \in Graphs /\ CreatePreview(h, fine).lost = h.lost
         /\ h.damage # "none" => CreatePreview(h, fine).damage # "none"
         /\ \A p \in Objects \ {"preview"} : CreatePreview(h, fine).at[p] = h.at[p]
         /\ h.at["preview"] = "live" /\ fine => CreatePreview(h, fine) = h
         /\ h.at["preview"] = "null" =>
              /\ CreatePreview(h, fine).damage = h.damage
              /\ CreatePreview(h, fine).port = h.port
              /\ CreatePreview(h, fine).at["preview"] = IF fine THEN "live" ELSE "null"
<1>0. "preview" \in Objects /\ "dead" \in Pointers
  BY DEF Objects, Components, Pointers
<1>1. CASE h.at["preview"] = "null"
  BY <1>0, <1>1, AssignIs DEF CreatePreview
<1>2. CASE h.at["preview"] # "null" /\ fine
  <2>1. CreatePreview(h, fine) = Use(h, "preview")
    BY <1>2 DEF CreatePreview
  <2>2. /\ Use(h, "preview") \in Graphs /\ Use(h, "preview").at = h.at
        /\ Use(h, "preview").lost = h.lost
        /\ h.at["preview"] = "live" => Use(h, "preview") = h
        /\ h.damage # "none" => Use(h, "preview").damage # "none"
    BY <1>0, UseIs, Zenon
  <2> QED BY <1>2, <2>1, <2>2
<1>3. CASE h.at["preview"] # "null" /\ ~fine
  <2>1. CreatePreview(h, fine) = Release(h, "preview", "dead")
    BY <1>3 DEF CreatePreview
  <2> QED BY <1>0, <1>3, <2>1, ReleaseIs
<1> QED BY <1>1, <1>2, <1>3

LEMMA CreatePoolIs ==
  ASSUME NEW h \in Graphs, NEW pool \in BOOLEAN, h.at["pool"] # "live"
  PROVE  /\ CreatePool(h, pool) \in Graphs /\ CreatePool(h, pool).damage = h.damage
         /\ CreatePool(h, pool).lost = h.lost /\ CreatePool(h, pool).port = h.port
         /\ CreatePool(h, pool).at["pool"] \in {"live", "null"}
         /\ \A p \in Objects \ {"pool"} : CreatePool(h, pool).at[p] = h.at[p]
<1>0. "pool" \in Objects /\ "null" \in Pointers
  BY DEF Objects, Pointers
<1>1. CASE pool
  BY <1>0, <1>1, AssignIs DEF CreatePool
<1>2. CASE ~pool
  <2> DEFINE k == [h EXCEPT !.at["pool"] = "null"]
  <2>1. CreatePool(h, pool) = [k EXCEPT !.lost = h.lost \cup {}]
    BY <1>2 DEF CreatePool, Graphs
  <2>2. /\ k \in Graphs /\ k.damage = h.damage /\ k.lost = h.lost
        /\ k.port = h.port
        /\ \A p \in Objects : k.at[p] = IF p = "pool" THEN "null" ELSE h.at[p]
    BY <1>0, SetAtIs
  <2> HIDE DEF k
  <2>3. [k EXCEPT !.lost = h.lost \cup {}] = k
    BY <2>2 DEF Graphs
  <2> QED BY <1>0, <2>1, <2>2, <2>3
<1> QED BY <1>1, <1>2

LEMMA DestroyEncoderIs ==
  ASSUME NEW h \in Graphs
  PROVE  /\ DestroyEncoder(h) \in Graphs /\ DestroyEncoder(h).lost = h.lost
         /\ h.damage # "none" => DestroyEncoder(h).damage # "none"
         /\ h.at["encoder"] = "live" /\ h.at["pool"] # "dead" =>
              DestroyEncoder(h).damage = h.damage
         /\ DestroyEncoder(h).damage = "none" => DestroyEncoder(h).at["encoder"] = "null"
         /\ DestroyEncoder(h).at["pool"] # "live"
         /\ \A p \in Objects \ {"encoder", "pool"} : DestroyEncoder(h).at[p] = h.at[p]
<1> DEFINE u == Use(h, "encoder")
           k == IF h.at["pool"] = "null" THEN h ELSE Release(u, "pool", "dead")
<1>0. {"encoder", "pool"} \subseteq Objects /\ "dead" \in Pointers
  BY DEF Objects, Components, Pointers
<1>1. /\ u \in Graphs /\ u.at = h.at /\ u.lost = h.lost
      /\ h.damage # "none" => u.damage # "none"
      /\ h.at["encoder"] = "live" => u = h
  BY <1>0, UseIs
<1> HIDE DEF u
<1>2. /\ k \in Graphs /\ k.lost = h.lost
      /\ h.damage # "none" => k.damage # "none"
      /\ k.at["pool"] # "live"
      /\ h.at["encoder"] = "live" /\ h.at["pool"] # "dead" => k.damage = h.damage
      /\ \A p \in Objects \ {"pool"} : k.at[p] = h.at[p]
  <2>1. CASE h.at["pool"] = "null"
    BY <2>1
  <2>2. CASE h.at["pool"] # "null"
    <3>1. k = Release(u, "pool", "dead")
      BY <2>2
    <3> HIDE DEF k
    <3> QED BY <1>0, <1>1, <2>2, <3>1, ReleaseIs
  <2> QED BY <2>1, <2>2
<1>3. DestroyEncoder(h) = Destroy(k, "encoder")
  BY DEF DestroyEncoder, u
<1> DEFINE e == Destroy(k, "encoder")
<1> HIDE DEF k
<1>4. /\ e \in Graphs /\ e.lost = k.lost
      /\ k.damage # "none" => e.damage # "none"
      /\ k.at["encoder"] # "dead" => e.damage = k.damage
      /\ e.damage = "none" => e.at["encoder"] = "null"
      /\ \A p \in Objects \ {"encoder"} : e.at[p] = k.at[p]
  BY <1>0, <1>2, DestroyIs, Zenon
<1> HIDE DEF e
<1>5. DestroyEncoder(h) = e
  BY <1>3 DEF e
<1>6. "encoder" \in Objects \ {"pool"} /\ "pool" # "encoder" /\ "pool" \in Objects
  BY <1>0
<1> QED BY <1>2, <1>4, <1>5, <1>6

LEMMA WipeIs ==
  ASSUME NEW h \in Graphs
  PROVE  /\ Wipe(h) \in Graphs /\ Wipe(h).damage = h.damage /\ AllNull(Wipe(h))
         /\ NoneLive(h) => Wipe(h).lost = {}
         /\ \A c \in Components : h.port[c] # "dead" => Wipe(h).port[c] # "dead"
<1> DEFINE at == [o \in Objects |-> "null"]
           left == {o \in Objects : h.at[o] = "live"}
           port == [c \in Components |->
                      IF c \in left /\ h.port[c] = "live" THEN "lost" ELSE h.port[c]]
           k == [h EXCEPT !.at = at, !.lost = left, !.port = port]
<1>1. /\ h.port \in [Components -> Ports]
  BY GraphParts
<1>2. at \in [Objects -> Pointers] /\ \A o \in Objects : at[o] = "null"
  BY DEF Pointers
<1>3. left \in SUBSET Objects /\ (NoneLive(h) => left = {})
  BY DEF NoneLive
<1>4. /\ port \in [Components -> Ports]
      /\ \A c \in Components : h.port[c] # "dead" => port[c] # "dead"
  <2> HIDE DEF left
  <2> QED BY <1>1 DEF Ports
<1>5. Wipe(h) = k
  BY <1>1 DEF Wipe, EmptyGraph, Graphs
<1> HIDE DEF at, left, port
<1>6. /\ k \in Graphs /\ k.at = at /\ k.lost = left /\ k.port = port
      /\ k.damage = h.damage
  BY <1>2, <1>3, <1>4 DEF Graphs
<1> HIDE DEF k
<1> QED BY <1>2, <1>3, <1>4, <1>5, <1>6 DEF AllNull

-----------------------------------------------------------------------------
(* MMALEncoderWrapper: building, rebuilding and removing                    *)

(* Before the ports are set: what InitEncoder has built from nothing, without *)
(* and with the encoder.                                                    *)
Fresh(h, cok, pok) == CreatePreview(CreateCamera(h, cok), pok)
Full(h, cok, pok, pool) == Assign(CreatePool(Fresh(h, cok, pok), pool), "encoder")

LEMMA FreshIs ==
  ASSUME NEW h \in Graphs, AllNull(h), NEW pool \in BOOLEAN,
         NEW cok \in BOOLEAN, NEW pok \in BOOLEAN,
         NEW pre, pre = Fresh(h, cok, pok), NEW enc, enc = Full(h, cok, pok, pool)
  PROVE  /\ pre \in Graphs /\ pre.damage = h.damage /\ pre.lost = h.lost
         /\ \A p \in Objects : pre.at[p] = CASE p = "camera" /\ cok -> "live"
                                             [] p = "preview" /\ pok -> "live"
                                             [] OTHER -> "null"
         /\ enc \in Graphs /\ enc.damage = h.damage /\ enc.lost = h.lost
         /\ enc.at["encoder"] = "live" /\ enc.at["pool"] \in {"live", "null"}
         /\ \A p \in Objects \ {"encoder", "pool"} : enc.at[p] = pre.at[p]
<1> DEFINE cam == CreateCamera(h, cok)
           withPool == CreatePool(pre, pool)
<1>8. pre = CreatePreview(cam, pok) /\ enc = Assign(withPool, "encoder")
  BY DEF Fresh, Full
<1>0. {"camera", "preview", "encoder", "pool"} \subseteq Objects
  BY DEF Objects, Components
<1>1. /\ cam \in Graphs /\ cam.damage = h.damage /\ cam.lost = h.lost
      /\ cam.port = h.port
      /\ \A p \in Objects : cam.at[p] = IF p = "camera" /\ cok THEN "live" ELSE "null"
  <2>1. CASE cok
    <3>1. cam = Assign(h, "camera") /\ h.at["camera"] # "live"
      BY <1>0, <2>1 DEF CreateCamera, AllNull
    <3>2. /\ Assign(h, "camera") \in Graphs /\ Assign(h, "camera").damage = h.damage
          /\ Assign(h, "camera").lost = h.lost /\ Assign(h, "camera").port = h.port
          /\ \A p \in Objects :
               Assign(h, "camera").at[p] = IF p = "camera" THEN "live" ELSE h.at[p]
      BY <1>0, <3>1, AssignIs, Zenon
    <3> HIDE DEF cam
    <3> QED BY <2>1, <3>1, <3>2 DEF AllNull
  <2>2. CASE ~cok
    BY <2>2 DEF CreateCamera, AllNull
  <2> QED BY <2>1, <2>2
<1> HIDE DEF cam
<1>2. /\ pre \in Graphs /\ pre.damage = cam.damage /\ pre.lost = cam.lost
      /\ pre.port = cam.port
      /\ pre.at["preview"] = IF pok THEN "live" ELSE "null"
      /\ \A p \in Objects \ {"preview"} : pre.at[p] = cam.at[p]
  <2>1. cam.at["preview"] = "null"
    BY <1>0, <1>1
  <2> DEFINE k == CreatePreview(cam, pok)
  <2>2. k \in Graphs /\ k.lost = cam.lost
    BY <1>1, CreatePreviewIs, Zenon
  <2>3. \A p \in Objects \ {"preview"} : k.at[p] = cam.at[p]
    BY <1>1, CreatePreviewIs, Zenon
  <2>4. /\ k.damage = cam.damage /\ k.port = cam.port
        /\ k.at["preview"] = IF pok THEN "live" ELSE "null"
    BY <1>1, <2>1, CreatePreviewIs, Zenon
  <2> HIDE DEF k
  <2>5. pre = k
    BY <1>8 DEF k
  <2> QED BY <2>2, <2>3, <2>4, <2>5
<1>3. \A p \in Objects : pre.at[p] = CASE p = "camera" /\ cok -> "live"
                                       [] p = "preview" /\ pok -> "live"
                                       [] OTHER -> "null"
  <2> SUFFICES ASSUME NEW p \in Objects
               PROVE  pre.at[p] = CASE p = "camera" /\ cok -> "live"
                                    [] p = "preview" /\ pok -> "live"
                                    [] OTHER -> "null"
    OBVIOUS
  <2>1. CASE p = "preview"
    BY <1>2, <2>1
  <2>2. CASE p # "preview"
    BY <1>1, <1>2, <2>2
  <2> QED BY <2>1, <2>2
<1>4. /\ withPool \in Graphs /\ withPool.damage = pre.damage
      /\ withPool.lost = pre.lost
      /\ withPool.at["pool"] \in {"live", "null"}
      /\ \A p \in Objects \ {"pool"} : withPool.at[p] = pre.at[p]
  <2>1. pre.at["pool"] # "live"
    BY <1>0, <1>3
  <2> QED BY <1>2, <2>1, CreatePoolIs, Zenon
<1> HIDE DEF withPool
<1>5. withPool.at["encoder"] # "live"
  BY <1>0, <1>3, <1>4
<1>6. /\ enc \in Graphs /\ enc.damage = withPool.damage /\ enc.lost = withPool.lost
      /\ \A p \in Objects : enc.at[p] = IF p = "encoder" THEN "live" ELSE withPool.at[p]
  <2> DEFINE k == Assign(withPool, "encoder")
  <2>1. k \in Graphs /\ k.damage = withPool.damage /\ k.lost = withPool.lost
    BY <1>0, <1>4, <1>5, AssignIs, Zenon
  <2>2. \A p \in Objects : k.at[p] = IF p = "encoder" THEN "live" ELSE withPool.at[p]
    BY <1>0, <1>4, <1>5, AssignIs, Zenon
  <2> HIDE DEF k
  <2>3. enc = k
    BY <1>8 DEF k
  <2> QED BY <2>1, <2>2, <2>3
<1>7. /\ enc \in Graphs /\ enc.damage = h.damage /\ enc.lost = h.lost
      /\ enc.at["encoder"] = "live" /\ enc.at["pool"] \in {"live", "null"}
      /\ \A p \in Objects \ {"encoder", "pool"} : enc.at[p] = pre.at[p]
  BY <1>0, <1>1, <1>2, <1>4, <1>6
<1> QED BY <1>1, <1>2, <1>3, <1>7

LEMMA BuiltIs ==
  ASSUME NEW h \in Graphs, NEW cok \in BOOLEAN, CameraOf(h, cok),
         NEW pool \in BOOLEAN,
         NEW fail \in {"none", "preview", "encoder", "connect", "enable"}
  PROVE  /\ Built(fail, pool) \in Graphs /\ Built(fail, pool).lost = g.lost
         /\ Built(fail, pool).at["preview_tunnel"] = "null"
         /\ Built(fail, pool).at["camera"] # "dead"
         /\ fail \in {"preview", "encoder"} =>
              NoneLive(Built(fail, pool)) /\ Built(fail, pool).damage = "none"
         /\ cok /\ fail \in {"none", "connect", "enable"} =>
              /\ Built(fail, pool).damage = "none"
              /\ Built(fail, pool).port["camera"] = "live"
         /\ cok /\ fail = "none" => Whole(Built(fail, pool))
         /\ ~cok /\ fail \in {"none", "connect", "enable"} =>
              Built(fail, pool).damage # "none"
<1> DEFINE pok == fail # "preview"
           tok == fail # "connect"
           pre == Fresh(h, cok, pok)
           nul == [pre EXCEPT !.at["encoder"] = "null"]
           full == Full(h, cok, pok, pool)
           enc == IF fail = "encoder" THEN nul ELSE full
           b == Built(fail, pool)
<1>0. /\ Components = {"camera", "preview", "encoder"}
      /\ Objects = {"camera", "preview", "encoder", "pool", "preview_tunnel",
                    "encoder_tunnel"}
      /\ "null" \in Pointers
  BY DEF Objects, Components, Pointers
<1>1. b = CASE fail = "preview" -> Destroy(pre, "camera")
            [] fail = "encoder" -> Destroy(Destroy(enc, "preview"), "camera")
            [] OTHER -> Connect(SetPorts(enc), "encoder_tunnel", tok)
  BY DEF Built, Fresh, Full, CameraOf
<1>2. pok \in BOOLEAN /\ tok \in BOOLEAN
  OBVIOUS
<1>9. /\ pok <=> fail # "preview"
      /\ tok <=> fail # "connect"
  OBVIOUS
<1>10. AllNull(h) /\ h.damage = "none" /\ h.lost = g.lost
  BY DEF CameraOf
<1> HIDE DEF pok, tok, pre, full
<1>3. /\ pre \in Graphs /\ pre.damage = "none" /\ pre.lost = g.lost
      /\ \A p \in Objects : pre.at[p] = CASE p = "camera" /\ cok -> "live"
                                          [] p = "preview" /\ pok -> "live"
                                          [] OTHER -> "null"
      /\ full \in Graphs /\ full.damage = "none" /\ full.lost = g.lost
      /\ full.at["encoder"] = "live" /\ full.at["pool"] \in {"live", "null"}
      /\ \A p \in Objects \ {"encoder", "pool"} : full.at[p] = pre.at[p]
  BY <1>2, <1>10, FreshIs DEF pre, full
<1>4. /\ nul \in Graphs /\ nul.damage = pre.damage /\ nul.lost = pre.lost
      /\ \A p \in Objects : nul.at[p] = IF p = "encoder" THEN "null" ELSE pre.at[p]
  BY <1>0, <1>3, SetAtIs
<1> HIDE DEF nul
<1>6. CASE fail = "preview"
  <2> DEFINE e == Destroy(pre, "camera")
  <2>1. /\ e \in Graphs /\ e.lost = pre.lost
        /\ pre.at["camera"] # "dead" => e.damage = pre.damage
        /\ e.damage = "none" => e.at["camera"] = "null"
        /\ \A p \in Objects \ {"camera"} : e.at[p] = pre.at[p]
    BY <1>0, <1>3, DestroyIs
  <2>2. b = e
    BY <1>1, <1>6
  <2>3. pre.at["camera"] # "dead" /\ \A p \in Objects \ {"camera"} : pre.at[p] = "null"
    BY <1>0, <1>3, <1>6, <1>9
  <2> HIDE DEF e, b
  <2>4. e.damage = "none" /\ e.at["camera"] = "null"
    BY <1>3, <2>1, <2>3
  <2>5. \A p \in Objects : e.at[p] = "null"
    BY <2>1, <2>3, <2>4
  <2>6. /\ b \in Graphs /\ b.damage = "none" /\ b.lost = g.lost
        /\ b.at["preview_tunnel"] = "null" /\ b.at["camera"] # "dead" /\ NoneLive(b)
    BY <1>0, <1>3, <2>1, <2>2, <2>4, <2>5 DEF NoneLive
  <2> QED BY <1>6, <2>6 DEF b
<1>7. CASE fail = "encoder"
  <2> DEFINE d == Destroy(nul, "preview")
             e == Destroy(d, "camera")
  <2>1. /\ nul.at["camera"] # "dead" /\ nul.at["preview"] = "live"
        /\ \A p \in Objects \ {"camera", "preview"} : nul.at[p] = "null"
    BY <1>0, <1>3, <1>4, <1>7, <1>9
  <2>2. /\ d \in Graphs /\ d.lost = nul.lost
        /\ nul.at["preview"] # "dead" => d.damage = nul.damage
        /\ d.damage = "none" => d.at["preview"] = "null"
        /\ \A p \in Objects \ {"preview"} : d.at[p] = nul.at[p]
    BY <1>0, <1>4, DestroyIs, Zenon
  <2>3. b = e
    BY <1>1, <1>7
  <2> HIDE DEF d, b
  <2>4. /\ e \in Graphs /\ e.lost = d.lost
        /\ d.at["camera"] # "dead" => e.damage = d.damage
        /\ e.damage = "none" => e.at["camera"] = "null"
        /\ \A p \in Objects \ {"camera"} : e.at[p] = d.at[p]
    BY <1>0, <2>2, DestroyIs, Zenon
  <2> HIDE DEF e
  <2>5. d.damage = "none" /\ d.at["preview"] = "null" /\ d.at["camera"] # "dead"
    BY <1>0, <1>3, <1>4, <2>1, <2>2
  <2>6. e.damage = "none" /\ \A p \in Objects : e.at[p] = "null"
    BY <1>0, <2>1, <2>2, <2>4, <2>5
  <2>7. /\ b \in Graphs /\ b.damage = "none" /\ b.lost = g.lost
        /\ b.at["preview_tunnel"] = "null" /\ b.at["camera"] # "dead" /\ NoneLive(b)
    BY <1>0, <1>3, <1>4, <2>2, <2>3, <2>4, <2>6 DEF NoneLive
  <2> QED BY <1>7, <2>7 DEF b
<1>8. CASE fail \in {"none", "connect", "enable"}
  <2> DEFINE r == SetPorts(full)
             e == Connect(r, "encoder_tunnel", tok)
  <2>1. /\ full.at["camera"] = IF cok THEN "live" ELSE "null"
        /\ \A c \in Components \ {"camera"} : full.at[c] = "live"
        /\ full.at["preview_tunnel"] = "null" /\ full.at["encoder_tunnel"] = "null"
    BY <1>0, <1>3, <1>8, <1>9
  <2>2. /\ r \in Graphs /\ r.lost = full.lost /\ r.at = full.at
        /\ cok => r.damage = "none" /\ \A c \in Components : r.port[c] = "live"
        /\ ~cok => r.damage # "none"
    BY <1>0, <1>3, <2>1, SetPortsIs
  <2>3. b = e
    BY <1>1, <1>8
  <2> HIDE DEF r, b
  <2>4. /\ e \in Graphs /\ e.damage = r.damage
        /\ e.lost = r.lost /\ e.port = r.port
        /\ tok => e.at["encoder_tunnel"] = "live"
        /\ ~tok => e.at["encoder_tunnel"] = "null"
        /\ \A p \in Objects \ {"encoder_tunnel"} : e.at[p] = r.at[p]
    <3>1. r.at["encoder_tunnel"] # "live" /\ "encoder_tunnel" \in Objects
      BY <1>0, <2>1, <2>2
    <3> QED BY <1>2, <2>2, <3>1, ConnectIs, SMTT(20)
  <2> HIDE DEF e
  <2>5. /\ b \in Graphs /\ b.lost = g.lost
        /\ b.at["preview_tunnel"] = "null" /\ b.at["camera"] # "dead"
        /\ cok => b.damage = "none" /\ b.port["camera"] = "live"
        /\ ~cok => b.damage # "none"
    BY <1>0, <1>3, <2>1, <2>2, <2>3, <2>4
  <2>6. cok /\ fail = "none" => Whole(b)
    BY <1>0, <1>3, <1>9, <2>1, <2>2, <2>3, <2>4 DEF Whole
  <2> QED BY <1>8, <2>5, <2>6 DEF b
<1> QED BY <1>6, <1>7, <1>8

(* What any step of a rebuild or a removal leaves alone.                    *)
Tunnels == {"preview_tunnel", "encoder_tunnel"}

Keeps(h, k) ==
  /\ k \in Graphs /\ k.lost = h.lost
  /\ h.damage # "none" => k.damage # "none"
  /\ \A t \in Tunnels : k.at[t] = h.at[t]

LEMMA ResetCameraIs ==
  ASSUME NEW h \in Graphs, NEW fine \in BOOLEAN
  PROVE  /\ Keeps(h, ResetCamera(h, fine))
         /\ h.at["camera"] = "live" /\ fine => ResetCamera(h, fine) = h
<1> DEFINE u == Use(h, "camera")
<1>0. "camera" \in Objects /\ "dead" \in Pointers /\ Tunnels \subseteq Objects
      /\ "camera" \notin Tunnels
  BY DEF Objects, Components, Pointers, Tunnels
<1>1. /\ u \in Graphs /\ u.at = h.at /\ u.lost = h.lost
      /\ h.damage # "none" => u.damage # "none"
      /\ h.at["camera"] = "live" => u = h
  BY <1>0, UseIs
<1>2. CASE fine
  <2>1. ResetCamera(h, fine) = u
    BY <1>2 DEF ResetCamera
  <2> HIDE DEF u
  <2> QED BY <1>1, <2>1 DEF Keeps
<1>3. CASE ~fine
  <2>1. ResetCamera(h, fine) = Release(u, "camera", "dead")
    BY <1>3 DEF ResetCamera
  <2> DEFINE k == Release(u, "camera", "dead")
  <2> HIDE DEF u
  <2>2. /\ k \in Graphs /\ k.lost = u.lost
        /\ u.damage # "none" => k.damage # "none"
        /\ u.at["camera"] = "dead" => k.at = u.at
        /\ u.at["camera"] # "dead" =>
             \A p \in Objects : k.at[p] = IF p = "camera" THEN "dead" ELSE u.at[p]
    BY <1>0, <1>1, ReleaseIs
  <2> HIDE DEF k
  <2>3. Keeps(h, k)
    BY <1>0, <1>1, <2>2 DEF Keeps
  <2> QED BY <1>3, <2>1, <2>3 DEF k
<1> QED BY <1>2, <1>3

LEMMA DestroyKeeps ==
  ASSUME NEW h \in Graphs, NEW c \in Components
  PROVE  Keeps(h, Destroy(h, c))
<1>1. c \in Objects /\ Tunnels \subseteq Objects \ {c}
  BY DEF Objects, Components, Tunnels
<1> QED BY <1>1, DestroyIs DEF Keeps

LEMMA ResetEncoderIs ==
  ASSUME NEW h \in Graphs, NEW fine \in BOOLEAN
  PROVE  /\ Keeps(h, ResetEncoder(h, fine))
         /\ h.at["encoder"] = "live" /\ fine => ResetEncoder(h, fine) = h
<1>0. "encoder" \in Objects /\ "encoder" \in Components
  BY DEF Objects, Components
<1>1. CASE fine
  <2>1. ResetEncoder(h, fine) = Use(h, "encoder")
    BY <1>1 DEF ResetEncoder
  <2>2. /\ Use(h, "encoder") \in Graphs /\ Use(h, "encoder").at = h.at
        /\ Use(h, "encoder").lost = h.lost
        /\ h.at["encoder"] = "live" => Use(h, "encoder") = h
        /\ h.damage # "none" => Use(h, "encoder").damage # "none"
    BY <1>0, UseIs, Zenon
  <2> QED BY <2>1, <2>2 DEF Keeps
<1>2. CASE ~fine
  BY <1>0, <1>2, DestroyKeeps DEF ResetEncoder
<1> QED BY <1>1, <1>2

LEMMA PreviewKeeps ==
  ASSUME NEW h \in Graphs, NEW fine \in BOOLEAN
  PROVE  /\ Keeps(h, CreatePreview(h, fine))
         /\ h.at["preview"] = "live" /\ fine => CreatePreview(h, fine) = h
<1>1. Tunnels \subseteq Objects \ {"preview"}
  BY DEF Objects, Components, Tunnels
<1> QED BY <1>1, CreatePreviewIs DEF Keeps

LEMMA KeepsOn ==
  ASSUME NEW h, NEW i, NEW k, Keeps(h, i), Keeps(i, k)
  PROVE  Keeps(h, k)
BY DEF Keeps

LEMMA TornIs ==
  ASSUME g \in Graphs
  PROVE  /\ Torn \in Graphs /\ Torn.lost = g.lost
         /\ Torn.at["encoder_tunnel"] # "live"
         /\ \A p \in Objects \ {"encoder_tunnel"} : Torn.at[p] = g.at[p]
         /\ g.damage # "none" \/ g.at["camera"] # "live" => Torn.damage # "none"
         /\ Whole(g) => Torn.damage = g.damage
<1> DEFINE p1 == UsePort(g, "camera")
           p2 == UsePort(p1, "encoder")
           u == Use(p2, "camera")
           c == Cut(u, "encoder_tunnel")
           d == Disable(c)
<1>0. /\ {"camera", "encoder"} \subseteq Components
      /\ {"camera", "encoder_tunnel"} \subseteq Objects
      /\ Components \subseteq Objects \ {"encoder_tunnel"}
  BY DEF Objects, Components
<1>1. /\ p1 \in Graphs /\ p1.at = g.at /\ p1.port = g.port /\ p1.lost = g.lost
      /\ g.port["camera"] # "dead" => p1 = g
      /\ g.damage # "none" => p1.damage # "none"
  BY <1>0, UsePortIs
<1> HIDE DEF p1
<1>2. /\ p2 \in Graphs /\ p2.at = p1.at /\ p2.port = p1.port /\ p2.lost = p1.lost
      /\ p1.port["encoder"] # "dead" => p2 = p1
      /\ p1.damage # "none" => p2.damage # "none"
  BY <1>0, <1>1, UsePortIs, Zenon
<1> HIDE DEF p2
<1>3. /\ u \in Graphs /\ u.at = p2.at /\ u.lost = p2.lost
      /\ p2.at["camera"] = "live" => u = p2
      /\ p2.at["camera"] # "live" => u.damage # "none"
      /\ p2.damage # "none" => u.damage # "none"
  BY <1>0, <1>2, UseIs, Zenon
<1> HIDE DEF u
<1>4. /\ c \in Graphs /\ c.lost = u.lost
      /\ u.damage # "none" => c.damage # "none"
      /\ u.at["encoder_tunnel"] # "dead" => c.damage = u.damage
      /\ c.at["encoder_tunnel"] # "live"
      /\ \A p \in Objects \ {"encoder_tunnel"} : c.at[p] = u.at[p]
  BY <1>0, <1>3, CutIs, Zenon
<1> HIDE DEF c
<1>5. /\ d \in Graphs /\ d.lost = c.lost /\ d.at = c.at
      /\ c.damage # "none" => d.damage # "none"
      /\ (\A o \in Components : c.at[o] # "dead") => d = c
  BY <1>4, DisableIs
<1>6. Torn = d
  BY DEF Torn, p1, p2, u, c
<1> HIDE DEF d
<1>7. /\ \A p \in Objects \ {"encoder_tunnel"} : d.at[p] = g.at[p]
      /\ d.at["encoder_tunnel"] # "live" /\ d.lost = g.lost
      /\ g.damage # "none" \/ g.at["camera"] # "live" => d.damage # "none"
  BY <1>0, <1>1, <1>2, <1>3, <1>4, <1>5
<1>8. ASSUME Whole(g) PROVE d.damage = g.damage
  <2>1. /\ g.port["camera"] # "dead" /\ g.port["encoder"] # "dead"
        /\ g.at["camera"] = "live" /\ g.at["encoder_tunnel"] # "dead"
        /\ \A o \in Components : g.at[o] # "dead"
    BY <1>0, <1>8 DEF Whole
  <2>2. u = g
    BY <1>1, <1>2, <1>3, <2>1
  <2>3. c.damage = g.damage /\ \A o \in Components : c.at[o] # "dead"
    BY <1>0, <1>4, <2>1, <2>2
  <2> QED BY <1>5, <2>3
<1> QED BY <1>5, <1>6, <1>7, <1>8

LEMMA RebuiltIs ==
  ASSUME g \in Graphs,
         NEW fail \in {"none", "stop", "camera", "preview", "encoder", "connect",
                       "enable"}
  PROVE  /\ Rebuilt(fail) \in Graphs /\ Rebuilt(fail).lost = g.lost
         /\ Rebuilt(fail).at["preview_tunnel"] = g.at["preview_tunnel"]
         /\ fail # "stop" /\ (g.damage # "none" \/ g.at["camera"] # "live") =>
              Rebuilt(fail).damage # "none"
         /\ fail = "stop" /\ g.port["camera"] # "dead" => Rebuilt(fail) = g
         /\ fail = "stop" => Rebuilt(fail).at = g.at /\ Rebuilt(fail).port = g.port
         /\ fail = "none" /\ Whole(g) /\ g.damage = "none" =>
              Whole(Rebuilt(fail)) /\ Rebuilt(fail).damage = "none"
<1> DEFINE cok == fail # "camera"
           pok == fail # "preview"
           eok == fail # "encoder"
           tok == fail # "connect"
           cam == ResetCamera(Torn, cok)
           pre == CreatePreview(cam, pok)
           enc == ResetEncoder(pre, eok)
           set == SetPorts(enc)
           b == Rebuilt(fail)
<1>1. b = CASE fail = "stop" -> UsePort(g, "camera")
            [] fail = "camera" -> cam
            [] fail = "preview" -> Destroy(pre, "camera")
            [] fail = "encoder" -> Destroy(Destroy(enc, "preview"), "camera")
            [] OTHER -> Connect(set, "encoder_tunnel", tok)
  BY DEF Rebuilt
<1>2. cok \in BOOLEAN /\ pok \in BOOLEAN /\ eok \in BOOLEAN /\ tok \in BOOLEAN
  OBVIOUS
<1>3. fail = "none" => cok /\ pok /\ eok /\ tok
  OBVIOUS
<1>4. /\ Components = {"camera", "preview", "encoder"}
      /\ Objects = Components \cup {"pool"} \cup Tunnels
      /\ Tunnels = {"preview_tunnel", "encoder_tunnel"}
  BY DEF Objects, Components, Tunnels
<1> HIDE DEF cok, pok, eok, tok
<1>5. Keeps(Torn, cam) /\ (Torn.at["camera"] = "live" /\ cok => cam = Torn)
  BY <1>2, TornIs, ResetCameraIs
<1> HIDE DEF cam
<1>6. Keeps(cam, pre) /\ (cam.at["preview"] = "live" /\ pok => pre = cam)
  <2>1. cam \in Graphs
    BY <1>5 DEF Keeps
  <2> QED BY <1>2, <2>1, PreviewKeeps
<1> HIDE DEF pre
<1>7. Keeps(pre, enc) /\ (pre.at["encoder"] = "live" /\ eok => enc = pre)
  <2>1. pre \in Graphs
    BY <1>6 DEF Keeps
  <2> QED BY <1>2, <2>1, ResetEncoderIs
<1> HIDE DEF enc
<1>8. Keeps(Torn, pre) /\ Keeps(Torn, enc)
  BY <1>5, <1>6, <1>7, KeepsOn
<1>9. CASE fail = "stop"
  <2>1. "camera" \in Components
    BY <1>4
  <2> QED BY <1>1, <1>9, <2>1, UsePortIs
<1>10. ASSUME Keeps(Torn, b), fail \notin {"none", "stop"}
       PROVE  /\ b \in Graphs /\ b.lost = g.lost
              /\ b.at["preview_tunnel"] = g.at["preview_tunnel"]
              /\ g.damage # "none" \/ g.at["camera"] # "live" => b.damage # "none"
  BY <1>4, <1>10, TornIs DEF Keeps
<1>11. CASE fail = "camera"
  <2>1. b = cam
    BY <1>1, <1>11
  <2> HIDE DEF b
  <2>2. Keeps(Torn, b)
    BY <1>5, <2>1
  <2> QED BY <1>10, <1>11, <2>2 DEF b
<1>12. CASE fail = "preview"
  <2>1. b = Destroy(pre, "camera")
    BY <1>1, <1>12
  <2>2. pre \in Graphs /\ "camera" \in Components
    BY <1>4, <1>8 DEF Keeps
  <2>3. Keeps(pre, Destroy(pre, "camera"))
    BY <2>2, DestroyKeeps
  <2> HIDE DEF b
  <2>4. Keeps(Torn, b)
    BY <1>8, <2>1, <2>3, KeepsOn
  <2> QED BY <1>10, <1>12, <2>4 DEF b
<1>13. CASE fail = "encoder"
  <2> DEFINE d == Destroy(enc, "preview")
  <2>1. b = Destroy(d, "camera")
    BY <1>1, <1>13
  <2>2. enc \in Graphs /\ {"preview", "camera"} \subseteq Components
    BY <1>4, <1>8 DEF Keeps
  <2>3. Keeps(enc, d)
    BY <2>2, DestroyKeeps
  <2> HIDE DEF d, b
  <2>4. d \in Graphs
    BY <2>3 DEF Keeps
  <2>5. Keeps(d, b)
    BY <2>1, <2>2, <2>4, DestroyKeeps
  <2>6. Keeps(Torn, b)
    BY <1>8, <2>3, <2>5, KeepsOn
  <2> QED BY <1>10, <1>13, <2>6 DEF b
<1>14. CASE fail \in {"none", "connect", "enable"}
  <2>1. enc \in Graphs
    BY <1>8 DEF Keeps
  <2>2. /\ set \in Graphs /\ set.lost = enc.lost /\ set.at = enc.at
        /\ enc.damage # "none" => set.damage # "none"
        /\ enc.damage = "none" /\ (\A c \in Components : enc.at[c] = "live") =>
             /\ set.damage = "none"
             /\ \A c \in Components : set.port[c] = "live"
    BY <2>1, SetPortsIs
  <2> HIDE DEF set, b
  <2>3. set.at["encoder_tunnel"] # "live" /\ "encoder_tunnel" \in Objects
    BY <1>4, <1>8, <2>2, TornIs DEF Keeps
  <2> DEFINE e == Connect(set, "encoder_tunnel", tok)
  <2>4. /\ e \in Graphs /\ e.damage = set.damage
        /\ e.lost = set.lost /\ e.port = set.port
        /\ tok => e.at["encoder_tunnel"] = "live"
        /\ \A p \in Objects \ {"encoder_tunnel"} : e.at[p] = set.at[p]
    BY <1>2, <2>2, <2>3, ConnectIs, SMTT(20)
  <2>5. b = e
    BY <1>1, <1>14
  <2> HIDE DEF e
  <2>6. /\ b \in Graphs /\ b.lost = g.lost
        /\ b.at["preview_tunnel"] = g.at["preview_tunnel"]
        /\ g.damage # "none" \/ g.at["camera"] # "live" => b.damage # "none"
    BY <1>4, <1>8, <2>2, <2>4, <2>5, TornIs DEF Keeps
  <2>7. ASSUME fail = "none", Whole(g), g.damage = "none"
        PROVE  Whole(b) /\ b.damage = "none"
    <3>1. /\ Torn.damage = "none" /\ \A c \in Components : Torn.at[c] = "live"
          /\ Torn.at["pool"] \in {"live", "null"}
      BY <1>4, <2>7, TornIs DEF Whole
    <3>2. enc = Torn
      BY <1>3, <1>4, <1>5, <1>6, <1>7, <2>7, <3>1
    <3> QED BY <1>3, <1>4, <2>2, <2>4, <2>5, <2>7, <3>1, <3>2 DEF Whole
  <2> QED BY <1>14, <2>6, <2>7 DEF b
<1> QED BY <1>9, <1>11, <1>12, <1>13, <1>14

LEMMA RemovedIs ==
  ASSUME g \in Graphs
  PROVE  /\ Removed \in Graphs /\ Removed.lost = g.lost
         /\ Removed.at["preview_tunnel"] = g.at["preview_tunnel"]
         /\ Removed.damage = "none" /\ g.at["preview_tunnel"] # "live" => NoneLive(Removed)
         /\ Removed.damage = "none" => Removed.at["camera"] = "null"
         /\ Whole(g) => Removed.damage = g.damage
<1> DEFINE p1 == UsePort(g, "camera")
           p2 == UsePort(p1, "encoder")
           c == Cut(p2, "encoder_tunnel")
           d == Disable(c)
           e == DestroyEncoder(d)
           v == Destroy(e, "preview")
           r == Destroy(v, "camera")
<1>0. /\ Components = {"camera", "preview", "encoder"}
      /\ Objects = {"camera", "preview", "encoder", "pool", "preview_tunnel",
                    "encoder_tunnel"}
  BY DEF Objects, Components
<1>1. /\ p1 \in Graphs /\ p1.at = g.at /\ p1.port = g.port /\ p1.lost = g.lost
      /\ g.port["camera"] # "dead" => p1 = g
  BY <1>0, UsePortIs
<1> HIDE DEF p1
<1>2. /\ p2 \in Graphs /\ p2.at = p1.at /\ p2.lost = p1.lost
      /\ p1.port["encoder"] # "dead" => p2 = p1
  BY <1>0, <1>1, UsePortIs
<1> HIDE DEF p2
<1>3. /\ c \in Graphs /\ c.lost = p2.lost
      /\ p2.at["encoder_tunnel"] # "dead" => c.damage = p2.damage
      /\ c.at["encoder_tunnel"] # "live"
      /\ \A p \in Objects \ {"encoder_tunnel"} : c.at[p] = p2.at[p]
  BY <1>0, <1>2, CutIs
<1> HIDE DEF c
<1>4. /\ d \in Graphs /\ d.lost = c.lost /\ d.at = c.at
      /\ (\A o \in Components : c.at[o] # "dead") => d = c
  BY <1>3, DisableIs
<1> HIDE DEF d
<1>5. /\ e \in Graphs /\ e.lost = d.lost
      /\ d.at["encoder"] = "live" /\ d.at["pool"] # "dead" => e.damage = d.damage
      /\ e.damage = "none" => e.at["encoder"] = "null"
      /\ e.at["pool"] # "live"
      /\ \A p \in Objects \ {"encoder", "pool"} : e.at[p] = d.at[p]
  BY <1>4, DestroyEncoderIs
<1> HIDE DEF e
<1>6. /\ v \in Graphs /\ v.lost = e.lost
      /\ e.damage # "none" => v.damage # "none"
      /\ e.at["preview"] # "dead" => v.damage = e.damage
      /\ v.damage = "none" => v.at["preview"] = "null"
      /\ \A p \in Objects \ {"preview"} : v.at[p] = e.at[p]
  BY <1>0, <1>5, DestroyIs
<1> HIDE DEF v
<1>7. /\ r \in Graphs /\ r.lost = v.lost
      /\ v.damage # "none" => r.damage # "none"
      /\ v.at["camera"] # "dead" => r.damage = v.damage
      /\ r.damage = "none" => r.at["camera"] = "null"
      /\ \A p \in Objects \ {"camera"} : r.at[p] = v.at[p]
  BY <1>0, <1>6, DestroyIs
<1>8. Removed = r
  BY DEF Removed, p1, p2, c, d, e, v
<1> HIDE DEF r
<1>9. /\ r.at["preview_tunnel"] = g.at["preview_tunnel"] /\ r.lost = g.lost
      /\ r.at["encoder_tunnel"] # "live" /\ r.at["pool"] # "live"
  BY <1>0, <1>1, <1>2, <1>3, <1>4, <1>5, <1>6, <1>7
<1>10. r.damage = "none" =>
         /\ r.at["camera"] = "null" /\ r.at["preview"] = "null"
         /\ r.at["encoder"] = "null"
  BY <1>0, <1>5, <1>6, <1>7
<1>11. ASSUME Whole(g) PROVE r.damage = g.damage
  <2>1. /\ \A o \in Components : g.at[o] = "live" /\ g.port[o] = "live"
        /\ g.at["encoder_tunnel"] # "dead" /\ g.at["pool"] # "dead"
    BY <1>11 DEF Whole
  <2>2. p2 = g
    BY <1>0, <1>1, <1>2, <2>1
  <2>3. c.damage = g.damage /\ \A o \in Components \cup {"pool"} : c.at[o] = g.at[o]
    BY <1>0, <1>3, <2>1, <2>2
  <2>4. d = c
    BY <1>4, <2>1, <2>3
  <2>5. e.damage = g.damage /\ e.at["preview"] = "live" /\ e.at["camera"] = "live"
    BY <1>0, <1>5, <2>1, <2>3, <2>4
  <2> QED BY <1>0, <1>6, <1>7, <2>5
<1> QED BY <1>0, <1>7, <1>8, <1>9, <1>10, <1>11 DEF NoneLive

-----------------------------------------------------------------------------
(* The steps of the system *)

LEMMA EmptyIs ==
  /\ EmptyGraph \in Graphs /\ AllNull(EmptyGraph)
  /\ EmptyGraph.damage = "none" /\ EmptyGraph.lost = {}
  /\ EmptyGraph.at["preview_tunnel"] = "null" /\ EmptyGraph.at["camera"] = "null"
  /\ EmptyGraph.port["camera"] = "null"
BY DEF EmptyGraph, Graphs, AllNull, Pointers, Ports, Damages, Objects, Components

LEMMA BootGraphInv == Init => GraphInv
<1> SUFFICES ASSUME Init PROVE GraphInv
  OBVIOUS
<1>1. /\ g = EmptyGraph /\ ~inited /\ inited = FALSE /\ pending = FALSE
      /\ builder = [t \in Threads |-> "idle"] /\ pc = "idle"
      /\ attached = FALSE /\ images = 1 /\ drain = "none" /\ quit = FALSE
      /\ flow = "disabled" /\ fault = "none" /\ happened = {}
  BY DEF Init, Boot
<1>2. TypeOK
  <2>1. g \in Graphs
    BY <1>1, EmptyIs, Zenon
  <2>2. builder \in [Threads -> Builders]
    BY <1>1 DEF Builders
  <2>3. images \in 0..1
    BY <1>1
  <2> QED BY <1>1, <2>1, <2>2, <2>3 DEF TypeOK, Graphs, Faults
<1>3. GraphSound /\ NothingLost
  BY <1>1, EmptyIs DEF GraphSound, NothingLost, AllNull, NoneLive
<1>4. DamageKinds /\ OverlapNoted /\ Stages
  BY <1>1, EmptyIs DEF DamageKinds, OverlapNoted, Stages, Threads
<1> QED BY <1>1, <1>2, <1>3, <1>4, EmptyIs DEF GraphInv

LEMMA RestartGraphInv == Restart => GraphInv'
<1> SUFFICES ASSUME Restart PROVE GraphInv'
  OBVIOUS
<1>1. /\ g' = EmptyGraph /\ inited' = FALSE /\ pending' = FALSE
      /\ builder' = [t \in Threads |-> "idle"] /\ pc' = "idle"
      /\ attached' = FALSE /\ images' = 1 /\ drain' = "none" /\ quit' = FALSE
      /\ flow' = "disabled" /\ fault' = "none" /\ happened' = {}
  BY DEF Restart, Boot
<1>2. TypeOK'
  <2>1. g' \in Graphs
    BY <1>1, EmptyIs, Zenon
  <2>2. builder' \in [Threads -> Builders]
    BY <1>1 DEF Builders
  <2>3. images' \in 0..1
    BY <1>1
  <2> QED BY <1>1, <2>1, <2>2, <2>3 DEF TypeOK, Graphs, Faults
<1>3. GraphSound' /\ NothingLost'
  BY <1>1, EmptyIs DEF GraphSound, NothingLost, AllNull, NoneLive
<1>4. DamageKinds' /\ OverlapNoted' /\ Stages'
  BY <1>1, EmptyIs DEF DamageKinds, OverlapNoted, Stages, Threads
<1> QED BY <1>1, <1>2, <1>3, <1>4, EmptyIs DEF GraphInv

(* A step that leaves the pointers and what is noted as they are.           *)
LEMMA GraphKept ==
  ASSUME GraphInv, Alive, g' \in Graphs, g'.at = g.at, g'.port = g.port,
         g'.lost = g.lost, inited' = inited, happened' = happened,
         pc' = pc \/ (pc # "build" /\ pc' \notin {"init", "build", "stop"}),
         TypeOK', DamageKinds', OverlapNoted', Stages'
  PROVE  GraphInv'
<1>1. g.damage = "none"
  BY DEF Alive
<1>2. Clean' <=> Clean
  BY DEF Clean
<1>3. Whole(g') <=> Whole(g)
  BY DEF Whole
<1>4. (NoneLive(g') <=> NoneLive(g)) /\ (AllNull(g') <=> AllNull(g))
  BY DEF NoneLive, AllNull
<1>5. g'.damage = "none" /\ Building => Building'
  <2>1. g \in Graphs
    BY DEF GraphInv, TypeOK, Graphs
  <2>2. g'.damage = "none" => g' = g
    BY <1>1, <2>1 DEF Graphs
  <2> QED BY <2>2 DEF Building, CameraOf
<1>5a. GraphSound'
  BY <1>1, <1>2, <1>3, <1>4, <1>5 DEF GraphSound, GraphInv
<1>6. NothingLost'
  BY DEF NothingLost, GraphInv
<1> QED BY <1>5a, <1>6 DEF GraphInv

(* A step that destroys the camera, or forgets it, and Zoom's pointer.      *)
LEMMA ZoomLosesIs ==
  ASSUME builder \in [Threads -> Builders], NEW how \in Builders,
         NEW lost, lost = ZoomLoses(builder, how)
  PROVE  /\ lost \in [Threads -> Builders]
         /\ \A t \in Threads : lost[t] # builder[t] =>
              t = "main" /\ builder[t] = "zoom" /\ lost[t] = how
         /\ builder["main"] # "zoom" => lost = builder
BY DEF ZoomLoses, Threads

(* A step that uses the graph of an initialised encoder.                    *)
LEMMA InUse ==
  ASSUME GraphInv, Alive, inited, g' \in Graphs, Whole(g) => g' = g,
         happened' = happened
  PROVE  DamageKinds'
<1>1. g.damage = "none"
  BY DEF Alive
<1>2. CASE Clean
  BY <1>1, <1>2 DEF GraphInv, GraphSound, DamageKinds
<1>3. CASE ~Clean
  BY <1>3 DEF Clean, DamageKinds
<1> QED BY <1>2, <1>3

LEMMA GraphOf == ASSUME GraphInv PROVE g \in Graphs
BY DEF GraphInv, TypeOK, Graphs

LEMMA CaptureIs ==
  ASSUME g \in Graphs, fault \in Faults, Capture
  PROVE  /\ g' \in Graphs /\ g'.at = g.at /\ g'.port = g.port /\ g'.lost = g.lost
         /\ Whole(g) => g' = g
         /\ fault' \in Faults
<1> DEFINE u == Use(g, "pool")
           p == UsePort(u, "encoder")
           q == UsePort(p, "camera")
<1>0. "pool" \in Objects /\ {"encoder", "camera"} \subseteq Components
  BY DEF Objects, Components
<1>1. /\ u \in Graphs /\ u.at = g.at /\ u.port = g.port /\ u.lost = g.lost
      /\ g.at["pool"] = "live" => u = g
  BY <1>0, UseIs
<1> HIDE DEF u
<1>2. /\ p \in Graphs /\ p.at = u.at /\ p.port = u.port /\ p.lost = u.lost
      /\ u.port["encoder"] # "dead" => p = u
  BY <1>0, <1>1, UsePortIs
<1> HIDE DEF p
<1>3. /\ q \in Graphs /\ q.at = p.at /\ q.port = p.port /\ q.lost = p.lost
      /\ p.port["camera"] # "dead" => q = p
  BY <1>0, <1>2, UsePortIs
<1> HIDE DEF q
<1>4. CASE g.at["pool"] # "null" /\ g' = q /\ UNCHANGED fault
  <2>1. ASSUME Whole(g) PROVE q = g
    <3>1. /\ g.at["pool"] = "live" /\ g.port["encoder"] # "dead"
          /\ g.port["camera"] # "dead"
      BY <1>0, <1>4, <2>1 DEF Whole
    <3> QED BY <1>1, <1>2, <1>3, <3>1
  <2> QED BY <1>1, <1>2, <1>3, <1>4, <2>1
<1>5. CASE fault' = "no_pool" /\ UNCHANGED g
  BY <1>5 DEF Faults
<1> QED BY <1>4, <1>5 DEF Capture, u, p, q

LEMMA ReinitKeeps ==
  ASSUME GraphInv, NEW t \in Threads, Alive, Reinit(t)
  PROVE  GraphInv'
<1>1. PICK fail \in {"none", "stop", "camera", "preview", "encoder", "connect",
                     "enable"} :
        /\ g' = Rebuilt(fail)
        /\ builder' = [(IF fail \in {"camera", "preview", "encoder"}
                        THEN ZoomLoses(builder, "zoom_dead") ELSE builder)
                      EXCEPT ![t] = IF fail = "none" THEN "capture" ELSE "idle"]
        /\ Note(IF fail \in {"none", "stop"} THEN {} ELSE {"rebuild"})
  BY DEF Reinit
<1>2. /\ UNCHANGED <<inited, pending, pc, attached, images, flow, drain, quit, fault>>
      /\ builder[t] = "checked" /\ g.damage = "none" /\ pc # "build"
  BY DEF Reinit, Alive, implVars, drainVars
<1>3. g \in Graphs
  BY GraphOf
<1>4. /\ g' \in Graphs /\ g'.lost = g.lost
      /\ g'.at["preview_tunnel"] = g.at["preview_tunnel"]
      /\ fail # "stop" /\ g.at["camera"] # "live" => g'.damage # "none"
      /\ fail = "stop" /\ g.port["camera"] # "dead" => g' = g
      /\ fail = "stop" => g'.at = g.at /\ g'.port = g.port
      /\ fail = "none" /\ Whole(g) => Whole(g') /\ g'.damage = "none"
  BY <1>1, <1>2, <1>3, RebuiltIs
<1>5. /\ happened' = happened \cup (IF fail \in {"none", "stop"} THEN {} ELSE {"rebuild"})
      /\ builder \in [Threads -> Builders] /\ builder' \in [Threads -> Builders]
      /\ \A s \in Threads : builder'[s] # builder[s] =>
           \/ s = t /\ builder'[s] \in {"capture", "idle"}
           \/ s = "main" /\ builder'[s] = "zoom_dead" /\ "rebuild" \in happened'
  <2> DEFINE lost == ZoomLoses(builder, "zoom_dead")
             from == IF fail \in {"camera", "preview", "encoder"} THEN lost ELSE builder
  <2>1. builder \in [Threads -> Builders] /\ {"zoom_dead", "capture", "idle"} \subseteq Builders
    BY DEF GraphInv, TypeOK, Builders
  <2>2. /\ lost \in [Threads -> Builders]
        /\ \A s \in Threads : lost[s] # builder[s] => s = "main" /\ lost[s] = "zoom_dead"
    BY <2>1, ZoomLosesIs
  <2>3. builder' = [from EXCEPT ![t] = IF fail = "none" THEN "capture" ELSE "idle"]
    BY <1>1
  <2>4. happened' = happened \cup (IF fail \in {"none", "stop"} THEN {} ELSE {"rebuild"})
    BY <1>1 DEF Note
  <2> HIDE DEF lost
  <2>5. /\ from \in [Threads -> Builders]
        /\ \A s \in Threads : from[s] # builder[s] =>
             s = "main" /\ from[s] = "zoom_dead" /\ "rebuild" \in happened'
    BY <2>1, <2>2, <2>4
  <2> HIDE DEF from
  <2> QED BY <2>1, <2>3, <2>4, <2>5
<1>6. TypeOK'
  BY <1>2, <1>4, <1>5 DEF GraphInv, TypeOK, Graphs, Causes
<1>7. OverlapNoted'
  BY <1>2, <1>5 DEF GraphInv, OverlapNoted, Clean, Threads
<1>8. Stages'
  BY <1>2, <1>5 DEF GraphInv, Stages
<1>9. NothingLost'
  BY <1>4, <1>5 DEF GraphInv, NothingLost
<1>10. ~inited => "overlap" \in happened /\ "overlap" \in happened'
  BY <1>2, <1>5 DEF GraphInv, OverlapNoted
<1>11. Clean' => Clean /\ inited /\ fail \in {"none", "stop"}
  BY <1>5, <1>10 DEF Clean
<1>12. Clean' => Whole(g)
  BY <1>2, <1>11 DEF GraphInv, GraphSound
<1>13. Clean' => Whole(g') /\ g'.damage = "none"
  <2>1. CASE fail = "none"
    BY <1>4, <1>12, <2>1
  <2>2. CASE fail = "stop"
    <3>1. Whole(g) => g.port["camera"] # "dead"
      BY DEF Whole, Components
    <3> QED BY <1>2, <1>4, <1>12, <2>2, <3>1
  <2> QED BY <1>11, <2>1, <2>2
<1>14. DamageKinds'
  <2>1. happened' \in {{}, {"late_init"}, {"early_init"}} => Clean'
    BY DEF Clean
  <2> QED BY <1>13, <2>1 DEF DamageKinds
<1>15. ASSUME g'.damage = "none" PROVE
         /\ inited' /\ Clean' => Whole(g')
         /\ ~inited' /\ "late_init" \notin happened' => NoneLive(g')
         /\ ~inited' /\ pc' = "init" => AllNull(g')
         /\ pc' # "build"
         /\ Clean' => g'.at["camera"] # "dead"
         /\ pc' = "stop" /\ happened' = {"late_init"} => g'.port["camera"] # "dead"
  <2>1. Clean' => g'.at["camera"] # "dead"
    BY <1>13 DEF Whole, Components
  <2>2. pc = "stop" => ~inited
    BY DEF GraphInv, Stages
  <2>3. pc' = "stop" => happened' # {"late_init"}
    BY <1>2, <1>10, <2>2
  <2>4. ASSUME ~inited
        PROVE  /\ "late_init" \notin happened => NoneLive(g')
               /\ pc = "init" => AllNull(g')
    <3>1. /\ "late_init" \notin happened => NoneLive(g)
          /\ pc = "init" => AllNull(g)
      BY <1>2, <2>4 DEF GraphInv, GraphSound
    <3>2. NoneLive(g) \/ AllNull(g) => g.at["camera"] # "live"
      BY DEF NoneLive, AllNull, Objects, Components
    <3>3. NoneLive(g) \/ AllNull(g) => fail = "stop"
      BY <1>4, <1>15, <3>2
    <3>4. NoneLive(g) \/ AllNull(g) => g'.at = g.at
      BY <1>4, <3>3
    <3> QED BY <3>1, <3>4 DEF NoneLive, AllNull
  <2> QED BY <1>2, <1>5, <1>13, <2>1, <2>3, <2>4
<1>16. GraphSound'
  BY <1>15 DEF GraphSound
<1> QED BY <1>4, <1>6, <1>7, <1>8, <1>9, <1>14, <1>16 DEF GraphInv

LEMMA StartCaptureKeeps ==
  ASSUME GraphInv, NEW t \in Threads, StartCapture(t)
  PROVE  GraphInv'
<1>1. /\ UNCHANGED <<inited, pending, pc, attached, images, flow, drain, quit, happened>>
      /\ Alive /\ builder[t] = "capture" /\ builder' = [builder EXCEPT ![t] = "idle"]
      /\ Capture
  BY DEF StartCapture, implVars, drainVars, Move
<1>2. g \in Graphs /\ fault \in Faults
  BY GraphOf DEF GraphInv, TypeOK
<1>3. /\ g' \in Graphs /\ g'.at = g.at /\ g'.port = g.port /\ g'.lost = g.lost
      /\ Whole(g) => g' = g
      /\ fault' \in Faults
  BY <1>1, <1>2, CaptureIs
<1>4. DamageKinds'
  <2>1. CASE inited
    BY <1>1, <1>3, <2>1, InUse
  <2>2. CASE ~inited
    <3>1. "overlap" \in happened'
      BY <1>1, <2>2 DEF GraphInv, OverlapNoted
    <3> QED BY <3>1 DEF DamageKinds
  <2> QED BY <2>1, <2>2
<1>5. TypeOK'
  BY <1>1, <1>3 DEF GraphInv, TypeOK, Graphs, Builders
<1>6. OverlapNoted' /\ Stages'
  BY <1>1 DEF GraphInv, OverlapNoted, Stages, TypeOK, Clean, Threads
<1> QED BY <1>1, <1>3, <1>4, <1>5, <1>6, GraphKept

LEMMA MainKeeps ==
  ASSUME GraphInv, MainStep \/ Task
  PROVE  GraphInv'
<1>0. g \in Graphs
  BY GraphOf
<1>1. CASE Apply
  <2>1. /\ UNCHANGED <<g, inited, pending, pc, attached, images, flow, drain, quit, fault,
                       happened>>
        /\ Alive /\ builder' = [builder EXCEPT !["main"] = IF inited THEN "apply" ELSE "wipe"]
    BY <1>1 DEF Apply, wrapperVars, implVars, drainVars, Move
  <2>2. TypeOK'
    BY <2>1 DEF GraphInv, TypeOK, Threads, Builders
  <2>3. OverlapNoted' /\ Stages' /\ DamageKinds'
    BY <2>1 DEF GraphInv, OverlapNoted, Stages, TypeOK, DamageKinds, Clean, Threads
  <2> QED BY <1>0, <2>1, <2>2, <2>3, GraphKept
<1>2. CASE ApplyReinit
  <2>1. /\ UNCHANGED <<g, inited, pending, pc, attached, images, flow, drain, quit, fault,
                       happened>>
        /\ Alive /\ builder' = [builder EXCEPT !["main"] = IF inited THEN "checked" ELSE "idle"]
    BY <1>2 DEF ApplyReinit, ReinitEncoder, wrapperVars, implVars, drainVars, Move
  <2>2. TypeOK'
    BY <2>1 DEF GraphInv, TypeOK, Threads, Builders
  <2>3. OverlapNoted' /\ Stages' /\ DamageKinds'
    BY <2>1 DEF GraphInv, OverlapNoted, Stages, TypeOK, DamageKinds, Clean, Threads
  <2> QED BY <1>0, <2>1, <2>2, <2>3, GraphKept
<1>3. CASE Task
  <2>1. /\ UNCHANGED <<g, inited, pc, attached, images, flow, drain, quit, fault, happened>>
        /\ Alive /\ pending' = FALSE /\ inited
        /\ builder' = [builder EXCEPT !["task"] = IF inited THEN "checked" ELSE "idle"]
    BY <1>3 DEF Task, ReinitEncoder, implVars, drainVars, Move
  <2>2. TypeOK'
    BY <2>1 DEF GraphInv, TypeOK, Threads, Builders
  <2>3. OverlapNoted' /\ Stages' /\ DamageKinds'
    BY <2>1 DEF GraphInv, OverlapNoted, Stages, TypeOK, DamageKinds, Clean, Threads
  <2> QED BY <1>0, <2>1, <2>2, <2>3, GraphKept
<1>4. CASE Zoom
  <2>1. /\ UNCHANGED <<inited, pending, pc, attached, images, flow, drain, quit, happened>>
        /\ Alive /\ fault' \in {fault, "no_camera"}
        /\ builder' = builder \/ builder' = [builder EXCEPT !["main"] = "zoom"]
        /\ g' = g \/ (g.at["camera"] # "null" /\ g' = Use(g, "camera"))
    BY <1>4 DEF Zoom, implVars, drainVars, Move
  <2>2. "camera" \in Objects /\ "camera" \in Components
    BY DEF Objects, Components
  <2>3. /\ g' \in Graphs /\ g'.at = g.at /\ g'.port = g.port /\ g'.lost = g.lost
        /\ g.at["camera"] = "live" => g' = g
        /\ g.at["camera"] = "null" => g' = g
    BY <1>0, <2>1, <2>2, UseIs
  <2>4. DamageKinds'
    <3>1. CASE inited
      <4>1. Whole(g) => g' = g
        BY <2>2, <2>3 DEF Whole
      <4> QED BY <2>1, <2>3, <3>1, <4>1, InUse
    <3>2. CASE ~inited /\ Clean
      <4>1. g.at["camera"] # "dead" /\ g.at["camera"] \in Pointers /\ g.damage = "none"
        BY <1>0, <2>1, <2>2, <3>2, GraphParts DEF GraphInv, GraphSound, Alive
      <4>2. g' = g
        BY <2>3, <4>1 DEF Pointers
      <4> QED BY <2>1, <4>1, <4>2 DEF DamageKinds
    <3>3. CASE ~Clean
      BY <2>1, <3>3 DEF Clean, DamageKinds
    <3> QED BY <3>1, <3>2, <3>3
  <2>5. TypeOK'
    BY <2>1, <2>3 DEF GraphInv, TypeOK, Graphs, Faults, Builders
  <2>6. OverlapNoted' /\ Stages'
    BY <2>1 DEF GraphInv, OverlapNoted, Stages, TypeOK, Clean
  <2> QED BY <2>1, <2>3, <2>4, <2>5, <2>6, GraphKept
<1>4a. CASE ZoomSets
  <2>1. /\ UNCHANGED <<inited, pending, pc, attached, images, flow, drain, quit, fault,
                       happened>>
        /\ Alive /\ builder' = [builder EXCEPT !["main"] = "idle"]
        /\ g' = g \/ (builder["main"] = "zoom_dead" /\ g' = Harm(g, "dead_component"))
    BY <1>4a DEF ZoomSets, implVars, drainVars, Move
  <2>2. /\ g' \in Graphs /\ g'.at = g.at /\ g'.port = g.port /\ g'.lost = g.lost
        /\ g' # g => builder["main"] = "zoom_dead"
    BY <1>0, <2>1, HarmIs DEF Damages
  <2>3. DamageKinds'
    <3>1. CASE g' = g
      BY <2>1, <3>1 DEF GraphInv, DamageKinds
    <3>2. CASE g' # g
      <4>1. ~Clean
        BY <2>2, <3>2 DEF GraphInv, OverlapNoted
      <4> QED BY <2>1, <4>1 DEF Clean, DamageKinds
    <3> QED BY <3>1, <3>2
  <2>4. TypeOK'
    BY <2>1, <2>2 DEF GraphInv, TypeOK, Graphs, Builders, Threads
  <2>5. OverlapNoted' /\ Stages'
    BY <2>1 DEF GraphInv, OverlapNoted, Stages, TypeOK, Threads
  <2> QED BY <2>1, <2>2, <2>3, <2>4, <2>5, GraphKept
<1>5. CASE ApplyWipes
  <2>1. /\ UNCHANGED <<inited, pending, pc, attached, images, flow, drain, quit, fault>>
        /\ Alive /\ builder' = [builder EXCEPT !["main"] = "apply"]
        /\ g' = Wipe(g) /\ happened' = happened \cup (IF inited \/ pc = "build" THEN {"overlap"}
                                                     ELSE {})
    BY <1>5 DEF ApplyWipes, implVars, drainVars, Move, Note
  <2>2. /\ g' \in Graphs /\ g'.damage = "none" /\ AllNull(g')
        /\ NoneLive(g) => g'.lost = {}
        /\ \A c \in Components : g.port[c] # "dead" => g'.port[c] # "dead"
    BY <1>0, <2>1, WipeIs DEF Alive
  <2>3. TypeOK'
    BY <2>1, <2>2 DEF GraphInv, TypeOK, Graphs, Causes, Threads, Builders
  <2>4. OverlapNoted' /\ Stages' /\ DamageKinds'
    BY <2>1, <2>2 DEF GraphInv, OverlapNoted, Stages, TypeOK, DamageKinds, Threads
  <2>5. /\ inited => ~Clean'
        /\ pc = "stop" => ~inited
        /\ ~inited /\ pc # "build" => happened' = happened
        /\ inited \/ pc = "build" => "overlap" \in happened'
    BY <2>1 DEF Clean, GraphInv, Stages
  <2>6. ~inited /\ pc # "build" /\ "late_init" \notin happened => NoneLive(g)
    BY <2>1 DEF GraphInv, GraphSound, Alive
  <2>7. pc = "stop" /\ happened = {"late_init"} => g'.port["camera"] # "dead"
    BY <2>1, <2>2 DEF GraphInv, GraphSound, Alive, Components
  <2>8. NoneLive(g') /\ g'.at["camera"] = "null" /\ g'.at["preview_tunnel"] = "null"
    BY <2>2 DEF AllNull, NoneLive, Objects, Components
  <2>8a. pc = "build" => Building'
    <3>1. CreateCamera(g', FALSE) = g'
      BY DEF CreateCamera
    <3> QED BY <2>2, <2>5, <3>1 DEF Building, CameraOf
  <2>9. GraphSound'
    BY <2>1, <2>2, <2>5, <2>7, <2>8, <2>8a DEF GraphSound
  <2>10. NothingLost'
    BY <2>1, <2>2, <2>5, <2>6 DEF NothingLost
  <2> QED BY <2>3, <2>4, <2>8, <2>9, <2>10 DEF GraphInv
<1> QED BY <1>1, <1>2, <1>3, <1>4, <1>4a, <1>5 DEF MainStep

LEMMA DrainKeeps ==
  ASSUME GraphInv, DrainStep \/ NewEncoder \/ Finalize
  PROVE  GraphInv'
<1>0. g \in Graphs
  BY GraphOf
<1>1. /\ UNCHANGED <<g, inited, pending, builder, happened, attached>> /\ Alive
      /\ pc' = pc \/ (pc = "join" /\ pc' = "idle")
  BY DEF DrainStep, DrainCheck, DrainRead, DrainLock, Deliver, DrainAt, NewEncoder,
         Finalize, Queue, wrapperVars, implVars
<1>2. TypeOK'
  BY <1>1 DEF GraphInv, TypeOK, Faults, DrainStep, DrainCheck, DrainRead, DrainLock,
              Deliver, DrainAt, NewEncoder, Finalize, Queue, implVars, drainVars
<1>3. OverlapNoted' /\ Stages' /\ DamageKinds'
  BY <1>1 DEF GraphInv, OverlapNoted, Stages, DamageKinds, Clean
<1> QED BY <1>0, <1>1, <1>2, <1>3, GraphKept

LEMMA InitKeeps ==
  ASSUME GraphInv, InitEncode \/ InitEncoder \/ InitRest \/ InitCapture
  PROVE  GraphInv'
<1>0. g \in Graphs /\ fault \in Faults
  BY GraphOf DEF GraphInv, TypeOK
<1>1. CASE InitEncode
  <2>1. /\ UNCHANGED <<inited, pending, images, flow, drain, quit, fault>>
        /\ Alive /\ pc = "idle" /\ pc' = "init" /\ attached' = TRUE
        /\ g' = IF inited THEN g ELSE Wipe(g)
        /\ builder' = IF inited THEN builder ELSE ZoomLoses(builder, "zoom_lost")
        /\ happened' = IF inited \/ Others # {} THEN happened
                       ELSE happened \cap {"late_init"}
    BY <1>1 DEF InitEncode, Queue, drainVars
  <2>2. CASE inited
    <3>1. g' = g /\ happened' = happened /\ builder' = builder
      BY <2>1, <2>2
    <3>2. TypeOK'
      BY <2>1, <3>1 DEF GraphInv, TypeOK
    <3>3. OverlapNoted' /\ Stages' /\ DamageKinds' /\ NothingLost'
      BY <2>1, <2>2, <3>1 DEF GraphInv, OverlapNoted, Stages, DamageKinds,
                                     NothingLost, Clean
    <3>4. GraphSound'
      BY <2>1, <2>2, <3>1 DEF GraphInv, GraphSound, Clean
    <3> QED BY <3>1, <3>2, <3>3, <3>4 DEF GraphInv
  <2>3. CASE ~inited
    <3>1. /\ g' \in Graphs /\ g'.damage = "none" /\ AllNull(g')
          /\ NoneLive(g) => g'.lost = {}
      BY <1>0, <2>1, <2>3, WipeIs DEF Alive
    <3>1a. /\ builder' \in [Threads -> Builders]
           /\ \A t \in Threads : builder'[t] # builder[t] =>
                builder[t] = "zoom" /\ builder'[t] = "zoom_lost"
      <4>1. builder \in [Threads -> Builders] /\ "zoom_lost" \in Builders
        BY DEF GraphInv, TypeOK, Builders
      <4> QED BY <2>1, <2>3, <4>1, ZoomLosesIs
    <3>2. TypeOK'
      BY <2>1, <3>1, <3>1a DEF GraphInv, TypeOK, Graphs, Causes
    <3>3. OverlapNoted'
      <4>1. CASE Others = {}
        <5>1. \A t \in Threads : builder'[t] = "idle"
          BY <3>1a, <4>1 DEF Others
        <5> QED BY <5>1 DEF OverlapNoted, Threads
      <4>2. CASE Others # {}
        BY <2>1, <3>1a, <4>2 DEF GraphInv, OverlapNoted, Clean, Threads
      <4> QED BY <4>1, <4>2
    <3>4. Stages' /\ DamageKinds'
      BY <2>1, <3>1 DEF Stages, DamageKinds
    <3>5. NothingLost'
      <4>1. "late_init" \notin happened' => "late_init" \notin happened
        BY <2>1
      <4>2. "late_init" \notin happened => NoneLive(g)
        BY <2>1, <2>3 DEF GraphInv, GraphSound, Alive
      <4> QED BY <3>1, <4>1, <4>2 DEF NothingLost
    <3>6. NoneLive(g') /\ g'.at["camera"] = "null" /\ g'.at["preview_tunnel"] = "null"
      BY <3>1 DEF AllNull, NoneLive, Objects, Components
    <3>7. GraphSound'
      BY <2>1, <2>3, <3>1, <3>6 DEF GraphSound
    <3> QED BY <3>2, <3>3, <3>4, <3>5, <3>6, <3>7 DEF GraphInv
  <2> QED BY <2>2, <2>3
<1>2. CASE InitEncoder /\ inited
  <2>1. /\ UNCHANGED <<g, inited, pending, builder, attached, images, flow, drain, quit,
                       fault, happened>>
        /\ Alive /\ pc' = "capture"
    BY <1>2 DEF InitEncoder, Queue, drainVars, wrapperVars
  <2>2. TypeOK' /\ Stages' /\ DamageKinds'
    BY <1>2, <2>1 DEF GraphInv, TypeOK, Stages, DamageKinds
  <2>2a. OverlapNoted'
    BY <1>2, <2>1 DEF GraphInv, OverlapNoted, Clean
  <2> QED BY <1>0, <1>2, <2>1, <2>2, <2>2a, GraphKept DEF InitEncoder, Queue
<1>3. CASE InitEncoder /\ ~inited
  <2>1. PICK made \in BOOLEAN :
          /\ g' = CreateCamera(g, made)
          /\ pc' = IF made THEN "build" ELSE "stop"
          /\ Note(IF made THEN {} ELSE {"early_init"})
    BY <1>3 DEF InitEncoder
  <2>2. /\ UNCHANGED <<inited, builder, attached, images, flow, drain, quit, fault>>
        /\ Alive /\ pc = "init" /\ pending' = FALSE /\ ~inited
    BY <1>3 DEF InitEncoder, Queue, drainVars
  <2>3. AllNull(g) /\ g.damage = "none"
    BY <2>2 DEF GraphInv, GraphSound, Alive
  <2>4. /\ g' \in Graphs /\ g'.damage = "none" /\ g'.lost = g.lost
        /\ g'.at["preview_tunnel"] = "null" /\ g'.at["camera"] # "dead"
        /\ ~made => g' = g
    <3>1. "camera" \in Objects /\ "preview_tunnel" \in Objects
      BY DEF Objects, Components
    <3>2. CASE made
      <4>1. g' = Assign(g, "camera")
        BY <2>1, <3>2 DEF CreateCamera
      <4> QED BY <1>0, <2>3, <3>1, <3>2, <4>1, AssignIs DEF AllNull
    <3>3. CASE ~made
      <4>1. g' = g
        BY <2>1, <3>3 DEF CreateCamera
      <4> QED BY <1>0, <2>3, <3>1, <4>1 DEF AllNull
    <3> QED BY <3>2, <3>3
  <2>5. happened' = happened \cup (IF made THEN {} ELSE {"early_init"})
    BY <2>1 DEF Note
  <2>6. TypeOK'
    BY <2>1, <2>2, <2>4, <2>5 DEF GraphInv, TypeOK, Graphs, Causes
  <2>7. OverlapNoted' /\ Stages'
    BY <2>1, <2>2, <2>5 DEF GraphInv, OverlapNoted, Clean, Stages
  <2>8. DamageKinds' /\ NothingLost'
    BY <2>4, <2>5 DEF GraphInv, DamageKinds, NothingLost
  <2>9. pc' = "build" => Building'
    BY <1>0, <2>1, <2>3, <2>4 DEF Building, CameraOf
  <2>10. pc' # "build" => g' = g /\ "early_init" \in happened'
    BY <2>1, <2>4, <2>5
  <2>11. GraphSound'
    BY <2>1, <2>2, <2>3, <2>4, <2>9, <2>10 DEF GraphSound, AllNull, NoneLive
  <2> QED BY <2>4, <2>6, <2>7, <2>8, <2>11 DEF GraphInv
<1>3a. CASE InitRest
  <2>1. PICK fail \in {"none", "preview", "encoder", "connect", "enable"},
             pool \in BOOLEAN :
          LET early == fail \in {"preview", "encoder"}
              zoomed == IF early THEN ZoomLoses(builder, "zoom_dead") ELSE builder
          IN  /\ g' = Built(fail, pool)
              /\ inited' = (fail = "none")
              /\ pc' = IF fail = "none" THEN "capture" ELSE "stop"
              /\ builder' = zoomed
              /\ Note(CASE fail = "none" -> {}
                        [] early -> {"early_init"} \cup
                                    IF zoomed # builder THEN {"overlap"} ELSE {}
                        [] OTHER -> {"late_init"})
    BY <1>3a DEF InitRest
  <2>2. /\ UNCHANGED <<pending, attached, images, flow, drain, quit, fault>>
        /\ Alive /\ pc = "build" /\ ~inited
    BY <1>3a DEF InitRest, Queue, drainVars, GraphInv, Stages
  <2>3. PICK h \in Graphs, made \in BOOLEAN : CameraOf(h, made)
    BY <2>2 DEF GraphInv, GraphSound, Alive, Building
  <2>4. /\ g' \in Graphs /\ g'.lost = g.lost
        /\ g'.at["preview_tunnel"] = "null" /\ g'.at["camera"] # "dead"
        /\ fail \in {"preview", "encoder"} => NoneLive(g') /\ g'.damage = "none"
        /\ made /\ fail \in {"none", "connect", "enable"} =>
             g'.damage = "none" /\ g'.port["camera"] = "live"
        /\ made /\ fail = "none" => Whole(g')
        /\ ~made /\ fail \in {"none", "connect", "enable"} => g'.damage # "none"
    BY <2>1, <2>3, BuiltIs
  <2>5. /\ builder' \in [Threads -> Builders]
        /\ \A t \in Threads : builder'[t] # builder[t] => builder'[t] = "zoom_dead"
        /\ builder' # builder => fail \in {"preview", "encoder"}
    <3>1. builder \in [Threads -> Builders] /\ "zoom_dead" \in Builders
      BY DEF GraphInv, TypeOK, Builders
    <3>2. builder' = builder \/ builder' = ZoomLoses(builder, "zoom_dead")
      BY <2>1
    <3>3. builder' # builder => fail \in {"preview", "encoder"}
      BY <2>1
    <3> QED BY <3>1, <3>2, <3>3, ZoomLosesIs
  <2>6. /\ fail = "none" => happened' = happened
        /\ fail \in {"connect", "enable"} => happened' = happened \cup {"late_init"}
        /\ fail \in {"preview", "encoder"} =>
             happened' = happened \cup {"early_init"} \cup
                           (IF builder' # builder THEN {"overlap"} ELSE {})
    BY <2>1 DEF Note
  <2>7. inited' \in BOOLEAN /\ (inited' <=> fail = "none")
    BY <2>1
  <2>8. /\ happened \subseteq happened' /\ happened' \subseteq Causes
        /\ builder' # builder => "overlap" \in happened'
    BY <2>5, <2>6 DEF GraphInv, TypeOK, Causes
  <2>9. "overlap" \notin happened' => made
    BY <2>3, <2>8 DEF CameraOf
  <2>10. TypeOK'
    BY <2>1, <2>2, <2>4, <2>5, <2>7, <2>8 DEF GraphInv, TypeOK, Graphs
  <2>11. OverlapNoted'
    BY <2>2, <2>5, <2>8 DEF GraphInv, OverlapNoted, Clean, Threads
  <2>12. Stages'
    BY <2>1, <2>6, <2>7 DEF Stages
  <2>13. DamageKinds'
    BY <2>4, <2>9 DEF DamageKinds
  <2>14. NothingLost'
    BY <2>4, <2>8 DEF GraphInv, NothingLost
  <2>15. GraphSound'
    <3>1. Clean' => made
      BY <2>9 DEF Clean
    <3>2. happened' = {"late_init"} => made
      BY <2>9
    <3> QED BY <2>1, <2>4, <2>6, <2>7, <3>1, <3>2 DEF GraphSound
  <2> QED BY <2>4, <2>10, <2>11, <2>12, <2>13, <2>14, <2>15 DEF GraphInv
<1>4. CASE InitCapture
  <2>1. /\ UNCHANGED <<inited, pending, builder, attached, images, flow, happened>>
        /\ Alive /\ pc = "capture" /\ pc' = "rates" /\ Capture
        /\ drain' \in {drain, "check"} /\ quit' \in {quit, FALSE}
    BY <1>4 DEF InitCapture, Queue
  <2>2. inited
    BY <2>1 DEF GraphInv, Stages
  <2>3. /\ g' \in Graphs /\ g'.at = g.at /\ g'.port = g.port /\ g'.lost = g.lost
        /\ Whole(g) => g' = g
        /\ fault' \in Faults
    BY <1>0, <2>1, CaptureIs
  <2>4. DamageKinds'
    BY <2>1, <2>2, <2>3, InUse
  <2>5. TypeOK'
    BY <2>1, <2>3 DEF GraphInv, TypeOK, Graphs
  <2>6. OverlapNoted' /\ Stages'
    BY <2>1, <2>2 DEF GraphInv, OverlapNoted, Stages, Clean
  <2> QED BY <2>1, <2>3, <2>4, <2>5, <2>6, GraphKept
<1> QED BY <1>1, <1>2, <1>3, <1>3a, <1>4

LEMMA RatesKeep ==
  ASSUME GraphInv, SetRates \/ Encode
  PROVE  GraphInv'
<1>0. /\ g \in Graphs
      /\ {"camera", "encoder"} \subseteq Components
  BY GraphOf DEF Components
<1>1. /\ UNCHANGED <<inited, attached, images, drain, quit, fault, happened>>
      /\ Alive /\ pc \in {"idle", "rates"} /\ pc' = "idle" /\ attached
      /\ flow' \in {"disabled", "waiting"} /\ pending' \in {pending, TRUE}
      /\ builder' = builder
          \/ (inited /\ builder' = [builder EXCEPT !["queue"] = "checked"])
      /\ \/ g' = g
         \/ inited /\ g' = UsePort(UsePort(g, "encoder"), "camera")
         \/ inited /\ g' = UsePort(g, "encoder")
  <2>1. CASE SetRates
    BY <2>1 DEF SetRates, Queue, drainVars, ReinitEncoder, Move
  <2>2. CASE Encode
    BY <2>2 DEF Encode, Queue, drainVars, implVars, GraphInv, TypeOK
  <2> QED BY <2>1, <2>2
<1>2. inited
  BY <1>1 DEF GraphInv, Stages
<1> DEFINE p == UsePort(g, "encoder")
           q == UsePort(p, "camera")
<1>3. /\ p \in Graphs /\ p.at = g.at /\ p.port = g.port /\ p.lost = g.lost
      /\ g.port["encoder"] # "dead" => p = g
  BY <1>0, UsePortIs
<1>4. g' = g \/ g' = p \/ g' = q
  BY <1>1
<1> HIDE DEF p
<1>5. /\ q \in Graphs /\ q.at = p.at /\ q.port = p.port /\ q.lost = p.lost
      /\ p.port["camera"] # "dead" => q = p
  BY <1>0, <1>3, UsePortIs
<1> HIDE DEF q
<1>6. Whole(g) => g.port["encoder"] # "dead" /\ g.port["camera"] # "dead"
  BY <1>0 DEF Whole
<1>7. /\ g' \in Graphs /\ g'.at = g.at /\ g'.port = g.port /\ g'.lost = g.lost
      /\ Whole(g) => g' = g
  BY <1>0, <1>3, <1>4, <1>5, <1>6
<1>8. DamageKinds'
  BY <1>1, <1>2, <1>7, InUse
<1>9. TypeOK'
  <2>1. builder' \in [Threads -> Builders]
    BY <1>1 DEF GraphInv, TypeOK, Threads, Builders
  <2> QED BY <1>1, <1>7, <2>1 DEF GraphInv, TypeOK, Graphs
<1>10. OverlapNoted' /\ Stages'
  BY <1>1, <1>2 DEF GraphInv, OverlapNoted, Stages, Clean, TypeOK, Threads
<1> QED BY <1>1, <1>7, <1>8, <1>9, <1>10, GraphKept

LEMMA ReleaseKeeps ==
  ASSUME GraphInv, ReleaseEncoder \/ UninitEncoder
  PROVE  GraphInv'
<1>0. g \in Graphs /\ "camera" \in Components
  BY GraphOf DEF Components
<1>1. CASE ReleaseEncoder
  <2>1. /\ UNCHANGED <<inited, pending, builder, attached, images, flow, drain, fault,
                       happened>>
        /\ Alive /\ pc \in {"idle", "stop"}
        /\ pc' = IF attached THEN "uninit" ELSE "join"
        /\ g' = IF attached THEN UsePort(g, "camera") ELSE g
        /\ quit' = (quit \/ drain # "none")
    BY <1>1 DEF ReleaseEncoder, Queue
  <2>2. /\ g' \in Graphs /\ g'.at = g.at /\ g'.port = g.port /\ g'.lost = g.lost
        /\ g.port["camera"] # "dead" => g' = g
        /\ g'.damage \in {g.damage, "dead_port"}
        /\ ~attached => g' = g
    BY <1>0, <2>1, UsePortIs
  <2>3. g.damage = "none"
    BY <2>1 DEF Alive
  <2>4. DamageKinds'
    <3>1. CASE inited
      <4>1. Whole(g) => g' = g
        BY <1>0, <2>2 DEF Whole
      <4> QED BY <2>1, <2>2, <3>1, <4>1, InUse
    <3>2. CASE ~attached
      BY <2>1, <2>2, <2>3, <3>2 DEF DamageKinds
    <3>3. CASE ~inited /\ attached
      <4>1. pc = "stop" /\ happened \cap {"early_init", "late_init"} # {}
        BY <2>1, <3>3 DEF GraphInv, Stages
      <4>2. happened = {"late_init"} => g' = g
        BY <2>2, <2>3, <4>1 DEF GraphInv, GraphSound
      <4> QED BY <2>1, <2>2, <2>3, <4>1, <4>2 DEF DamageKinds
    <3> QED BY <3>1, <3>2, <3>3
  <2>5. TypeOK'
    BY <2>1, <2>2 DEF GraphInv, TypeOK, Graphs
  <2>6. OverlapNoted' /\ Stages'
    BY <2>1 DEF GraphInv, OverlapNoted, Stages, TypeOK, Clean, Threads
  <2> QED BY <2>1, <2>2, <2>4, <2>5, <2>6, GraphKept
<1>2. CASE UninitEncoder
  <2>1. /\ UNCHANGED <<pending, images, flow, drain, quit, fault>>
        /\ Alive /\ pc = "uninit" /\ pc' = "join"
        /\ builder' = IF inited THEN ZoomLoses(builder, "zoom_dead") ELSE builder
        /\ inited' = FALSE /\ attached' = FALSE
        /\ g' = IF inited THEN Removed ELSE g
        /\ happened' = happened \cup (IF inited /\ Others # {} THEN {"overlap"} ELSE {})
    BY <1>2 DEF UninitEncoder, Queue, drainVars, Note
  <2>2. g.damage = "none" /\ g.at["preview_tunnel"] = "null"
    BY <2>1 DEF Alive, GraphInv
  <2>3. /\ g' \in Graphs /\ g'.lost = g.lost /\ g'.at["preview_tunnel"] = "null"
        /\ inited /\ g'.damage = "none" => NoneLive(g') /\ g'.at["camera"] = "null"
        /\ inited /\ Whole(g) => g'.damage = "none"
        /\ ~inited => g' = g
    BY <1>0, <2>1, <2>2, RemovedIs
  <2>3a. /\ builder' \in [Threads -> Builders]
         /\ \A t \in Threads : builder'[t] # builder[t] => builder[t] = "zoom"
    <3>1. builder \in [Threads -> Builders] /\ "zoom_dead" \in Builders
      BY DEF GraphInv, TypeOK, Builders
    <3> QED BY <2>1, <3>1, ZoomLosesIs
  <2>4. TypeOK'
    BY <2>1, <2>3, <2>3a DEF GraphInv, TypeOK, Graphs, Causes
  <2>5. OverlapNoted'
    <3>1. CASE inited
      <4>1. ASSUME NEW t \in Threads, builder'[t] # "idle"
            PROVE  "overlap" \in happened'
        BY <2>1, <2>3a, <3>1, <4>1 DEF Others
      <4> QED BY <4>1 DEF OverlapNoted, Clean, Threads
    <3>2. CASE ~inited
      BY <2>1, <3>2 DEF GraphInv, OverlapNoted, Clean
    <3> QED BY <3>1, <3>2
  <2>6. Stages'
    BY <2>1 DEF Stages
  <2>7. NothingLost'
    BY <2>1, <2>3 DEF GraphInv, NothingLost
  <2>8. DamageKinds'
    <3>1. CASE ~inited
      BY <2>2, <2>3, <3>1 DEF DamageKinds
    <3>2. CASE inited /\ Clean
      <4>1. g'.damage = "none"
        BY <2>2, <2>3, <3>2 DEF GraphInv, GraphSound
      <4> QED BY <4>1 DEF DamageKinds
    <3>3. CASE ~Clean
      BY <2>1, <3>3 DEF Clean, DamageKinds
    <3> QED BY <3>1, <3>2, <3>3
  <2>9. GraphSound'
    <3>1. CASE inited
      BY <2>1, <2>3, <3>1 DEF GraphSound
    <3>2. CASE ~inited
      <4>1. g' = g /\ happened' = happened
        BY <2>1, <2>3, <3>2
      <4> QED BY <2>1, <2>2, <3>2, <4>1 DEF GraphInv, GraphSound, Clean
    <3> QED BY <3>1, <3>2
  <2> QED BY <2>3, <2>4, <2>5, <2>6, <2>7, <2>8, <2>9 DEF GraphInv
<1> QED BY <1>1, <1>2

LEMMA GraphUnchanged ==
  ASSUME GraphInv, UNCHANGED vars
  PROVE  GraphInv'
BY DEF GraphInv, TypeOK, GraphSound, NothingLost, DamageKinds, OverlapNoted, Stages,
       Clean, Building, CameraOf, vars, wrapperVars, implVars, drainVars

LEMMA GraphStep == GraphInv /\ [Next]_vars => GraphInv'
<1> SUFFICES ASSUME GraphInv, [Next]_vars PROVE GraphInv'
  OBVIOUS
<1>1. CASE QueueStep
  BY <1>1, DrainKeeps, InitKeeps, RatesKeep, ReleaseKeeps DEF QueueStep
<1>2. CASE DrainStep
  BY <1>2, DrainKeeps
<1>3. CASE BuilderStep
  <2>1. PICK t \in Threads : Reinit(t) \/ StartCapture(t)
    BY <1>3 DEF BuilderStep
  <2>2. CASE Reinit(t)
    <3>1. Alive
      BY <2>2 DEF Reinit
    <3> QED BY <2>2, <3>1, ReinitKeeps
  <2> QED BY <2>1, <2>2, StartCaptureKeeps
<1>4. CASE Task \/ MainStep
  BY <1>4, MainKeeps
<1>5. CASE Restart
  BY <1>5, RestartGraphInv
<1>6. CASE UNCHANGED vars
  BY <1>6, GraphUnchanged
<1> QED BY <1>1, <1>2, <1>3, <1>4, <1>5, <1>6 DEF Next

LEMMA SpecGraphInv == Spec => []GraphInv
BY BootGraphInv, GraphStep, PTL DEF Spec

LEMMA DrainStepInv == GraphInv /\ DrainInv /\ [Next]_vars => DrainInv'
<1> SUFFICES ASSUME GraphInv, DrainInv, [Next]_vars PROVE DrainInv'
  OBVIOUS
<1> USE DEF GraphInv, TypeOK, Stages, DrainInv, Queue, DrainAt, Alive
<1>1. CASE QueueStep
  <2>1. CASE NewEncoder \/ Encode
    BY <2>1 DEF NewEncoder, Encode, wrapperVars, implVars, drainVars
  <2>2. CASE InitEncode \/ InitEncoder \/ InitRest
    BY <2>2 DEF InitEncode, InitEncoder, InitRest, wrapperVars, drainVars
  <2>3. CASE InitCapture
    <3>1. /\ pc' = "rates" /\ attached' = attached /\ attached
          /\ fault = "none" /\ fault' \in {"none", "no_pool"}
      BY <2>3 DEF InitCapture, Capture
    <3> QED BY <3>1
  <2>4. CASE SetRates
    BY <2>4 DEF SetRates, drainVars
  <2>5. CASE ReleaseEncoder
    BY <2>5 DEF ReleaseEncoder
  <2>6. CASE UninitEncoder
    BY <2>6 DEF UninitEncoder, drainVars
  <2>7. CASE Finalize
    BY <2>7 DEF Finalize, wrapperVars
  <2> QED BY <1>1, <2>1, <2>2, <2>3, <2>4, <2>5, <2>6, <2>7 DEF QueueStep
<1>2. CASE DrainStep
  BY <1>2 DEF DrainStep, DrainCheck, DrainRead, DrainLock, Deliver, wrapperVars, implVars
<1>3. CASE BuilderStep \/ Task \/ MainStep
  <2>1. /\ UNCHANGED <<pc, attached, drain, quit>>
        /\ fault = "none" /\ fault' \in {"none", "no_pool", "no_camera"}
    BY <1>3 DEF BuilderStep, Reinit, StartCapture, Capture, Task, MainStep, Apply,
                ApplyWipes, ApplyReinit, Zoom, ZoomSets, implVars, drainVars
  <2> QED BY <2>1
<1>4. CASE Restart
  BY <1>4 DEF Restart, Boot
<1>5. CASE UNCHANGED vars
  BY <1>5 DEF vars, implVars, drainVars
<1> QED BY <1>1, <1>2, <1>3, <1>4, <1>5 DEF Next

LEMMA SpecDrainInv == Spec => [](GraphInv /\ DrainInv)
<1>1. Init => DrainInv
  BY DEF Init, Boot, DrainInv
<1> QED BY <1>1, BootGraphInv, GraphStep, DrainStepInv, PTL DEF Spec

-----------------------------------------------------------------------------
(* The theorems *)

(* The state of the encoder and its wrapper is the one the code can be in.  *)
THEOREM EncoderTypeCorrect == Spec => []TypeOK
<1>1. GraphInv => TypeOK
  BY DEF GraphInv
<1> QED BY <1>1, SpecGraphInv, PTL

(* Whatever the threads rebuild, zoom and release: the callers of           *)
(* MMALEncoderWrapper find a camera, a preview, an encoder and their        *)
(* connection in every use that no failure and no overlap has touched.      *)
THEOREM EncoderIsWhole == Spec => []WholeInUse
<1>1. GraphInv => WholeInUse
  BY DEF GraphInv, GraphSound, DamageKinds, WholeInUse, Whole, Clean
<1> QED BY <1>1, SpecGraphInv, PTL

(* A null or a destroyed component is used, and a component is lost, only   *)
(* after a failure or an overlap that is noted, and each kind of failure    *)
(* does no more than what is said of it.                                    *)
THEOREM DamageIsCaused == Spec => []DamageHasCause
<1>1. GraphInv => DamageHasCause
  BY DEF GraphInv, NothingLost, DamageKinds, DamageHasCause
<1> QED BY <1>1, SpecGraphInv, PTL

(* The drain thread of a use is gone when the use has ended, and Release    *)
(* joins only a thread that was told to quit.                               *)
THEOREM DrainIsJoined == Spec => []DrainEndsWithUse
<1>1. DrainInv => DrainEndsWithUse
  BY DEF DrainInv, DrainEndsWithUse
<1> QED BY <1>1, SpecDrainInv, PTL

-----------------------------------------------------------------------------
(* StillCapture: the components of a request *)

Ready(h) ==
  /\ \A o \in Components \cup {"preview_tunnel", "encoder_tunnel"} : h.at[o] = "live"
  /\ \A c \in Components : h.port[c] = "live"

LEMMA StillRemovedIs ==
  ASSUME NEW h \in Graphs
  PROVE  /\ StillRemoved(h) \in Graphs /\ StillRemoved(h).lost = h.lost
         /\ (/\ \A c \in Components : h.at[c] = "live" /\ h.port[c] # "dead"
             /\ \A o \in Objects : h.at[o] # "dead"
             /\ h.damage = "none")
            => /\ StillRemoved(h).damage = "none" /\ NoneLive(StillRemoved(h))
               /\ \A c \in Components : StillRemoved(h).at[c] = "null"
<1> DEFINE P == (/\ \A c \in Components : h.at[c] = "live" /\ h.port[c] # "dead"
                 /\ \A o \in Objects : h.at[o] # "dead"
                 /\ h.damage = "none")
<1> DEFINE u1 == UsePort(h, "camera")
           u2 == UsePort(u1, "encoder")
           c1 == Cut(u2, "preview_tunnel")
           c2 == Cut(c1, "encoder_tunnel")
           d == Disable(c2)
           e == DestroyEncoder(d)
           v == Destroy(e, "preview")
           k == Destroy(v, "camera")
<1>0. /\ {"camera", "preview", "encoder"} = Components /\ Components \subseteq Objects
      /\ Objects = Components \cup {"pool", "preview_tunnel", "encoder_tunnel"}
  BY DEF Components, Objects
<1>1. StillRemoved(h) = k
  BY DEF StillRemoved, DestroyStillCamera, DestroyStillEncoder
<1>2. u1 \in Graphs /\ u1.lost = h.lost /\ (P => u1 = h)
  BY <1>0, UsePortIs
<1> HIDE DEF u1
<1>3. u2 \in Graphs /\ u2.lost = h.lost /\ (P => u2 = h)
  BY <1>0, <1>2, UsePortIs
<1> HIDE DEF u2
<1>4. /\ c1 \in Graphs /\ c1.lost = u2.lost
      /\ u2.at["preview_tunnel"] # "dead" => c1.damage = u2.damage
      /\ c1.at["preview_tunnel"] # "live"
      /\ \A p \in Objects \ {"preview_tunnel"} : c1.at[p] = u2.at[p]
  BY <1>0, <1>3, CutIs
<1> HIDE DEF c1
<1>5. /\ c2 \in Graphs /\ c2.lost = c1.lost
      /\ c1.at["encoder_tunnel"] # "dead" => c2.damage = c1.damage
      /\ c2.at["encoder_tunnel"] # "live"
      /\ \A p \in Objects \ {"encoder_tunnel"} : c2.at[p] = c1.at[p]
  BY <1>0, <1>4, CutIs
<1> HIDE DEF c2
<1>6. /\ d \in Graphs /\ d.lost = c2.lost
      /\ (\A c \in Components : c2.at[c] # "dead") => d = c2
      /\ d.at = c2.at
  BY <1>5, DisableIs
<1> HIDE DEF d
<1>7. /\ e \in Graphs /\ e.lost = d.lost
      /\ d.at["encoder"] = "live" /\ d.at["pool"] # "dead" => e.damage = d.damage
      /\ e.damage = "none" => e.at["encoder"] = "null"
      /\ e.at["pool"] # "live"
      /\ \A p \in Objects \ {"encoder", "pool"} : e.at[p] = d.at[p]
  BY <1>6, DestroyEncoderIs
<1> HIDE DEF e
<1>8. /\ v \in Graphs /\ v.lost = e.lost
      /\ e.at["preview"] # "dead" => v.damage = e.damage
      /\ v.damage = "none" => v.at["preview"] = "null"
      /\ \A p \in Objects \ {"preview"} : v.at[p] = e.at[p]
  BY <1>0, <1>7, DestroyIs
<1> HIDE DEF v
<1>9. /\ k \in Graphs /\ k.lost = v.lost
      /\ v.at["camera"] # "dead" => k.damage = v.damage
      /\ k.damage = "none" => k.at["camera"] = "null"
      /\ \A p \in Objects \ {"camera"} : k.at[p] = v.at[p]
  BY <1>0, <1>8, DestroyIs
<1> HIDE DEF k
<1>10. k.lost = h.lost
  BY <1>3, <1>4, <1>5, <1>6, <1>7, <1>8, <1>9
<1>11. ASSUME P
       PROVE  /\ k.damage = "none" /\ NoneLive(k)
              /\ \A c \in Components : k.at[c] = "null"
  <2>1. /\ c1.damage = "none"
        /\ \A c \in Components : c1.at[c] = "live"
        /\ c1.at["pool"] # "dead" /\ c1.at["encoder_tunnel"] # "dead"
    BY <1>0, <1>3, <1>4, <1>11
  <2>2. /\ c2.damage = "none"
        /\ \A c \in Components : c2.at[c] = "live"
        /\ c2.at["pool"] # "dead" /\ c2.at["preview_tunnel"] # "live"
    BY <1>0, <1>4, <1>5, <2>1
  <2>3. d = c2
    BY <1>6, <2>2
  <2>4. /\ e.damage = "none" /\ e.at["encoder"] = "null" /\ e.at["pool"] # "live"
        /\ e.at["camera"] = "live" /\ e.at["preview"] = "live"
        /\ e.at["preview_tunnel"] # "live" /\ e.at["encoder_tunnel"] # "live"
    BY <1>0, <1>5, <1>7, <2>2, <2>3
  <2>5. /\ k.damage = "none" /\ k.at["encoder"] = "null" /\ k.at["pool"] # "live"
        /\ k.at["camera"] = "null" /\ k.at["preview"] = "null"
        /\ k.at["preview_tunnel"] # "live" /\ k.at["encoder_tunnel"] # "live"
    BY <1>0, <1>8, <1>9, <2>4
  <2> QED BY <1>0, <2>5 DEF NoneLive
<1> QED BY <1>1, <1>9, <1>10, <1>11

(* What is built one after the other from null pointers.                    *)
Lens(h) == CreateStillCamera(h, TRUE)
View(h) == CreatePreview(Lens(h), TRUE)
Coder(h, pool) == CreateStillEncoder(View(h), TRUE, pool)
Joined(h, pool) == Assign(SetPorts(Coder(h, pool)), "preview_tunnel")
Complete(h, pool) == Assign(Joined(h, pool), "encoder_tunnel")

(* The same object, with the others' pointers and ports left alone.         *)
Sound(k, h) == k \in Graphs /\ k.lost = h.lost /\ (h.damage = "none" => k.damage = "none")

LEMMA CreatedIs ==
  ASSUME NEW h \in Graphs, AllNull(h), NEW pool \in BOOLEAN
  PROVE  /\ Sound(Lens(h), h) /\ Sound(View(h), h) /\ Sound(Coder(h, pool), h)
         /\ \A o \in Objects \ {"camera"} : Lens(h).at[o] = "null"
         /\ \A o \in Objects \ {"camera", "preview"} : View(h).at[o] = "null"
         /\ Lens(h).at["camera"] = "live"
         /\ View(h).at["camera"] = "live" /\ View(h).at["preview"] = "live"
         /\ \A c \in Components : Coder(h, pool).at[c] = "live"
         /\ Coder(h, pool).at["pool"] \in {"live", "null"}
         /\ \A t \in {"preview_tunnel", "encoder_tunnel"} : Coder(h, pool).at[t] = "null"
<1> DEFINE l == Lens(h)
           v == View(h)
           p == CreatePool(v, pool)
           e == Coder(h, pool)
<1>0. /\ {"camera", "preview", "encoder"} = Components /\ Components \subseteq Objects
      /\ Objects = Components \cup {"pool", "preview_tunnel", "encoder_tunnel"}
      /\ \A o \in Objects : h.at[o] = "null"
  BY DEF Components, Objects, AllNull
<1>1. /\ l \in Graphs /\ l.damage = h.damage /\ l.lost = h.lost
      /\ \A o \in Objects : l.at[o] = IF o = "camera" THEN "live" ELSE h.at[o]
  BY <1>0, AssignIs DEF Lens, CreateStillCamera
<1> HIDE DEF l
<1>2. v = CreatePreview(l, TRUE) /\ l.at["preview"] = "null"
  BY <1>0, <1>1 DEF View, l
<1>3. /\ v \in Graphs /\ v.lost = l.lost /\ v.damage = l.damage
      /\ \A o \in Objects \ {"preview"} : v.at[o] = l.at[o]
      /\ v.at["preview"] = "live"
  <2> DEFINE q == CreatePreview(l, TRUE)
  <2>1. /\ q \in Graphs /\ q.lost = l.lost
        /\ \A o \in Objects \ {"preview"} : q.at[o] = l.at[o]
        /\ l.at["preview"] = "null" => /\ q.damage = l.damage
                                      /\ q.at["preview"] = IF TRUE THEN "live" ELSE "null"
    BY <1>1, CreatePreviewIs, Zenon
  <2> HIDE DEF q
  <2>2. v = q
    BY <1>2 DEF q
  <2> QED BY <1>2, <2>1, <2>2
<1> HIDE DEF v
<1>4. e = Assign(p, "encoder")
  BY DEF Coder, CreateStillEncoder, v
<1>5. v.at["pool"] = "null"
  BY <1>0, <1>1, <1>3
<1>6. /\ p \in Graphs /\ p.damage = v.damage /\ p.lost = v.lost
      /\ p.at["pool"] \in {"live", "null"}
      /\ \A o \in Objects \ {"pool"} : p.at[o] = v.at[o]
  BY <1>3, <1>5, CreatePoolIs
<1> HIDE DEF p, e
<1>7. p.at["encoder"] = "null"
  BY <1>0, <1>1, <1>3, <1>6
<1>8. /\ e \in Graphs /\ e.damage = p.damage /\ e.lost = p.lost
      /\ \A o \in Objects : e.at[o] = IF o = "encoder" THEN "live" ELSE p.at[o]
  BY <1>0, <1>4, <1>6, <1>7, AssignIs
<1>9. /\ \A c \in Components : e.at[c] = "live"
      /\ e.at["pool"] \in {"live", "null"}
      /\ \A t \in {"preview_tunnel", "encoder_tunnel"} : e.at[t] = "null"
  BY <1>0, <1>1, <1>3, <1>6, <1>8
<1>10. /\ \A o \in Objects \ {"camera"} : l.at[o] = "null"
       /\ \A o \in Objects \ {"camera", "preview"} : v.at[o] = "null"
       /\ l.at["camera"] = "live" /\ v.at["camera"] = "live"
  BY <1>0, <1>1, <1>3
<1>11. Sound(l, h) /\ Sound(v, h) /\ Sound(e, h)
  BY <1>1, <1>3, <1>6, <1>8 DEF Sound
<1> QED BY <1>3, <1>9, <1>10, <1>11 DEF l, v, e

LEMMA CompleteIs ==
  ASSUME NEW h \in Graphs, AllNull(h), NEW pool \in BOOLEAN
  PROVE  /\ SetPorts(Coder(h, pool)) \in Graphs
         /\ Sound(Joined(h, pool), h) /\ Sound(Complete(h, pool), h)
         /\ \A k \in {SetPorts(Coder(h, pool)), Joined(h, pool), Complete(h, pool)} :
              /\ k.lost = h.lost
              /\ h.damage = "none" => k.damage = "none"
              /\ \A c \in Components : k.at[c] = "live"
              /\ h.damage = "none" => \A c \in Components : k.port[c] = "live"
              /\ \A o \in Objects : k.at[o] # "dead"
         /\ SetPorts(Coder(h, pool)).at["preview_tunnel"] = "null"
         /\ Joined(h, pool).at["encoder_tunnel"] = "null"
         /\ h.damage = "none" => Ready(Complete(h, pool))
<1> DEFINE e == Coder(h, pool)
           s == SetPorts(e)
           j == Joined(h, pool)
           w == Complete(h, pool)
<1>0. /\ {"camera", "preview", "encoder"} = Components /\ Components \subseteq Objects
      /\ Objects = Components \cup {"pool", "preview_tunnel", "encoder_tunnel"}
  BY DEF Components, Objects
<1>1. /\ e \in Graphs /\ e.lost = h.lost /\ (h.damage = "none" => e.damage = "none")
      /\ \A c \in Components : e.at[c] = "live"
      /\ e.at["pool"] \in {"live", "null"}
      /\ e.at["preview_tunnel"] = "null" /\ e.at["encoder_tunnel"] = "null"
  BY CreatedIs DEF Sound
<1>2. j = Assign(s, "preview_tunnel") /\ w = Assign(j, "encoder_tunnel")
  BY DEF Joined, Complete
<1> HIDE DEF e
<1>3. /\ s \in Graphs /\ s.lost = e.lost /\ s.at = e.at
      /\ e.damage = "none" => /\ s.damage = "none"
                              /\ \A c \in Components : s.port[c] = "live"
  BY <1>1, SetPortsIs
<1> HIDE DEF s, j, w
<1>4. s.at["preview_tunnel"] = "null"
  BY <1>1, <1>3
<1>5. /\ j \in Graphs /\ j.damage = s.damage /\ j.lost = s.lost /\ j.port = s.port
      /\ \A o \in Objects : j.at[o] = IF o = "preview_tunnel" THEN "live" ELSE s.at[o]
  BY <1>0, <1>2, <1>3, <1>4, AssignIs
<1>6. j.at["encoder_tunnel"] = "null"
  BY <1>0, <1>1, <1>3, <1>5
<1>7. /\ w \in Graphs /\ w.damage = j.damage /\ w.lost = j.lost /\ w.port = j.port
      /\ \A o \in Objects : w.at[o] = IF o = "encoder_tunnel" THEN "live" ELSE j.at[o]
  BY <1>0, <1>2, <1>5, <1>6, AssignIs
<1>8. ASSUME NEW k \in {s, j, w}
      PROVE  /\ k.lost = h.lost
             /\ h.damage = "none" => k.damage = "none"
             /\ \A c \in Components : k.at[c] = "live"
             /\ h.damage = "none" => \A c \in Components : k.port[c] = "live"
             /\ \A o \in Objects : k.at[o] # "dead"
  <2>1. \A o \in Objects : s.at[o] \in {"live", "null"}
    BY <1>0, <1>1, <1>3
  <2>2. \A o \in Objects : j.at[o] \in {"live", "null"} /\ w.at[o] \in {"live", "null"}
    BY <1>5, <1>7, <2>1
  <2>3. \A c \in Components : s.at[c] = "live" /\ j.at[c] = "live" /\ w.at[c] = "live"
    BY <1>0, <1>1, <1>3, <1>5, <1>7
  <2> QED BY <1>1, <1>3, <1>5, <1>7, <2>1, <2>2, <2>3
<1>9. h.damage = "none" => Ready(w)
  BY <1>0, <1>1, <1>3, <1>5, <1>7, <1>8 DEF Ready
<1>10. Sound(j, h) /\ Sound(w, h)
  BY <1>5, <1>7, <1>8 DEF Sound
<1> QED BY <1>3, <1>4, <1>6, <1>8, <1>9, <1>10 DEF e, s, j, w

(* Nothing that was built is left.                                          *)
Gone(k) ==
  /\ k.damage = "none" /\ k.lost = {} /\ NoneLive(k)
  /\ \A c \in Components : k.at[c] = "null"

LEMMA RemovedIsGone ==
  ASSUME NEW k \in Graphs, k.lost = {}, k.damage = "none",
         \A c \in Components : k.at[c] = "live" /\ k.port[c] # "dead",
         \A o \in Objects : k.at[o] # "dead"
  PROVE  StillRemoved(k) \in Graphs /\ Gone(StillRemoved(k))
BY StillRemovedIs DEF Gone

Failures == {"none", "camera", "preview", "encoder", "preview_tunnel",
             "encoder_tunnel", "port"}
TunnelFailures == {"preview_tunnel", "encoder_tunnel"}

LEMMA StillBuiltIs ==
  ASSUME graph \in Graphs, AllNull(graph), NEW fail \in Failures,
         NEW step \in {"create", "enable"}, NEW pool \in BOOLEAN
  PROVE  /\ StillBuilt(fail, step, pool) \in Graphs
         /\ (/\ graph.damage = "none" /\ graph.lost = {}
             /\ step = "enable" => fail \notin TunnelFailures)
            => /\ StillBuilt(fail, step, pool).damage = "none"
               /\ StillBuilt(fail, step, pool).lost = {}
               /\ fail = "none" => /\ Ready(StillBuilt(fail, step, pool))
                                   /\ \A o \in Objects :
                                        StillBuilt(fail, step, pool).at[o] # "dead"
               /\ fail # "none" => Gone(StillBuilt(fail, step, pool))
<1> DEFINE B == StillBuilt(fail, step, pool)
           s == SetPorts(Coder(graph, pool))
           j == Joined(graph, pool)
           w == Complete(graph, pool)
           P == (/\ graph.damage = "none" /\ graph.lost = {}
                 /\ step = "enable" => fail \notin TunnelFailures)
           Q(k) == /\ k.damage = "none" /\ k.lost = {}
                   /\ fail = "none" => Ready(k) /\ \A o \in Objects : k.at[o] # "dead"
                   /\ fail # "none" => Gone(k)
<1>0. /\ {"camera", "preview", "encoder"} = Components /\ Components \subseteq Objects
      /\ Objects = Components \cup {"pool", "preview_tunnel", "encoder_tunnel"}
      /\ \A o \in Objects : graph.at[o] = "null"
  BY DEF Components, Objects, AllNull
<1>1. /\ s \in Graphs /\ j \in Graphs /\ w \in Graphs
      /\ s.at["preview_tunnel"] = "null" /\ j.at["encoder_tunnel"] = "null"
      /\ graph.damage = "none" => Ready(w)
      /\ \A k \in {s, j, w} :
           /\ k.lost = graph.lost
           /\ graph.damage = "none" => k.damage = "none"
           /\ \A c \in Components : k.at[c] = "live"
           /\ graph.damage = "none" => \A c \in Components : k.port[c] = "live"
           /\ \A o \in Objects : k.at[o] # "dead"
  BY CompleteIs DEF Sound
<1>2. ASSUME NEW k \in {s, j, w}
      PROVE  StillRemoved(k) \in Graphs /\ (P => Gone(StillRemoved(k)))
  <2>1. k \in Graphs /\ StillRemoved(k) \in Graphs
    BY <1>1, StillRemovedIs
  <2>2. ASSUME P PROVE Gone(StillRemoved(k))
    <3>1. k.lost = {} /\ k.damage = "none"
      BY <1>1, <2>2
    <3>2. /\ \A c \in Components : k.at[c] = "live" /\ k.port[c] # "dead"
          /\ \A o \in Objects : k.at[o] # "dead"
      BY <1>1, <2>2
    <3> HIDE DEF s, j, w
    <3> QED BY <2>1, <3>1, <3>2, RemovedIsGone
  <2> QED BY <2>1, <2>2
<1>3. CASE fail = "none"
  <2>1. B = w
    BY <1>3 DEF StillBuilt, Tunnel, Complete, Joined, Coder, View, Lens
  <2> HIDE DEF B, w, s, j
  <2>2. P => Q(w)
    BY <1>1, <1>3
  <2> QED BY <1>1, <2>1, <2>2 DEF B
<1>4. CASE fail = "port"
  <2>1. B = StillRemoved(w)
    BY <1>4 DEF StillBuilt, Tunnel, Complete, Joined, Coder, View, Lens
  <2> HIDE DEF B, w, s, j
  <2>2. B \in Graphs /\ (P => Gone(B))
    BY <1>2, <2>1
  <2> QED BY <1>4, <2>2 DEF B, Gone
<1>5. CASE fail = "preview_tunnel"
  <2>1. CASE step = "create"
    <3>1. B = StillRemoved(s)
      BY <1>5, <2>1 DEF StillBuilt, Tunnel, Complete, Joined, Coder, View, Lens
    <3> HIDE DEF B, w, s, j
    <3>2. B \in Graphs /\ (P => Gone(B))
      BY <1>2, <3>1
    <3> QED BY <1>5, <3>2 DEF B, Gone
  <2>2. CASE step = "enable"
    <3> DEFINE k == Cut(Assign(s, "preview_tunnel"), "preview_tunnel")
    <3>1. B = StillRemoved(k)
      BY <1>5, <2>2 DEF StillBuilt, Tunnel, Complete, Joined, Coder, View, Lens
    <3> HIDE DEF s
    <3>2. k \in Graphs
      BY <1>0, <1>1, AssignIs, CutIs
    <3> HIDE DEF k, B
    <3>3. B \in Graphs
      BY <3>1, <3>2, StillRemovedIs
    <3> QED BY <1>5, <2>2, <3>3 DEF B, TunnelFailures
  <2> QED BY <2>1, <2>2
<1>6. CASE fail = "encoder_tunnel"
  <2>1. CASE step = "create"
    <3>1. B = StillRemoved(j)
      BY <1>6, <2>1 DEF StillBuilt, Tunnel, Complete, Joined, Coder, View, Lens
    <3> HIDE DEF B, w, s, j
    <3>2. B \in Graphs /\ (P => Gone(B))
      BY <1>2, <3>1
    <3> QED BY <1>6, <3>2 DEF B, Gone
  <2>2. CASE step = "enable"
    <3> DEFINE k == Cut(Assign(j, "encoder_tunnel"), "encoder_tunnel")
    <3>1. B = StillRemoved(k)
      BY <1>6, <2>2 DEF StillBuilt, Tunnel, Complete, Joined, Coder, View, Lens
    <3> HIDE DEF j
    <3>2. k \in Graphs
      BY <1>0, <1>1, AssignIs, CutIs
    <3> HIDE DEF k, B
    <3>3. B \in Graphs
      BY <3>1, <3>2, StillRemovedIs
    <3> QED BY <1>6, <2>2, <3>3 DEF B, TunnelFailures
  <2> QED BY <2>1, <2>2
<1>7. CASE fail = "camera"
  <2>1. B = graph
    BY <1>7 DEF StillBuilt, CreateStillCamera
  <2> HIDE DEF B
  <2>2. P => Gone(B)
    BY <1>0, <2>1 DEF Gone, NoneLive
  <2> QED BY <1>7, <2>1, <2>2 DEF B, Gone
<1>8. CASE fail = "preview"
  <2> DEFINE l == Lens(graph)
             v == CreatePreview(l, FALSE)
             k == Destroy(v, "camera")
  <2>1. B = k
    BY <1>8 DEF StillBuilt, DestroyStillCamera, Lens
  <2>2. /\ l \in Graphs /\ l.lost = graph.lost
        /\ graph.damage = "none" => l.damage = "none"
        /\ l.at["camera"] = "live" /\ \A o \in Objects \ {"camera"} : l.at[o] = "null"
    BY CreatedIs DEF Sound
  <2> HIDE DEF l, B
  <2>3. /\ v \in Graphs /\ v.lost = l.lost
        /\ \A o \in Objects \ {"preview"} : v.at[o] = l.at[o]
        /\ l.at["preview"] = "null" => /\ v.damage = l.damage
                                      /\ v.at["preview"] = IF FALSE THEN "live" ELSE "null"
    BY <2>2, CreatePreviewIs, Zenon
  <2> HIDE DEF v
  <2>4. /\ k \in Graphs /\ k.lost = v.lost
        /\ v.at["camera"] # "dead" => k.damage = v.damage
        /\ k.damage = "none" => k.at["camera"] = "null"
        /\ \A o \in Objects \ {"camera"} : k.at[o] = v.at[o]
    BY <1>0, <2>3, DestroyIs
  <2> HIDE DEF k
  <2>5. P => k.damage = "none" /\ k.lost = {} /\ \A o \in Objects : k.at[o] = "null"
    BY <1>0, <2>2, <2>3, <2>4
  <2>6. P => Gone(k)
    BY <1>0, <2>5 DEF Gone, NoneLive
  <2> QED BY <1>8, <2>1, <2>4, <2>6 DEF B, Gone
<1>9. CASE fail = "encoder"
  <2> DEFINE v == View(graph)
             p == Destroy(v, "preview")
             k == Destroy(p, "camera")
  <2>1. B = k
    BY <1>9 DEF StillBuilt, DestroyStillCamera, CreateStillEncoder, View, Lens
  <2>2. /\ v \in Graphs /\ v.lost = graph.lost
        /\ graph.damage = "none" => v.damage = "none"
        /\ v.at["camera"] = "live" /\ v.at["preview"] = "live"
        /\ \A o \in Objects \ {"camera", "preview"} : v.at[o] = "null"
    BY CreatedIs DEF Sound
  <2> HIDE DEF v, B
  <2>3. /\ p \in Graphs /\ p.lost = v.lost
        /\ v.at["preview"] # "dead" => p.damage = v.damage
        /\ p.damage = "none" => p.at["preview"] = "null"
        /\ \A o \in Objects \ {"preview"} : p.at[o] = v.at[o]
    BY <1>0, <2>2, DestroyIs
  <2> HIDE DEF p
  <2>4. /\ k \in Graphs /\ k.lost = p.lost
        /\ p.at["camera"] # "dead" => k.damage = p.damage
        /\ k.damage = "none" => k.at["camera"] = "null"
        /\ \A o \in Objects \ {"camera"} : k.at[o] = p.at[o]
    BY <1>0, <2>3, DestroyIs
  <2> HIDE DEF k
  <2>5. P => k.damage = "none" /\ k.lost = {} /\ \A o \in Objects : k.at[o] = "null"
    BY <1>0, <2>2, <2>3, <2>4
  <2>6. P => Gone(k)
    BY <1>0, <2>5 DEF Gone, NoneLive
  <2> QED BY <1>9, <2>1, <2>4, <2>6 DEF B, Gone
<1> QED BY <1>3, <1>4, <1>5, <1>6, <1>7, <1>8, <1>9 DEF Failures

-----------------------------------------------------------------------------
(* StillCapture: the inductive invariant *)

(* What the stages of a request find, unless a start or a tunnel failed.    *)
GraphClean ==
  ~unfinished /\ ~unjoined =>
    /\ graph.damage = "none" /\ graph.lost = {}
    /\ request = "idle" => /\ NoneLive(graph)
                           /\ \A c \in Components : graph.at[c] = "null"
    /\ request \in {"open", "start", "wait", "uninit"} => Ready(graph)
    /\ \A o \in Objects :
         request \in {"open", "start", "wait", "uninit"} => graph.at[o] # "dead"

(* A request starts from null pointers; only its capture is under way, with *)
(* its file.                                                                *)
StagesOfRequest ==
  /\ request = "init" => AllNull(graph)
  /\ shot = "taking" /\ ~unfinished => request \in {"wait", "uninit"}
  /\ request \in {"start", "wait", "uninit"} => target \in Names

(* Until a wait times out or a start fails: whether the image is there.     *)
WholeBut(S) == \A n \in Names \ S : file[n].data # "partial"

Images ==
  ~timedOut /\ ~unfinished =>
    /\ result # NoName => request = "idle" /\ file[result].data \in Ended
    /\ request \in {"idle", "init", "open", "crashed"} =>
         ~event /\ shot = "none" /\ WholeBut({})
    /\ request = "start" => ~event /\ shot = "none" /\ WholeBut({target})
    /\ request = "wait" =>
         /\ WholeBut({target})
         /\ IF shot = "taking" THEN ~event
            ELSE event /\ file[target].data \in Ended
    /\ request = "uninit" =>
         /\ ~event /\ shot = "none" /\ ok /\ WholeBut({})
         /\ file[target].data \in Ended

StillInv == StillTypeOK /\ GraphClean /\ StagesOfRequest /\ Images

LEMMA StillFields ==
  ASSUME StillTypeOK
  PROVE  /\ graph \in Graphs /\ NoName \notin Names /\ MaxAge \in Nat
         /\ file \in [Names -> [data : Contents, age : 0..MaxAge]]
         /\ \A n \in Names : file[n].data \in Contents /\ file[n].age \in 0..MaxAge
         /\ Absent \in [data : Contents, age : 0..MaxAge]
         /\ \A n \in Present : n \in Names
BY NamesAssumption, AgeAssumption DEF StillTypeOK, Absent, Contents, Present

(* A clean-up of old files leaves no partial file more.                     *)
LEMMA ExpiredGone ==
  ASSUME StillTypeOK, NEW n \in Names,
         file' = [m \in Names |-> IF m \in OthersExpired(n) THEN Absent ELSE file[m]]
  PROVE  /\ file' \in [Names -> [data : Contents, age : 0..MaxAge]]
         /\ \A m \in Names : file'[m].data = "partial" => file[m].data = "partial"
         /\ file'[n] = file[n]
<1>1. n \notin OthersExpired(n)
  BY DEF OthersExpired
<1>2. \A m \in Names : file'[m] = file[m] \/ file'[m] = Absent
  OBVIOUS
<1>3. file' \in [Names -> [data : Contents, age : 0..MaxAge]]
  BY StillFields
<1>4. Absent.data # "partial"
  BY DEF Absent
<1> QED BY <1>1, <1>2, <1>3, <1>4

(* Steps that leave the components alone.                                   *)
LEMMA GraphCleanStays ==
  ASSUME GraphClean, StagesOfRequest, graph' = graph,
         ~unfinished' /\ ~unjoined' => ~unfinished /\ ~unjoined,
         request' = request \/ (/\ request \in {"open", "start", "wait", "uninit"}
                                /\ request' \in {"open", "start", "wait", "uninit"})
  PROVE  GraphClean'
BY DEF GraphClean, NoneLive, Ready

LEMMA ReturnLatestStep ==
  ASSUME StillInv, NEW n \in Names, ReturnLatest(n)
  PROVE  StillInv'
<1> USE DEF StillInv
<1>0. /\ request = "idle" /\ n \in Present /\ result' = n
      /\ file' = [m \in Names |-> IF m \in OthersExpired(n) THEN Absent ELSE file[m]]
      /\ graph' = graph /\ request' = request /\ target' = target /\ event' = event
      /\ shot' = shot /\ ok' = ok /\ timedOut' = timedOut
      /\ unfinished' = unfinished /\ unjoined' = unjoined
  BY DEF ReturnLatest, Idle, Latest
<1>1. /\ file' \in [Names -> [data : Contents, age : 0..MaxAge]]
      /\ \A m \in Names : file'[m].data = "partial" => file[m].data = "partial"
      /\ file'[n] = file[n] /\ file[n].data \in Contents /\ file[n].data # "absent"
  BY <1>0, ExpiredGone, StillFields DEF Present
<1>2. StillTypeOK'
  BY <1>0, <1>1 DEF StillTypeOK
<1>3. GraphClean'
  BY <1>0, GraphCleanStays
<1>4. StagesOfRequest'
  BY <1>0 DEF StagesOfRequest
<1>5. Images'
  <2> SUFFICES ASSUME ~timedOut, ~unfinished
               PROVE  /\ file'[n].data \in Ended
                      /\ ~event /\ shot = "none" /\ WholeBut({})'
    BY <1>0 DEF Images
  <2>1. ~event /\ shot = "none" /\ WholeBut({})
    BY <1>0 DEF Images
  <2> QED BY <1>1, <2>1 DEF WholeBut, Contents, Ended
<1> QED BY <1>2, <1>3, <1>4, <1>5

LEMMA RequestStepInv ==
  ASSUME StillInv, NEW force \in BOOLEAN, Request(force)
  PROVE  StillInv'
<1> USE DEF StillInv
<1>0. /\ request = "idle" /\ request' = "init" /\ graph' = Wipe(graph)
      /\ result' = NoName /\ ok' = FALSE /\ target' = target /\ event' = event
      /\ shot' = shot /\ timedOut' = timedOut
      /\ unfinished' = unfinished /\ unjoined' = unjoined
      /\ graph.damage = "none"
  BY DEF Request, Idle, StillAlive, InitParams, StillDefaults
<1>1. /\ file' \in [Names -> [data : Contents, age : 0..MaxAge]]
      /\ \A m \in Names : file'[m].data = "partial" => file[m].data = "partial"
  <2>1. CASE file' = file
    BY <2>1, StillFields
  <2>2. CASE file' # file
    <3>1. PICK n \in Latest : file' = [m \in Names |-> IF m \in OthersExpired(n)
                                                       THEN Absent ELSE file[m]]
      BY <2>2 DEF Request
    <3>2. n \in Names
      BY StillFields DEF Latest
    <3> QED BY <3>1, <3>2, ExpiredGone
  <2> QED BY <2>1, <2>2
<1>2. graph \in Graphs
  BY StillFields
<1> DEFINE k == Wipe(graph)
<1>3. /\ k \in Graphs /\ k.damage = "none" /\ AllNull(k)
      /\ NoneLive(graph) => k.lost = {}
  BY <1>0, <1>2, WipeIs
<1> HIDE DEF k
<1>4. graph' = k
  BY <1>0 DEF k
<1>5. StillTypeOK'
  BY <1>0, <1>1, <1>3, <1>4 DEF StillTypeOK
<1>6. GraphClean'
  BY <1>0, <1>3, <1>4 DEF GraphClean
<1>7. StagesOfRequest'
  BY <1>0, <1>3, <1>4 DEF StagesOfRequest, AllNull
<1>8. Images'
  <2> SUFFICES ASSUME ~timedOut, ~unfinished
               PROVE  ~event /\ shot = "none" /\ WholeBut({})'
    BY <1>0 DEF Images
  <2>1. ~event /\ shot = "none" /\ WholeBut({})
    BY <1>0 DEF Images
  <2> QED BY <1>1, <2>1 DEF WholeBut
<1> QED BY <1>5, <1>6, <1>7, <1>8

LEMMA TickStep ==
  ASSUME StillInv, Tick
  PROVE  StillInv'
<1> USE DEF StillInv
<1>0. /\ request = "idle" /\ result' = result
      /\ file' = [n \in Names |->
                    IF n \in Present /\ file[n].age < MaxAge
                    THEN [file[n] EXCEPT !.age = file[n].age + 1] ELSE file[n]]
      /\ graph' = graph /\ request' = request /\ target' = target /\ event' = event
      /\ shot' = shot /\ ok' = ok /\ timedOut' = timedOut
      /\ unfinished' = unfinished /\ unjoined' = unjoined
  BY DEF Tick, Idle
<1>1. ASSUME NEW n \in Names
      PROVE  /\ file'[n] \in [data : Contents, age : 0..MaxAge]
             /\ file'[n].data = file[n].data
  <2> DEFINE e == [file[n] EXCEPT !.age = file[n].age + 1]
  <2>1. file[n] \in [data : Contents, age : 0..MaxAge] /\ file[n].age \in 0..MaxAge
    BY StillFields
  <2>2. file[n].age < MaxAge => file[n].age + 1 \in 0..MaxAge
    BY <2>1, StillFields
  <2>3. /\ file[n].age < MaxAge => e \in [data : Contents, age : 0..MaxAge]
        /\ e.data = file[n].data
    BY <2>1, <2>2
  <2> HIDE DEF e
  <2>4. file'[n] = file[n] \/ (file[n].age < MaxAge /\ file'[n] = e)
    BY <1>0 DEF e
  <2> QED BY <2>1, <2>3, <2>4
<1>2. file' \in [Names -> [data : Contents, age : 0..MaxAge]]
  BY <1>0, <1>1
<1>3. StillTypeOK'
  BY <1>0, <1>2 DEF StillTypeOK
<1>4. GraphClean'
  BY <1>0, GraphCleanStays
<1>5. StagesOfRequest'
  BY <1>0 DEF StagesOfRequest
<1>6. Images'
  <2> SUFFICES ASSUME ~timedOut, ~unfinished
               PROVE  /\ result # NoName => file'[result].data \in Ended
                      /\ ~event /\ shot = "none" /\ WholeBut({})'
    BY <1>0 DEF Images
  <2>1. /\ ~event /\ shot = "none" /\ WholeBut({})
        /\ result # NoName => file[result].data \in Ended
    BY <1>0 DEF Images
  <2>2. result # NoName => result \in Names
    BY DEF StillTypeOK
  <2> QED BY <1>1, <2>1, <2>2 DEF WholeBut
<1> QED BY <1>3, <1>4, <1>5, <1>6

LEMMA InitStillEncoderStep ==
  ASSUME StillInv, InitStillEncoder
  PROVE  StillInv'
<1> USE DEF StillInv
<1>1. PICK fail \in Failures, step \in {"create", "enable"}, pool \in BOOLEAN :
        /\ graph' = StillBuilt(fail, step, pool)
        /\ request' = IF fail # "none" THEN "idle" ELSE IF pool THEN "open" ELSE "crashed"
        /\ unjoined' = (unjoined \/ (step = "enable" /\
                                     fail \in {"preview_tunnel", "encoder_tunnel"}))
  BY DEF InitStillEncoder, Failures
<1>0. /\ request = "init" /\ graph.damage = "none"
      /\ target' = target /\ file' = file /\ event' = event /\ shot' = shot
      /\ result' = result /\ ok' = ok /\ timedOut' = timedOut
      /\ unfinished' = unfinished
  BY DEF InitStillEncoder, StillAlive
<1>2. AllNull(graph) /\ graph \in Graphs
  BY <1>0, StillFields DEF StagesOfRequest
<1> DEFINE B == StillBuilt(fail, step, pool)
<1>3. /\ B \in Graphs
      /\ (/\ graph.damage = "none" /\ graph.lost = {}
          /\ step = "enable" => fail \notin TunnelFailures)
         => /\ B.damage = "none" /\ B.lost = {}
            /\ fail = "none" => Ready(B) /\ \A o \in Objects : B.at[o] # "dead"
            /\ fail # "none" => Gone(B)
  BY <1>2, StillBuiltIs
<1>4. graph' = B
  BY <1>1
<1> HIDE DEF B
<1>5. /\ ~unjoined' => ~unjoined
      /\ ~unjoined' => (step = "enable" => fail \notin TunnelFailures)
      /\ unjoined' \in BOOLEAN
  BY <1>1 DEF TunnelFailures
<1>6. /\ request' \in {"idle", "open", "crashed"}
      /\ request' = "idle" <=> fail # "none"
  BY <1>1
<1>7. StillTypeOK'
  BY <1>0, <1>3, <1>4, <1>5, <1>6 DEF StillTypeOK
<1>8. GraphClean'
  <2> SUFFICES ASSUME ~unfinished, ~unjoined'
               PROVE  /\ B.damage = "none" /\ B.lost = {}
                      /\ fail # "none" => NoneLive(B) /\ \A c \in Components : B.at[c] = "null"
                      /\ fail = "none" => Ready(B) /\ \A o \in Objects : B.at[o] # "dead"
    BY <1>0, <1>4, <1>6 DEF GraphClean
  <2>1. graph.damage = "none" /\ graph.lost = {}
    BY <1>5 DEF GraphClean
  <2> QED BY <1>3, <1>5, <2>1 DEF Gone
<1>9. StagesOfRequest'
  BY <1>0, <1>6 DEF StagesOfRequest
<1>10. Images'
  <2> SUFFICES ASSUME ~timedOut, ~unfinished
               PROVE  /\ ~event /\ shot = "none" /\ WholeBut({}) /\ result = NoName
    BY <1>0, <1>6 DEF Images, WholeBut
  <2> QED BY <1>0 DEF Images
<1> QED BY <1>7, <1>8, <1>9, <1>10

(* UninitStillEncoder at the end of a request that got that far.            *)
LEMMA GraphCleanRemoved ==
  ASSUME StillTypeOK, GraphClean, request \in {"open", "start", "wait", "uninit"},
         graph' = StillRemoved(graph), request' = "idle",
         unfinished' = unfinished, unjoined' = unjoined
  PROVE  graph' \in Graphs /\ GraphClean'
<1>0. graph \in Graphs /\ Components \subseteq Objects
  BY StillFields DEF Components, Objects
<1> DEFINE k == StillRemoved(graph)
<1>1. k \in Graphs
  BY <1>0, StillRemovedIs
<1>2. ASSUME ~unfinished, ~unjoined PROVE Gone(k)
  <2>1. /\ graph.damage = "none" /\ graph.lost = {} /\ Ready(graph)
        /\ \A o \in Objects : graph.at[o] # "dead"
    BY <1>2 DEF GraphClean
  <2>2. \A c \in Components : graph.at[c] = "live" /\ graph.port[c] # "dead"
    BY <2>1 DEF Ready
  <2> QED BY <1>0, <2>1, <2>2, RemovedIsGone
<1> HIDE DEF k
<1>3. graph' = k
  BY DEF k
<1> QED BY <1>1, <1>2, <1>3 DEF GraphClean, Gone

LEMMA OpenStep ==
  ASSUME StillInv, NEW n \in Names, Open(n)
  PROVE  StillInv'
<1> USE DEF StillInv
<1>0. /\ request = "open" /\ event' = event /\ shot' = shot /\ result' = result
      /\ ok' = ok /\ timedOut' = timedOut
      /\ unfinished' = unfinished /\ unjoined' = unjoined
  BY DEF Open
<1>1. CASE /\ target' = n /\ request' = "start" /\ graph' = graph
           /\ file' = [file EXCEPT ![n] = [data |-> "partial", age |-> 0]]
  <2>1. [data |-> "partial", age |-> 0] \in [data : Contents, age : 0..MaxAge]
    BY StillFields DEF Contents
  <2>2. StillTypeOK'
    BY <1>0, <1>1, <2>1 DEF StillTypeOK
  <2>3. GraphClean'
    BY <1>0, <1>1, GraphCleanStays
  <2>4. StagesOfRequest'
    BY <1>0, <1>1 DEF StagesOfRequest
  <2>5. Images'
    <3> SUFFICES ASSUME ~timedOut, ~unfinished
                 PROVE  /\ ~event /\ shot = "none" /\ result = NoName
                        /\ \A m \in Names \ {n} : file'[m].data # "partial"
      BY <1>0, <1>1 DEF Images, WholeBut
    <3>1. ~event /\ shot = "none" /\ WholeBut({}) /\ result = NoName
      BY <1>0 DEF Images
    <3>2. \A m \in Names \ {n} : file'[m] = file[m]
      BY <1>1, StillFields
    <3> QED BY <3>1, <3>2 DEF WholeBut
  <2> QED BY <2>2, <2>3, <2>4, <2>5
<1>2. CASE /\ graph' = StillRemoved(graph) /\ request' = "idle"
           /\ target' = target /\ file' = file
  <2>1. graph' \in Graphs /\ GraphClean'
    BY <1>0, <1>2, GraphCleanRemoved
  <2>2. StillTypeOK'
    BY <1>0, <1>2, <2>1 DEF StillTypeOK
  <2>3. StagesOfRequest'
    BY <1>0, <1>2 DEF StagesOfRequest
  <2>4. Images'
    BY <1>0, <1>2 DEF Images, WholeBut
  <2> QED BY <2>1, <2>2, <2>3, <2>4
<1> QED BY <1>1, <1>2 DEF Open

LEMMA StartStep ==
  ASSUME StillInv, Start
  PROVE  StillInv'
<1> USE DEF StillInv
<1>0. /\ request = "start" /\ graph' = graph /\ target' = target /\ file' = file
      /\ event' = event /\ result' = result /\ ok' = ok /\ timedOut' = timedOut
      /\ unjoined' = unjoined
  BY DEF Start
<1>1. CASE request' = "wait" /\ shot' = "taking" /\ unfinished' = unfinished
  <2>1. StillTypeOK'
    BY <1>0, <1>1 DEF StillTypeOK
  <2>2. GraphClean'
    BY <1>0, <1>1, GraphCleanStays
  <2>3. StagesOfRequest'
    BY <1>0, <1>1 DEF StagesOfRequest
  <2>4. Images'
    BY <1>0, <1>1 DEF Images, WholeBut
  <2> QED BY <2>1, <2>2, <2>3, <2>4
<1>2. CASE request' = "idle" /\ unfinished' = TRUE /\ shot' = shot
  <2>1. StillTypeOK'
    BY <1>0, <1>2 DEF StillTypeOK
  <2>2. GraphClean' /\ StagesOfRequest' /\ Images'
    BY <1>0, <1>2 DEF GraphClean, StagesOfRequest, Images
  <2> QED BY <2>1, <2>2
<1> QED BY <1>1, <1>2 DEF Start

LEMMA WaitStep ==
  ASSUME StillInv, Wait
  PROVE  StillInv'
<1> USE DEF StillInv
<1>0. /\ request = "wait" /\ request' = "uninit" /\ event = TRUE /\ event' = FALSE /\ ok' = TRUE
      /\ graph' = graph /\ target' = target /\ file' = file /\ shot' = shot
      /\ result' = result /\ timedOut' = timedOut
      /\ unfinished' = unfinished /\ unjoined' = unjoined
  BY DEF Wait, StillTypeOK
<1>1. StillTypeOK'
  BY <1>0 DEF StillTypeOK
<1>2. GraphClean'
  BY <1>0, GraphCleanStays
<1>3. StagesOfRequest'
  BY <1>0 DEF StagesOfRequest
<1>4. Images'
  <2> SUFFICES ASSUME ~timedOut, ~unfinished
               PROVE  /\ result = NoName /\ shot = "none" /\ WholeBut({})
                      /\ file[target].data \in Ended
    BY <1>0 DEF Images, WholeBut
  <2>1. /\ result = NoName /\ shot # "taking" /\ WholeBut({target})
        /\ file[target].data \in Ended
    BY <1>0 DEF Images
  <2>2. shot = "none"
    BY <2>1 DEF StillTypeOK
  <2> QED BY <2>1, <2>2 DEF WholeBut, Ended
<1> QED BY <1>1, <1>2, <1>3, <1>4

LEMMA TimeOutStep ==
  ASSUME StillInv, TimeOut
  PROVE  StillInv'
<1> USE DEF StillInv
<1>0. /\ request = "wait" /\ request' = "uninit" /\ timedOut' = TRUE
      /\ graph' = graph /\ target' = target /\ file' = file /\ shot' = shot
      /\ result' = result /\ event' = event /\ ok' = ok
      /\ unfinished' = unfinished /\ unjoined' = unjoined
  BY DEF TimeOut
<1>1. StillTypeOK'
  BY <1>0 DEF StillTypeOK
<1>2. GraphClean'
  BY <1>0, GraphCleanStays
<1>3. StagesOfRequest' /\ Images'
  BY <1>0 DEF StagesOfRequest, Images
<1> QED BY <1>1, <1>2, <1>3

LEMMA FinishStep ==
  ASSUME StillInv, Finish
  PROVE  StillInv'
<1> USE DEF StillInv
<1>0. /\ request = "uninit" /\ request' = "idle" /\ graph' = StillRemoved(graph)
      /\ shot' = "none" /\ result' = (IF ok THEN target ELSE NoName) /\ target' = NoName
      /\ file' = file /\ event' = event /\ ok' = ok /\ timedOut' = timedOut
      /\ unfinished' = unfinished /\ unjoined' = unjoined
  BY DEF Finish
<1>1. graph' \in Graphs /\ GraphClean'
  BY <1>0, GraphCleanRemoved
<1>2. StillTypeOK'
  BY <1>0, <1>1 DEF StillTypeOK
<1>3. StagesOfRequest'
  BY <1>0 DEF StagesOfRequest
<1>4. Images'
  BY <1>0 DEF Images, WholeBut
<1> QED BY <1>1, <1>2, <1>3, <1>4

LEMMA ImageEndsStep ==
  ASSUME StillInv, ImageEnds
  PROVE  StillInv'
<1> USE DEF StillInv
<1>0. /\ shot = "taking" /\ shot' = "none" /\ event' = TRUE
      /\ \E d \in Ended : file' = [file EXCEPT ![target].data = d]
      /\ graph' = graph /\ request' = request /\ target' = target
      /\ result' = result /\ ok' = ok /\ timedOut' = timedOut
      /\ unfinished' = unfinished /\ unjoined' = unjoined
  BY DEF ImageEnds
<1>1. /\ file' \in [Names -> [data : Contents, age : 0..MaxAge]]
      /\ \A n \in Names \ {target} : file'[n] = file[n]
      /\ target \in Names => file'[target].data \in Ended
  <2>0. PICK d \in Ended : file' = [file EXCEPT ![target].data = d]
    BY <1>0
  <2> DEFINE w == [file[target] EXCEPT !.data = d]
  <2>1. target \in Names => /\ w \in [data : Contents, age : 0..MaxAge]
                            /\ w.data \in Ended
    BY StillFields DEF Contents, Ended
  <2>2. file' = [file EXCEPT ![target] = w]
    BY <2>0
  <2> HIDE DEF w
  <2> QED BY <2>1, <2>2, StillFields
<1>2. StillTypeOK'
  BY <1>0, <1>1 DEF StillTypeOK
<1>3. GraphClean'
  BY <1>0, GraphCleanStays
<1>4. StagesOfRequest'
  BY <1>0 DEF StagesOfRequest
<1>5. Images'
  <2> SUFFICES ASSUME ~timedOut, ~unfinished
               PROVE  /\ request = "wait" /\ result = NoName
                      /\ file'[target].data \in Ended
                      /\ \A n \in Names \ {target} : file'[n].data # "partial"
    BY <1>0 DEF Images, WholeBut
  <2>1. request \in {"wait", "uninit"} /\ target \in Names
    BY <1>0 DEF StagesOfRequest
  <2>2. request = "wait" /\ result = NoName /\ WholeBut({target})
    BY <1>0, <2>1 DEF Images
  <2> QED BY <1>1, <2>1, <2>2 DEF WholeBut
<1> QED BY <1>2, <1>3, <1>4, <1>5

LEMMA StillRestartStep ==
  ASSUME StillInv, StillRestart
  PROVE  StillInv'
<1> USE DEF StillInv
<1>0. /\ graph' = EmptyGraph /\ request' = "idle" /\ target' = NoName
      /\ event' = FALSE /\ shot' = "none" /\ result' = NoName /\ ok' = FALSE
      /\ unfinished' = FALSE /\ unjoined' = FALSE /\ file' = file
      /\ timedOut' \in BOOLEAN
      /\ ~timedOut' => \A n \in Names : file[n].data # "partial"
  BY DEF StillRestart
<1>1. EmptyGraph \in Graphs /\ Gone(EmptyGraph)
  BY DEF EmptyGraph, Graphs, Gone, NoneLive, Pointers, Ports, Damages, Components, Objects
<1>2. StillTypeOK'
  BY <1>0, <1>1 DEF StillTypeOK
<1>3. GraphClean'
  BY <1>0, <1>1 DEF GraphClean, Gone
<1>4. StagesOfRequest' /\ Images'
  BY <1>0 DEF StagesOfRequest, Images, WholeBut
<1> QED BY <1>2, <1>3, <1>4

LEMMA StillInvInit == StillInit => StillInv
<1> SUFFICES ASSUME StillInit PROVE StillInv
  OBVIOUS
<1>1. EmptyGraph \in Graphs /\ Gone(EmptyGraph)
  BY DEF EmptyGraph, Graphs, Gone, NoneLive, Pointers, Ports, Damages, Components, Objects
<1>2. Absent \in [data : Contents, age : 0..MaxAge] /\ Absent.data # "partial"
  BY AgeAssumption DEF Absent, Contents
<1>3. StillTypeOK
  BY <1>1, <1>2 DEF StillInit, StillTypeOK
<1>4. GraphClean
  BY <1>1 DEF StillInit, GraphClean, Gone
<1>5. StagesOfRequest /\ Images
  BY <1>2 DEF StillInit, StagesOfRequest, Images, WholeBut
<1> QED BY <1>3, <1>4, <1>5 DEF StillInv

LEMMA StillInvStep == StillInv /\ [StillNext]_stillVars => StillInv'
<1> SUFFICES ASSUME StillInv, [StillNext]_stillVars PROVE StillInv'
  OBVIOUS
<1>1. CASE UNCHANGED stillVars
  BY <1>1 DEF stillVars, StillInv, StillTypeOK, GraphClean, StagesOfRequest, Images,
              WholeBut
<1>2. CASE StillNext
  <2>1. CASE RequestStep
    BY <2>1, InitStillEncoderStep, StartStep, WaitStep, TimeOutStep, FinishStep, OpenStep
       DEF RequestStep
  <2> QED BY <1>2, <2>1, ReturnLatestStep, RequestStepInv, ImageEndsStep, TickStep,
             StillRestartStep DEF StillNext
<1> QED BY <1>1, <1>2

(* The state of the requests and of the still directory stays within its    *)
(* types (StillCapture, mmal_still_capture.cc).                             *)
THEOREM StillTypeCorrect == StillSpec => []StillTypeOK
<1>1. StillInv => StillTypeOK
  BY DEF StillInv
<1> QED BY <1>1, StillInvInit, StillInvStep, PTL DEF StillSpec

(* A successful answer names a file whose image was written to its end, but *)
(* for writes that failed, and no Event is left over, for any names and     *)
(* ages, until a wait times out or a capture cannot be started              *)
(* (StillCapture::GetLatestOrCapture, OnBufferCallback).                    *)
THEOREM AnswerHasEnded == StillSpec => []NamesEndedImage
<1>1. StillInv => NamesEndedImage
  BY DEF StillInv, Images, NamesEndedImage
<1> QED BY <1>1, StillInvInit, StillInvStep, PTL DEF StillSpec

(* Whatever step of building fails, a request leaves no component behind    *)
(* and destroys none twice, but for a tunnel that could not be enabled and  *)
(* a capture that could not be started (InitStillEncoder and                *)
(* UninitStillEncoder, mmal_still_capture.cc).                              *)
THEOREM NothingIsLeft == StillSpec => []RequestCleansUp
<1>1. StillInv => RequestCleansUp
  <2> SUFFICES ASSUME StillInv, ~unfinished, ~unjoined
               PROVE  /\ graph.damage = "none" /\ graph.lost = {}
                      /\ request = "idle" => /\ \A c \in Components : graph.at[c] = "null"
                                             /\ shot = "none"
    BY DEF RequestCleansUp
  <2>1. request = "idle" => shot = "none"
    BY DEF StillInv, StagesOfRequest, StillTypeOK
  <2> QED BY <2>1 DEF StillInv, GraphClean
<1> QED BY <1>1, StillInvInit, StillInvStep, PTL DEF StillSpec
=============================================================================
