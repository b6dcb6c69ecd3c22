# A formal model of rpi-webrtc-streamer

This directory models the streamer's own logic in TLA+: which client may use
the camera and when, how the WebSocket server and its clients' messages share their
records, how encoded frames travel from the camera to WebRTC, how the hardware
components are built, rebuilt and given their settings, how motion is found and
recorded, and what happens to the files: recordings, still images, configuration
and logs. TLC checks small instances, TLAPS proves what holds for every instance.

Paths below are relative to the repository; `src/` in them is the repository's
own `src` directory.

## 1. The system

The program runs on a Raspberry Pi. Browsers reach it over a WebSocket, native
clients over a plain TCP socket. One client at a time gets a WebRTC session in
which the camera's H.264 stream is sent. When there is no session, the same
camera is used for motion detection.

### Threads

| Thread | Runs | Made by |
| --- | --- | --- |
| main | `StreamingSocketServer::Wait`: libwebsockets, mDNS, the TCP sockets (src/main.cc) | `main` |
| signaling, worker, network | callbacks of the PeerConnection, delayed messages | each session (src/streamer.cc:126-136) |
| encoder queue | `InitEncode`, `SetRates`, `Release` | WebRTC |
| DelayedInit | `DelayInitTask` (src/mmal_wrapper.cc:73) | `EncoderDelayedInit` |
| MMAL callback | `OnBufferCallback`, hence `WriteBack` | MMAL |
| drain | `ReadFront` and what is done with the frame | `RaspiEncoderImpl`, `RaspiMotion` |
| worker queue | the limit on the motion directory's size | `RaspiMotion` |
| writer | buffer to file, one per `FileWriterHandle` | `FileWriterHandle::Open` |

### Components

| Component | State | Operations | Correct when |
| --- | --- | --- | --- |
| `SignalingChannelHelper`, `StreamerProxy` (streamer_signaling.cc) | `streamsession_active_`, `peer_id_` of each channel; `active_signaling_outbound_` | start, stop, message, send, report | one owner at a time; the flags agree; motion detection off while there is an owner |
| `AppWsClient`, `AppClientInfo` | the one registered client; buffer for chunked messages | connect, register, send, bye, requests, disconnect, delayed drop | the slot is freed when its owner goes; a drop hits only the session it was meant for |
| `DirectSocketServer` | accepted socket, reject counter, line buffer | accept, read, close, delayed drop | as above |
| `Streamer` | `peer_connection_`, `peer_id_` | connected, message, disconnected, callbacks | its PeerConnection belongs to the owner's peer |
| `LibWebSocketServer` | handlers, a runtime and send queue per connection | connect, send, writeable, close | an erased runtime is not used; answers do not stay behind |
| `RaspiEncoderImpl` | drain thread, flow control | InitEncode, SetRates, Release, drain | the thread ends with the use; no stale frame is sent |
| `EncoderDelayedInit` | `state_`, timestamp, queued tasks | InitEncoder, ReinitEncoder, poll | the first change gets built; rebuilds keep their distance |
| `MMALEncoderWrapper` | components, parameters, `mmal_initialized_` | Init, Reinit, Uninit, capture | never used when destroyed |
| `FrameQueue` | three lists of buffers, an Event | WriteBack, ReadFront, Init | FIFO of frames; no buffer lost |
| `RaspiMotionHolder`, `RaspiMotion` | capture, detection state, queues | Start, Stop, drain | camera excluded from sessions; each event recorded once |
| `RaspiMotionVector`, `RaspiMotionBlob` | grids | analyse, label, track | labelling is that of connected regions |
| `RaspiMotionFile`, `FileWriterHandle` | buffer, writer thread, files | start, queue, stop, limit | bytes in order; thread ends; the oldest files go first |
| `StillCapture` | busy flag, Event | capture | one at a time; a late answer is not taken for the next |
| `QualityConfig`, `state_` of the wrapper | best resolution, parameters | rates, rebuilds, zoom | what is recorded is what camera and encoder have |
| `ConfigMedia`, `OptionsFile` | rows, marks, derived values, file | load, change, reset, save, apply | what is saved is loaded; the camera takes it |
| `SessionConfig` | configuration by descriptor | set, get, remove | it belongs to the present connection |
| `LogRotatingStream` | files, bytes written | write, rotate | only the oldest bytes are dropped |
| parameter tables in C, decoder dummy, mDNS, HTTP notification, browser client, Telegram bot | | | hardware, library or separate programs |

`PROJECT.json` lists each with its status and the reason.

### How they interact

`AppWsClient` and `DirectSocketServer` call `StartSignalingSession`. The proxy
refuses if it is occupied; else it stops motion detection, records the owner
and calls `Streamer::OnPeerConnected`, which makes the three WebRTC threads and
the PeerConnection. The callbacks of the PeerConnection send messages through
the proxy to its owner *on the signaling thread*. An ICE failure posts a message
3400 to that thread; a second later its handler disconnects the client and
stops the session, on the signaling thread, while the main thread goes on
serving sockets. Only `AppClientInfo::Register` and `Disconnect` take a lock.
A session's encoder is initialised through `EncoderDelayedInit`; motion
detection initialises the same `MMALEncoderWrapper` directly. The wrapper is
also the `FrameQueue`.

What is hard here: teardown on two threads without a lock; state that is looked
at before a lock or a wait and used after; delayed messages and polling tasks
that outlive what they were posted for; buffers that are free and in use at the
same time. The list `hazards` of `PROJECT.json` has each with its line.

## 2. Modules

| Module | Models | Kind |
| --- | --- | --- |
| `Signaling` | session ownership on the main and the signaling thread | detailed specification |
| `SignalingProperties` | its properties | EXTENDS `Signaling` |
| `SignalingHistory` | two history variables, properties up to the first overlap | EXTENDS `SignalingProperties` |
| `SignalingProofs` | theorems about every behaviour, and up to the first overlap of handlers | EXTENDS `SignalingHistory`, TLAPS |
| `WsServer` | src/websocket_server*.cc, the commands of src/app_ws_client.cc, src/session_config.cc | detailed specification with its properties |
| `LineBuffer` | what native clients send, cut into lines (`OnRead` of src/direct_socket.cc) | |
| `WsServerProofs` | theorems about the server and about the line buffer, each on its own | EXTENDS `WsServer`, `LineBuffer`, TLAPS |
| `FrameFifo` | what the queue promises | abstract specification |
| `FrameQueue` | src/frame_queue.cc | detailed specification |
| `FrameQueueProperties` | its properties, refinement of `FrameFifo` | |
| `FrameQueueProofs` | lists of buffers; theorems, the refinement among them | EXTENDS `FrameQueueProperties`, TLAPS |
| `EncoderDelay` | `EncoderDelayedInit` and what uses it | detailed specification with its properties |
| `EncoderDelayProofs` | theorems | EXTENDS `EncoderDelay`, TLAPS |
| `MmalComponents` | the C functions that make, enable and destroy components | operators on a graph of pointers |
| `VideoEncoder` | `RaspiEncoderImpl` over `MMALEncoderWrapper`, with failures | EXTENDS `MmalComponents` |
| `StreamSettings` | `QualityConfig`, `state_`, rates, zoom | numbers, one call after the other |
| `CameraDataProofs` | arithmetic of regions and rates, bits of a number and of a float, connected parts of a grid; theorems | EXTENDS `StreamSettings`, `MotionVectors`, `MotionBlobs`, TLAPS |
| `MotionVectors` | `RaspiMotionVector::Analyse` up to the image | numbers of a bounded width |
| `MotionAges` | what the tracking of blobs promises | abstract specification |
| `MotionBlobs` | `RaspiMotionBlob` and what the observer is told | refines `MotionAges` |
| `MotionRecorder` | `RaspiMotion`'s drain thread, `RaspiMotionFile`, `FileWriterHandle` | detailed specification with its properties |
| `MotionRecorderProofs` | sequences of frames; theorems | EXTENDS `MotionRecorder`, TLAPS |
| `WriterBuffer` | `FileWriterBuffer`, byte by byte | |
| `MotionDirectory` | the directory of the recordings, `LimitTotalDirSizeTask` | |
| `StillCapture` | src/mmal_still_capture.cc | EXTENDS `MmalComponents` |
| `MmalProofs` | steps on the graph of components; theorems about the encoder and the still capture | EXTENDS `VideoEncoder`, `StillCapture`, TLAPS |
| `LogRotation` | src/log_rotating_stream.cc | |
| `FilesProofs` | theorems about the buffer, the directory, the log and the configuration, each on its own | EXTENDS `WriterBuffer`, `MotionDirectory`, `LogRotation`, `MediaConfig`, TLAPS |
| `MediaConfig` | src/config_media.cc, src/compat/optionsfile.cc | |
| `MCSignaling`, `MCWsServer` | symmetry for TLC | |
| `MCMediaConfig` | which rows a behaviour is about | |
| `MCCameraData` | `StreamSettings`, `MotionVectors`, `MotionBlobs` in one run | |
| `MCFiles` | `StillCapture`, `LogRotation`, `WriterBuffer`, `MotionDirectory`, `LineBuffer` in one run | |

`MCCameraData` and `MCFiles` host parts that do not interact: a behaviour is one of
the part that its initial state names, and the others stand still.

In each module a definition named like an existing one, with the comment
`Bug:`, is what a plausible mistake would make of the definition that follows
it. Nothing uses these; `PROJECT.json` pairs each with a property that would
notice the mistake.

### Signaling

`frame[t]` is the handler that thread `t` is in: a program counter, the channel,
the peer id it carries and the socket. A socket event can only begin a handler
when the main thread is in none; each further step is one access to shared
state. `Stop`, `StopPeer`, `ProxyStop`, `Clear`, `PeerDisconnected`,
`DeletePeerConnection`, `StartMotion` are the teardown, parameterised by the
thread, because it runs on both. A call that WebRTC marshals to the signaling
thread (`Marshalled`), and the join of the old signaling thread in `Initialize`,
wait until that thread is in no handler.

Variables correspond to the code's members as their comments say. Abstractions:

- room id and client id are one value of `Clients`; a socket is a descriptor
  that may be reused after it is closed; the content of a message is only
  whether it is an offer.
- `Boot` leaves `sockid_` undetermined: the constructor of `AppClientInfo` does
  not set it.
- motion detection is assumed enabled. `RaspiMotionHolder::Start` and `Stop` are
  one step each; a failed start leaves a `RaspiMotion` that is never active
  (`"failed"`).
- of an empty line that a native client sends only the `RTC_CHECK` matters that it
  fails (`Msg`).
- `crashed` stands for `RTC_CHECK`, a null pointer and use of a freed object (a
  choice: the process may survive it). `Restart` is `Restart=always` of
  scripts/rws.service. `RTC_DCHECK` is compiled out of release builds
  (`is_debug=false` in misc/webrtc_arm_build_args.gn), so the model goes on
  past it.
- left out: the outcome of sending. The line buffer of the TCP socket is in
  `LineBuffer`, the reassembly of chunked messages and the other commands are in
  `WsServer`.

### WsServer

What `Signaling` leaves out of the WebSocket side, connection by connection; the
session behind it is only on or off. `conn[s]` numbers the connection that is
open on descriptor `s`, so that the model can tell what the code keeps by descriptor
(runtime, configuration, registered client) from the connection it was kept for.
The main thread runs every callback of libwebsockets; `Close`, `OnDisconnect`,
`Stop` and `Erase` are the end of a connection in the order of the code. The
signaling thread sends (`DeliverQueue`, `DeliverAsk`) and drops a client a second
after an ICE failure (`CloseRuntime`, then `DropClient`, `DropReset` and `DropStop`, one
step each, between which the main thread may register another client).

- For each of these accesses the signaling thread walks the list of runtimes without
  a lock (`Begin`, `WalkOn`, `Found`), from any runtime to any other, since the
  order of the list is left out. The runtime it is at may be erased meanwhile; `UseErased` says
  which one it was (`stale`): its own client's (`own`), that of a client that no longer
  had the session when it was dropped (`late`), or another connection's that
  it passes (`passed`). What the process then does is undefined; in the model it ends, and
  `Restart` starts it again. An append to a runtime's messages and a write of the main thread
  are one step each.
- A command `register` is `Register` for AppClientInfo's part and `StartSession` for the
  session's, since a drop may come between the two.
- `lws_callback_on_writable` sets a flag (`ask`); a writeable callback writes one
  message and asks for no further one. libwebsockets may also call unasked.
- A command is known by what it changes: `Register`, `Bye`, `SendInvalid`,
  `SendEmpty`, `SetRtcConfig`, and all others by the number of their answers.
- A frame of a chunked message is its head, its tail, a whole command or a value
  without `cmd`. `Json::Reader` stops after the first value, so such a value at the
  front of the buffer hides all that follows.

### LineBuffer

A byte is its place among all bytes that native clients sent, one after the other;
`stream` knows of each its client and whether it is the delimiter. `rest` is
`buffered_read_`, `lines` what `MessageFromPeer` was called with: the place of the
delimiter, the bytes, and the client whose session got it. `OnRead` takes any number of
bytes, cuts lines off and keeps the rest. `OnAccept` and `OnClose` leave the buffer
alone, so that a rest outlives its client. Whether a client is accepted, refused or
dropped is `Signaling`'s.

### FrameQueue

A fragment is one MMAL buffer, known by its number. `ReadFront` is `Poll`,
`Woken` or `TimedOut`, `Recheck` and `Take`, the first three without the mutex.
`WriteBack` runs under the mutex and is one step with seven outcomes. `Destroy`,
`DeleteFree`, `ClearFree`, `DeleteQueue`, `ClearQueue` and `Refill` are `ReinitEncoder`'s
call of `Init`, which takes no queue mutex: `destroy` goes through the lists with one
loop and one `clear` each, and the reader may take a buffer between any two. `heap` has
the buffers that are allocated, and `torn` records that a buffer was taken between the
loop over the free list and the clearing of the queue. `fault` says how the process
died: pop of an empty free list, front of an empty queue, use of a deleted buffer, or
the reader and `Init` in the same list at once. Each of them may go unnoticed as well,
but for the first two.

A buffer that the reader still holds after it was deleted keeps its identity
until the reader is done, so that the model can tell it from a new one. An
empty MMAL buffer without flags changes nothing and is left out, and so is the
end of the drain thread, which reads no more.

### EncoderDelay

Three threads rebuild the components: the encoder queue (`SetRates`), the task
queue (`Poll`), and the main thread (`Apply`). `frame[t]` is the call each is in.
`state` is read in one step and written in a later one where the code does so;
`Reinit` is `ReinitEncoder` before it takes the mutex, `Build` after it: `Rebuild`, or
`RebuildFails` with the components as they were or gone. `change` is history: what the
last change in this use of the encoder came to. A tick
is half a second, so the periods are 8, 1, 2, 4 and 4 ticks as in the code; no
time passes during a call. A session and motion detection are taken to exclude
each other, which `Signaling` shows for as long as handlers do not overlap.

### MmalComponents and VideoEncoder

A graph records where each pointer of the wrapper's state leads (null, an object
that exists, one that was destroyed), to which component the port pointers belong,
what was lost, and the first damage: use of a null pointer or of something
destroyed. The MMAL calls of one C function that end in `goto error` are one
failure of that function. `VideoEncoder` has the four threads that meet there:
WebRTC's encoder queue, the drain thread, the delayed task and the main thread. What
`ReinitEncoder` and `UninitEncoder` do under the wrapper's mutex is one step each;
`InitEncoder` is two, because those who take no mutex see its camera before it has
built the rest. `Zoom` takes none (src/mmal_wrapper.cc:589): it reads the crop through
the camera it found (`Zoom`), and sets it in a later step (`ZoomSets`), when that camera
may have been destroyed by `Release`, by a failing rebuild or by a failing
`InitEncoder`. `happened` names the causes of later damage: a failure before or after
the ports were set, a failing rebuild, and an overlap, which is a thread inside a
rebuild or a zoom while `Release` or a failing `InitEncoder` destroys what it uses, or a
reset of `state_` under a use. A flow that is paused is not looked at by the drain
loop, so `flow` has two values.

### StreamSettings

`st` is `state_`, `cam` and `enc` are what the ports were given; `quality` is
`QualityConfig`. Bit rates are in kbit/s, a region of interest is the crop
rectangle (the doubles in between lose a unit for 66 widths, none of them reached
here), the moving average of the frame sizes is any of `Factors`. The calls run one
after the other: their interleaving is `VideoEncoder`'s. `recorded`, `widened` and
`failed` are history.

### MotionVectors, MotionBlobs, MotionAges

A point's history has `HistoryBits` bits; `Float` and `Integer` are the conversions
that the code makes of it, with the rounding of a float of `MantissaBits`. The
constructor leaves the histories as it finds them: `VectorInit` chooses them, and
`moved` is what they would be without.

`MotionBlobs` labels the points that move, compares the blobs with those of the
frame before and gives ids back. `MotionAges` says the same without ids: regions are
the connected parts, and the age of a region is one more than that of the oldest
blob it overlaps. The refinement mapping gives each point the count of its id.

### MotionRecorder

One lifetime of a `RaspiMotion`: `RaspiMotionHolder` makes a new one for each
start. The drain thread takes frames (`FrameArrives`) and motion vectors
(`ImvArrives`) from the encoder; after a vector it starts or stops the
recording, which is `Open`, `OpenSets` for the video and then for the vectors, or
`Close`, `Joined` for each. Each handle has a writer thread: `WriterLoop` and
`WriterTest` are its looks at the file and the buffer without a lock,
`WriterLock` takes `writer_lock_`, and the rest is `Write`. `Close` holds the same
lock while it joins the writer.

- The constructor of `FileWriterHandle` leaves `writer_quit_`, the limit and the
  count unset, and `Open` spawns the writer before it sets them: `Init` chooses
  them freely. `raced` records that a writer ran in that window.
- A frame is its number and the piece of data that moves through buffer and
  file; the limit is in frames. The buffer always has room (its bytes and
  resizing are in `WriterBuffer`). After the motion vectors' file could not be opened the next `Open`
  finds a running writer; assigning the new thread joins the old one (`Rejoin`),
  and one writer stands for both.
- What the analysis reports is any change between motion and none. A write to a
  file that `Open` has closed meanwhile counts as a failed write.
- `fresh`, `lost`, `raced` and `failed` are history: nothing reads them but
  properties.

### WriterBuffer, MotionDirectory, StillCapture, LogRotation

`WriterBuffer` numbers the bytes from the last time the buffer was empty; each
method holds the mutex and is one step.

`MotionDirectory` has the files of the recordings by number, since their names
have the date in them; the drain thread, the task on the worker queue, which lists
the directory once, and the two ways in which a recording ends without a task: a
session takes the camera, or the program dies (`DieAndRestart`).

`StillCapture` is a request from the age check to the removal of the components. The
callback on MMAL's thread is `ImageEnds`; `Wait` and `TimeOut` are the two ends of the
wait. A file is its name, its age and whether its image was written to the end, with or
without a write that failed (`Ended`).

`LogRotation` numbers the bytes as they are logged. Deletion and each rename of a
rotation are steps, each may fail, and the program may die between any two.

### MediaConfig

The rows are those of src/def/config_media.def whose code differs: every integer
and mode that reaches camera or encoder, and every text with a validator of its
own. `Valid` and `Derived` are the validators and what they store; `With` sets a row
and its mark; `SavedOptions` and `ReadFile` are the two directions of the file.
Saving is two steps, with a crash possible between them. `camera` is what the setters
of src/raspicamcontrol.c made of an `Apply`.

## 3. What is checked

The runs that pass:

| Run | Bounds | Shows |
| --- | --- | --- |
| `MCSignaling` | 2 sockets, 2 clients, 2 ICE failures, `Threshold` 3; symmetric sockets and clients | `StaleDropHarmless` and the five up to the first overlap (the last, `PeerChecksHold`) |
| `MCSignalingLive` | 1 socket, 2 clients, 1 ICE failure | `HandlersFinish`, `FailureReleases` |
| `MCWsServer` | 2 sockets, 2 clients, 3 numbers for connections, 2 messages per runtime, `kMaxChunkedFrames` 0; symmetric | `RuntimeInUse`, `AnsweredUnlessBurst`, `ConfigOfConnection`, `PiecesSinceConnect` |
| `MCFrameQueue` | 1 permanent and 2 temporary buffers of 2 units, fragments of 1 or 3 units, 4 fragments, 1 re-initialisation | `BufferPartition`, `NoLostWakeup`, `ImplementsFifo`, `FrameIsRead` |
| `MCEncoderDelay` | 2 resolutions, 2 tasks queued at a time | `FirstChangeIsMade`, `RebuildsSpaced` |
| `MCVideoEncoder` | none: the state is finite | `WholeInUse`, `DamageHasCause`, `DrainEndsWithUse` |
| `MCCameraData` | 3 sizes, 3 rates, 2 zooms; 2 points with 6 bits, 4 of mantissa; a grid of 3 by 2, 4 ids, 3 updates | `RecordHolds`, `ZoomAgrees`; `MotionIsReal`; `IdsAgree`, `ImplementsAges` |
| `MCMotionRecorder` | 4 frames, key frames 1 and 4, limit of 1 frame, no vectors' file, failures | `Contiguous`, `BeginsWithKey`, `CloseReturns`, `BufferIsWritten` |
| `MCMotionVectors` | 3 frames, both files, failures | `RecordsMotion` |
| `MCFiles` | 3 images, ages up to 2; frames of 1 to 3 bytes, an array of 8 that grows to 18; 3 recordings, a limit of 2 bytes, 2 tasks; 3 log files of 2 bytes, 7 bytes, 2 crashes; 6 bytes of 3 native clients | `NamesEndedImage`, `RequestCleansUp`; `BufferHoldsRest`; `DirectoryLimited`; `LogKeepsLatest`; `OnlyFirstIsMixed` |
| `MCMediaConfig` | one focus of rows at a time, values inside, at and beyond their limits | `DerivedAgrees`, `SavedIsLoaded`, `CameraTakesConfig` |

Properties of *every* behaviour of `Signaling`, crashes and overlapping handlers
included: a drop left over from an earlier session never targets a later
one (`StaleDropHarmless`, because the messages die with the signaling thread
they were posted to); no thread waits for good (`HandlersFinish`); an ICE
failure ends the session (`FailureReleases`), unless a teardown read the peer id of
another client (`misnamed`: `StopSignalingSession` clears its flag and then reads
`peer_id_`, which a client that registers in between has overwritten). Two more are
theorems (section 5).

Other properties hold as long as the two threads have not yet been inside
handlers at the same time. `SignalingHistory` records that in `overlapped`. Up to then, ICE
failures and delayed drops included, the three records of who owns the session agree
(`SessionConsistent`), motion detection and sessions exclude each other (`MotionExcluded`), motion
detection comes back (`MotionResumes`), a session has its client
(`ClientOwnsSession`) and each message passes the two `RTC_CHECK`s about the peer
(`PeerChecksHold`). The third one, that the message is not empty, fails for an empty
line of a native client, with no overlap at all. The code has
nothing that would prevent the overlap, and section 4 lists what it does.

The frame queue implements `FrameFifo` (`ImplementsFifo`): with the content of
the listed buffers as the abstract frames, each step is a step of the abstract
queue or changes nothing of it, the re-initialisation being its `Flush`, of the
frame that is being put together with its first loop and of the queue with its last. That
is about the order and the content at the time the reader takes a frame; what
the reader finds in the buffer later is another matter (section 4), and so is what
happens after a fault: nothing is promised then. `BufferPartition`: no buffer is ever
listed twice, and the listed ones are those that are allocated, `Capacity` of them
permanent, while `Init` does not run and unless the reader took a buffer in the middle
of one (`torn`).

`EncoderDelay`, as long as calls do not overlap and no task outlives its session: what a
session asked for last is built, was refused by MMAL, or is delayed, and a delayed change
is built by the task's next poll if it is the session's first and by no poll if it is a
later one (`FirstChangeIsMade`, which says what the code does; section 4 sets it against
the comment). Rebuilds keep their distance (`RebuildsSpaced`).

`MotionRecorder`: file and buffer together hold every frame up to the latest in
order (`Contiguous`), from a key frame if there was one (`BeginsWithKey`); what is
recorded is motion, and motion is recorded (`RecordsMotion`); a recording's
writers empty their buffers (`BufferIsWritten`);
closing a file returns if its writer was not about to take the lock
(`CloseReturns`). Where the code breaks such a promise by itself the property
says so in its premise: frames are lost to the limit or a failed write; a writer
that ran ahead of `Open` may have ended at once, so that nothing empties the
buffer of that recording.

`WsServer`: the signaling thread goes through the runtimes without a lock, and still
never uses the one it looks for after it was erased, as long as it sends or drops a client
that has the session (`RuntimeInUse`), because a client that leaves is first
taken out of the slot and its session's end waits for the signaling thread. The
property does not cover what that wait does not protect (section 4): the runtimes the walk
passes, and the one of a drop that comes late. A
message stays behind only after a burst (`AnsweredUnlessBurst`): two messages that
wait at the same time get one callback; when all are written the next ones are safe again.
What is kept by descriptor belongs to the
connection that has it now, and a session begun by its client's own connection runs with that
one's configuration, unless a drop has reset the client and not yet stopped the session
(`ConfigOfConnection`); the one buffer for pieces holds
none from before the newest connection (`PiecesSinceConnect`).

`LineBuffer`: the messages do not depend on how TCP cuts the bytes into reads
(the theorem about `LinesAreWhole`). What a client left without a delimiter is put in
front of the next client's first message, and never of a later one (`OnlyFirstIsMixed`).

`VideoEncoder`: without a failure and an overlap nothing is used after it was
destroyed and nothing is lost, and what is in use is whole (`WholeInUse`); each cause
of damage can lead to the damage that is named for it and to no other
(`DamageHasCause`); the drain thread ends with the use (`DrainEndsWithUse`). A zoom
that overlaps `Release` sets the crop of a camera that is gone: that is one of the
overlaps, and the model reaches it.

`StreamSettings`: `RecordHolds` is that camera and record agree unless a change is delayed
(`CameraFollows`), and encoder and record unless a rebuild recorded a rate
(`RateFollows`); the zoom survives rebuilds and, for a region no wider than high that is
only zoomed in and reset, stays on the sensor (`ZoomAgrees`). `MotionVectors`: what the
observers are told is motion of these frames, not what was in the memory before
(`MotionIsReal`). `MotionBlobs`: ids are neither lost nor shared (`IdsAgree`), and the
blobs and ages are those of `MotionAges` (`ImplementsAges`); a region that finds no free
id does not count as moving.

Files: an answer names an image that was written to its end, but for what could not be
written (`NamesEndedImage`), and leaves nothing behind
(`RequestCleansUp`), unless a capture timed out or could not be started; the bytes of
a recording wait in order however the buffer grows (`BufferHoldsRest`); only the oldest
recordings are deleted, never one that is being written, and without the oldest file
the rest is within the limit (`DirectoryLimited`); a rotation drops the oldest file and
nothing else, wherever a crash interrupts it (`LogKeepsLatest`).

`MediaConfig`: the lists follow their rows, and the region and the fixed resolution do while
their rows are set (`DerivedAgrees`), what was saved
is what the next start loads (`SavedIsLoaded`), and no setter of the camera refuses
what the validators accept (`CameraTakesConfig`). The exceptions that the code makes are
in the premises, and in section 4.

Why the bounds are enough: each is the least at which the interesting cases
meet. Two sockets and two clients give a registered client, a competitor, and a
descriptor in use again after a drop was posted for it; one ICE failure gives
the delayed drop, and a second one a drop in the session that follows. A permanent buffer and four fragments are the least with
which two buffers queue up, a temporary one behind the permanent one, and every buffer
of the free list is a temporary one; fragments of 3 units are too large, two of 1 unit
fill a buffer, three overflow it. Two tasks are one session's and a leftover. Four
frames are what two recordings take: vector 1 starts one, 2 and 3 end it, 4 starts the
next; the second key frame, 4, comes during the first recording or between the two.
Three numbers for connections
are one more than the descriptors, so that a descriptor is used again while something
still refers to the connection before; with `kMaxChunkedFrames` 0 the third piece is
given up (the theorem covers the code's 5). Six bytes of three clients are a rest that
two clients leave and the third one's first and second message. A grid of 3 by 2 has regions that part,
join and touch at a corner; the history keeps the code's proportion of bits that a
float loses. An array of 8 that grows by a quarter four times meets every frame at its
end, and frames both below and above a quarter. Three recordings are one deleted, one
at the limit and one being written.

Fairness: a thread inside a handler goes on; a queued message is delivered; the
drain loop loops and ends when it is asked to; writers run. Nothing is assumed of
clients, of ICE, of the encoder, or of the restart after a crash. The other runs
check safety only.

`CHECK_DEADLOCK FALSE` is used for `FrameQueue`, whose number of fragments is
bounded and where a fault ends the process; for `MotionRecorder`, which ends with its
drain thread; for `MCFiles`, where bytes, crashes and the size of the array are
bounded; and for `MCCameraData`, where the updates of a blob are.

No run lists a type invariant: those of the modules with proofs are theorems.

## 4. What the code says and does not do

The run `MCMessageForPeer` checks `RTC_CHECK(peer_id_ == peer_id || peer_id_ == -1)`,
src/streamer.cc:372, and TLC finds a behaviour that contradicts it: a session starts
while the other thread tears down the previous one, the `Streamer` keeps the previous
peer's id, and the new session's first message aborts the process.

Further disagreements that the models reproduce, but that no run checks:

- the forced close of a direct session should come when the counter has reached the
  threshold (src/direct_socket.cc:126-129); braces are missing, and the first quick
  retry closes it;
- no message is to be empty (`RTC_CHECK`, src/streamer.cc:373); `OnRead` passes an empty
  line of a native client on (src/direct_socket.cc:174-177), and the process aborts;
- `StopSignalingSession` on the signaling thread reads `peer_id_` after it has cleared
  the flag (src/streamer_signaling.cc:104-105); if another client registers in between,
  the `Streamer` is told that a peer it does not know has gone, and the PeerConnection
  that failed is never deleted;
- `Init` deletes the buffers without the queue's mutex (src/frame_queue.cc:96-120). A
  buffer that the drain thread moves to the free list meanwhile leaks, or is one too
  many from then on, or is on the free list though it was deleted, and list and loop may
  be in each other's way;
- `ReadFront` returns the frame (src/frame_queue.h:113), but its buffer is free by then,
  and the writer may overwrite it at once;
- the resolution is reset after 2 s (src/mmal_wrapper.cc:68), but every poll restarts the
  2 s, so that after the first change later ones stay delayed (`FirstChangeIsMade`), and
  a change whose rebuild fails is forgotten;
- the writer is to be stopped before the drain thread quits (src/raspi_motion.cc:334);
  `Close` may join a writer that waits for the lock `Close` holds, and then drain thread and
  `StopCapture` hang;
- a callback of the PeerConnection sends while the main thread stops the
  session, against the assertion at src/streamer_signaling.cc:137;
- the deletion of temporary buffers empties the free list, against its comment
  "stop before empty" (src/frame_queue.cc:206);
- a request made while cooling down is forgotten when the poll overwrites the
  state (src/mmal_wrapper.h:59);
- the configured `motion_clear_wait_period` is overwritten by its default at
  the end of the constructor (src/raspi_motion.cc:144, against
  README_motion.md:60);
- a recording begins without a key frame if none came since the last one
  (src/raspi_motionfile.cc:135);
- the delayed drop of a TCP session stops it twice, against the assertion at
  src/streamer_signaling.cc:103;
- a new session may start while `peer_id_` is still set, against
  src/streamer.cc:342;
- an overlapping teardown starts motion detection during the next session
  (src/streamer_signaling.cc:164);
- a stale Event ends the wait of `ReadFront` early (src/frame_queue.h:112);
- parts of frames are queued (src/frame_queue.h:121);
- a fragment that fits exactly violates the assertion at
  src/frame_queue.cc:65;
- a task that outlived its session rebuilds the next user's encoder early
  (src/mmal_wrapper.h:58);
- `ReinitEncoder` looks at `mmal_initialized_` before it takes the mutex
  (src/mmal_wrapper.cc:443).

Server and client protocol:

- what a native client left unfinished is joined to the first message of the next one
  (src/direct_socket.cc:180): neither `OnAccept` nor `OnClose` clears the buffer. The
  comment there expects the rest of the line from the same socket;
- pieces are kept "up to 5 times" (src/app_ws_client.cc:290); six are kept, and the
  seventh drops them. A value without `cmd` at the front is never given up;
- `Close` sets flags in the runtime of the first handler, which nothing reads
  (src/websocket_server.cc:502): the connection stays open;
- the walks of the signaling thread over the runtimes (src/websocket_server.cc:363-373,
  425-436, 481-509) take no lock against the main thread's erase (:396). If another
  connection closes while its runtime is passed, or the dropped one closes after a
  bye, when nothing waits for the signaling thread, an erased runtime is used;
- a drop resets the client slot in two steps (src/app_ws_client.cc:846-847). A client that
  registers between them is cleared although its answer was a success; one that registers between
  the reset and the end of the session is registered beside a session with the other's
  configuration, and its connection is closed with `kErrInternalError`;
- `LWS_CALLBACK_SERVER_WRITEABLE` sends one message and asks for no further callback;
  requests for one are not counted, so that one of two messages may wait for good.

Encoder and settings:

- the drain loop is to pause while the flow is paused (comment at
  src/raspi_encoder_impl.cc:228); it never looks at that state;
- `Release` empties `encoded_image_`, which only the constructor fills
  (src/raspi_encoder_impl.cc:202);
- after a rebuild the encoder keeps its old bit rate, and `SetRate` takes the recorded one
  for set (`reset_encoder_component` is compiled out);
- a delayed change is recorded at once, so that frames carry the new size while they
  are encoded at the old one;
- the encoder is rebuilt only if width and height both differ; `Apply` does not wait for the
  delay;
- zooming out near the right or the lower edge, or again and again, leaves the sensor,
  and moving left makes x negative (FIXME in src/app_ws_client.cc); zooming into a region
  that is wider than high can make its height negative.

Motion:

- the histories go through a float, so a point that moved in nearly every frame but not in
  this one counts one bit; a history of ones becomes 2^32, which does not fit;
- with fewer than 11 frames a second the cooling down ends before the garbage has left the
  histories;
- if all points move alike none stands out: a camera that is shaken shows no motion;
- `SetBlobCancelThreshold` divides integers, and the threshold is 0
  (src/raspi_motionblob.cc:448), so that noise may use up the ids;
- the directory is to stay within the limit (src/raspi_motion.cc:365); the loop stops when
  what remains without the oldest file is within it. A recording that a session cuts
  short posts no task, and a file that was renamed after the listing is not deleted;
- the buffer is resized once and by a quarter: a larger frame is written beyond it
  (src/file_writer_handle.cc:83).

Files and configuration:

- a capture that timed out leaves a partial file, which is the latest image from then on,
  and the late callback ends the next wait at once; a capture that could not be started
  leaves its components;
- `OnBufferCallback` does not look at the result of `file_.Write`
  (src/mmal_still_capture.cc:231): on a full disk a truncated image is answered with as a
  success, and is the latest one for the requests that follow;
- a `Reset` takes the marks of all rows away and sets their values to the defaults, but a
  region and a fixed resolution that were loaded stay in use;
- a `Reset` that is saved does not bring the defaults into the file; a crash during `Save`
  loses the configuration; '#' cuts a text when it is loaded;
- the default region and the default fixed resolution are never parsed, and a fixed
  resolution that does not parse is accepted; a JSON configuration that is refused has
  changed the rows before the bad one;
- a failed rename makes the next one overwrite a log file, a log file that cannot be opened
  ends logging without a word, and each restart rotates: ten restarts drop all older logs.

## 5. What is proved

All theorems rest on the named assumptions of the constants only: they are
distinct values, bounds and sizes are natural numbers, the periods of the task
queue are positive, the absence of a log file is not a sequence of bytes. Three say
more. `PeriodsOrder` relates the periods as the code's values do: the first poll comes
after the delay (4 s and 2 s), which is no shorter than the cooling down (2 s), and the
intervals of the later polls do not exceed that. `DirectoryAssumption` has one file of motion vectors fit into the
limit. `CutBits` is not above `MantissaBits` (2 and 24 in the code). The theorems hold for any number of sockets, clients, buffers, resolutions,
tasks, recordings and log files. Each inductive invariant was first checked by TLC on the
instances of section 3.

**Every behaviour of `Signaling`** (`SignalingProofs`):

- `TypeCorrect`: `Spec => []TypeOK`. One lemma per group of actions; the frame
  changes are lemmas of their own (`GotoType`, `DoneType`, `EnterType`,
  `FinishType`).
- `RegisteredIsConnected`: `Spec => []RegisteredConnected`. `TypeOK` is the
  strengthening it needs. The argument: connections go away only in `WsClose`
  and `RegCheck`, which put the main thread at `disconnect` with that socket,
  and leave that point only by freeing the slot if it is that socket's; and no
  handler but `WsRegister`, which requires the open socket, fills the slot.
- `NotTakenOver`: `Spec => NoTakeover`. Only `Bind` sets an owner, and it does so
  at `bind`. That the proxy is free there is not a matter of one handler: between
  the main thread's test at `start` and its assignment at `bind` the signaling
  thread may run a whole teardown, which can only free it. The invariant used is
  that the main thread at `bind` implies a free proxy (`BindsFreeProxy`).

- `StaleDropIsHarmless`: `Spec => []StaleDropHarmless`. A drop names a descriptor, not a
  session. `DropInv` says what a queued drop tells of the rest: there is at most one; the
  PeerConnection it was posted for is the last one made, so that no later one can be
  hit; and its channel, while active, owns the proxy. The main thread may be anywhere in
  a start or a stop meanwhile, which is what its other parts follow (`MainBinds`,
  `MainReleases`).

**Up to the first overlap of handlers** (`SignalingProofs`). The six properties of
`SignalingHistory` follow from one invariant, `QuietInv`, which is the theorem
`QuietSession`. None of them is inductive: a teardown breaks the agreement of
flags, owner, PeerConnection, motion detection and client slot step by step and
restores it at its end. `Phase(t)` says for each point of a handler how far they
may be apart there; `Alone(t)` says that the other thread is in no handler, so
that nothing else moves. From it: `OneSessionHolds`, `SessionIsConsistent`,
`MotionIsExcluded`, `MotionDoesResume`, `ClientHasSession`, `MessagesPassPeerChecks`.

**`FrameQueue`** (`FrameQueueProofs`). The lemmas about lists
(what appending, taking the head and cutting a list do to its elements) carry
the rest.

- `QueueTypeCorrect`: `Spec => []TypeOK`, of which `length_ <= buffer_size_` is
  the part that is not about types alone.
- `ReaderIsWoken`: `Spec => []NoLostWakeup`. It is inductive: every step that
  queues a buffer sets the Event, and the reader goes to sleep only from a look
  at an empty queue.
- `BuffersArePartitioned`: `Spec => []BufferPartition`, from `QueueInv`, which
  adds that at most one frame is being put together, none while `Init` runs, and what is
  allocated and listed after each of its loops (`Allocated`). `Kept` is what each step
  of the writer and the reader shows: the set of permanent buffers on the lists stays
  the same, and what is allocated changes with what is listed.
- `TemporaryIsUsedOnce`: `Spec => TemporaryUsedOnce`, an action property, from the
  same invariant (a temporary buffer is on a list, so a new one is another one).
- `QueueImplementsFifo`: `Spec => ImplementsFifo`. The refinement needs in
  addition that queued buffers have fragments and that the reader has some
  exactly while it is reading (`FifoInv`). `FramesAppend` and `FramesTail` show
  what queueing and taking a buffer do to the sequence of frames; each action
  is matched with the one of `FrameFifo` that it implements.

**`EncoderDelay`** (`EncoderDelayProofs`):

- `DelayTypeCorrect`: `Spec => []TypeOK`.
- `SessionIsPolled`: `Spec => []SessionPolled`. Only a poll that finds the encoder
  not initialised ends a task (`QueuedKept`).
- `RebuildsAreSpaced`: `Spec => RebuildsSpaced`, an action property. The code measures the
  distance from a timestamp that every poll moves, not from the last build. `PollSafe`
  relates the two and the timer of the session's task: the timestamp is no older than the
  components, or they are old enough by the time of the poll, or the timestamp is too
  recent for that poll to change anything. This is where `PeriodsOrder` is needed.
- `FirstChangeOnly`: `Spec => []FirstChangeIsMade`. `DelayInv` says that as long as
  calls do not overlap at most one thread is in a call, and `Phase(t)` at which points of
  it the requested resolution may be neither built nor delayed. `Timely` adds when the
  task polls: until its first poll the delaying period is over by the time it is due,
  and once a change is made the timestamp is always younger than the cooling down then.

**`MotionRecorder`** (`MotionRecorderProofs`), for any number of frames, any key
frames and any limit. One inductive invariant, `RecorderInv`, in four parts, of which `LockHeld`
comes last:

- `VideoInv` gives `RecordingContiguous` and `RecordingBeginsWithKey`. Two facts
  make it inductive: the buffer holds the latest frames in order even while the
  file is closed and after a loss (`BufferRun`), which is what an `Open` then
  saves; and a key frame that came while the file was closed is still in front
  of it (`KeyWaits`). The lemmas about sequences say that a run of frames is
  extended by the next one, that its tail is a run, and that moving the head of
  the buffer to the end of the file changes nothing of the two together.
- `DetectionInv` gives `MotionIsRecorded`: the detection state does not change while
  the drain thread opens or closes files (`MotionPhase`).
- `WriterLives` gives `RecordingWritersLive`: a writer that did not run ahead of
  `Open` ends only after its file was closed, so the `writer_quit_` that an earlier
  recording left is not seen.

`RecorderTypeCorrect` is the type invariant. Two action properties are about `Close`, which
joins the writer with the lock held that the writer may want; they are what is safety in
`CloseReturns`. Both rest on `LockHeld`: the drain thread holds the lock exactly
while it joins the writer.

- `JoinNeedsNoLock` (`JoinedWriterEnds`): a writer that is being joined and has not decided to
  take the lock never does, since the file it tests is closed. Whatever step it is at,
  its way to the end is free of the lock.
- `BlockedStaysBlocked` (`BlockedForGood`): a writer that had decided to, and the drain thread
  that joins it, wait for each other for good; no step of the camera, the analysis or the
  other writer ends it.

**`WsServer`** (`WsServerProofs`), for any descriptors, clients and bounds. The
invariant has two parts that share no variable: `RestInv`, which every action
preserves without a look at the pieces, and `PiecesInv`, which matters in `Connect` and
`OnMessage`. A process that starts again is as one that starts first (`BootInvNext`).

- `RuntimeStaysInUse`: `Spec => []RuntimeInUse`. `Sending` is what makes it inductive: while
  the signaling thread sends, or drops a client that had the session (`HadSession`), the session
  is on, its connection is open, and its client is registered or the main
  thread is at `Stop`, where it waits. With `ClientOpen`, the registered client's
  connection is not the one that is being erased.
- `MessagesAreAnswered`: a runtime without a burst has at most one message (`Waiting`).
- `ConfigIsConnections`: a connection that ends has no configuration by the time its number
  goes (`ConfigGone`), and a session that its own client began has a registered client, or is
  being stopped, or a drop is about to stop it (`SessionHasClient`); only in the last case can
  another client register beside it.
- `PiecesAreNew`: an empty buffer has a count of 0, and the first piece decides what counts.
- `ServerTypeCorrect` is the type invariant.

**`LineBuffer`** (`WsServerProofs`), for any bytes, reads and clients: `LineTypeCorrect`,
`MessagesAreLines` (`LinesAreWhole`) and `OnlyFirstHasOldBytes` (`OnlyFirstIsMixed`).

- `LinesAreWhole` is inductive with the type invariant: the buffer is the bytes from
  the last delimiter on, so that old and new bytes together are an interval (`PlacesJoin`), a line
  cut out of it is one too (`PlacesCut`), and a delimiter in it is one of the stream, `b` places
  later. That delimiters that were found before keep their lines is part of `OnReadInv`.
- `OnlyFirstIsMixed` follows (`MixedIsFirst`) with `InTurn`: clients come one after the
  other. Bytes of an earlier client in a message to a later one come before all of the later one's,
  and between them and the message's end there is no delimiter.

**`VideoEncoder`** and **`StillCapture`** (`MmalProofs`). Both rest on lemmas about what
each C function does to a graph of pointers, whichever of its steps fails.

- `GraphInv` gives `EncoderTypeCorrect`, `EncoderIsWhole` and `DamageIsCaused`. What makes it
  inductive is the state *between* uses: a clean `Release` leaves no object, a failed use may
  leave the ports of the one before, and only a new use starts from null pointers
  (`GraphSound`); that while the queue builds, the graph is an empty one with a camera,
  or without it if `state_` was reset meanwhile (`Building`); and that a thread found in a
  rebuild of an encoder that is gone, or in a zoom of a camera that is gone, was noted
  (`OverlapNoted`).
- `DrainInv` adds the drain thread's part: it is attached to a use from `InitEncode` to
  `Release`, and at `uninit` it was told to quit. It gives `DrainIsJoined`.
- `StillInv` gives `StillTypeCorrect`, `AnswerHasEnded` and `NothingIsLeft`. It says what
  each stage of a request finds: complete components from `open` to `uninit`, no event
  and no partial file but the one that is being taken (`Images`), and a capture under way
  only while its request waits for it.

**`StreamSettings`** (`CameraDataProofs`), for any sizes, rates, factors and regions:
`SettingsTypeCorrect`, `RecordIsTrue` (`RecordHolds`) and `ZoomStaysOnSensor`. The
first is not about types alone: that `GetBestMatch` returns one of the
configured sizes needs that a list has a nearest one (`NatMin`). `Zoomable`
strengthens `ZoomAgrees`: a region that was only zoomed in and reset is upright and not smaller
than the smallest zoom, without which the next zoom might leave the sensor.

**`MotionBlobs`** (`CameraDataProofs`), for any size of the image, number of ids and
thresholds, and also when the ids do not suffice: `BlobTypeCorrect`, `BlobsHoldTheirIds` and
`BlobsImplementAges`. Labelling is a scan of the points with a search inside.

- That the recursive functions of the model exist is shown by the least point at which
  there is none (`SearchExists`, `ScanExists`). `ConnectedClosed`: the search leaves out no
  point that touches what it took, as it grows with every step until then and has as many
  steps as there are points. `ConnectedSpans`: a part of what it took that has the first
  point and with a point all its neighbours is all of it.
- `Scanning` is the invariant of the scan, in parts: the active list has each id once, its
  blob is not empty, and the ids are new (`Labelled`); a blob touches neither another one
  nor what is still to be scanned (`Separate`); it is connected, and its id counts 1 (`Joined`);
  the ids of the frame before count what they did (`Counted`). `ScannedKeeps` is one point of the scan.
- A frame then takes the ids of the frame before out of use and leaves those of the scan,
  which gives `IdsAgree`. For the refinement, a region of `MotionAges` is the blob of one id
  (`RegionIsBlob`): it cannot leave a blob because blobs do not touch, nor be less than one
  because a blob is connected.

**`MotionVectors`** (`CameraDataProofs`), for any points, any width of the histories and of
the float's mantissa, and any cooling down: `VectorTypeCorrect` and `ReportsRealMotion`
(`MotionIsReal`). `VectorInv` is inductive because it says what a history is at each frame
and not only at the end:

- With a cooling down as long as the histories, a history has the frames that were seen on
  top, and below them what is left of the memory; the bits of the frames are the same
  without that memory (`Agrees`). Each frame takes one bit of it away (`ShiftingAgrees`).
- The observers are only told once nothing is left. What is then counted has still been
  through a float. The number of bits of a number is that of its upper part and its
  lower part (`HighBits`, `LowBits`), and adding one to the upper part takes at least as
  many bits as it adds (`AddingWeight`), so that rounding up adds none: it needs a bit below
  (`RoundingBits`). If it carries over all bits, and the integer saturates, the history had
  all upper bits and one more (`OverflowBits`), which are more than `CutBits` only because
  `CutBits` is not above `MantissaBits` (2 and 24 in the code). `FloatAddsNothing` puts these together.

**`WriterBuffer`, `MotionDirectory`, `LogRotation`, `MediaConfig`** (`FilesProofs`):

- `BufferTypeCorrect` and `BufferRestHeld`, for any sizes. `BufferInv` is their conjunction:
  that the copy keeps the bytes between the offsets (`CopiedKeeps`) is the step that
  resizing needs.
- `DirectoryTypeCorrect` and `DirectoryStaysLimited`, for any limit and any number of
  recordings and tasks. `DirInv` has what a task still knows when the drain thread has gone
  on since it listed the directory: its list has every existing file up to the recording
  that was the latest then, with the present size of those that are not being written
  (`Scanned`); the files are an interval that ends with the latest recording (`Kept`); and
  once nothing is left to do they are within the limit (`Limited`). The sum of the sizes
  is a fold over a set; what it does when a file is taken away is proved by induction on
  sets (`SubsetInduction`).
- `LogTypeCorrect` and `LatestIsKept` (`Spec => LogKeepsLatest`, an action property), for any
  number and size of files and any crashes. `LogInv`: the files are in order, and what is
  not yet flushed comes after them (`Ordered`); the file that the last renaming has left
  is not there, unless a renaming failed (`Vacated`), so that the next renaming overwrites
  nothing; and without crashes the log is cut into chunks of a file, where file `i` holds
  chunk `q - i`, or `q - i + 1` once the rotation has moved it (`Rotated`). That all files
  but one stay filled follows by counting the bytes of the last chunks.

- `DerivedFollowRows` (the lists always, region and fixed resolution while their row is marked),
  `SavedIsLoadedAgain` and `CameraTakesValues`, for any set of rows that
  changes together (a run takes a few at a time) and whatever a file or a message says.
  The assumption `FocusesAssumption` only says that these are rows of the definition file.
  `MediaInv` says what a mark is worth: a marked row has a value its validator takes
  (`MarkedKnown`), one without a mark has its default or is a switch the file has
  (`UnmarkedKnown`), and a marked fixed resolution was loaded together with the rows its
  validator looks at, so that the next start takes it again (`FixedKnown`). Between the two
  steps of a save the marked rows are in the copy of the file (`Written`). TLC has
  checked `MediaInv` with the bounds of `MCMediaConfig`.

Properties that only the theorems state, and no run repeats: `RegisteredConnected`,
`NoTakeover`, `OneSession`, `TemporaryUsedOnce`, `SessionPolled`, `RecordingHasWriters`,
`JoinedWriterEnds`, `BlockedForGood`, `LinesAreWhole`, and the type invariants.

Induction: the library's theorems on induction take a predicate as a parameter, which the
installed provers cannot instantiate. Where a proof needs one it uses the least element of
a non-empty set of numbers (`NatMin`), which follows from the well-foundedness of `<` and
is about sets only; the recursive functions of `MotionBlobs` and `MotionVectors` are
reasoned about in that way.

Only model-checked:

- the liveness properties (`HandlersFinish`, `FailureReleases`, `FrameIsRead`, `CloseReturns`,
  `BufferIsWritten`), which are outside of what the prover handles;
- the violation run, which is TLC's counterexample.

## 6. Plan

Done: all modules of section 2 and the proofs of section 5.

Left: the browser client composed with `Signaling`; the configurations of motion and
streamer, which are read once.

## 7. Not modelled

- Parameter tables, help and dumps of the C code taken from the Raspberry Pi
  applications (src/raspicamcontrol.c, src/mmal_video.c, src/mmal_util.c, src/raspicli.c):
  straight-line tables that no property tells apart.
- Media transport (WebRTC itself), serving of files over HTTP, mDNS (libraries).
- The dummy decoder, which returns constants; src/compat/status*.cc, a copy of Abseil's.
- The HTTP notifier: not in the build, and src/raspi_httpnoti.cc uses a member
  `crit_sect_` that its header does not declare.
- src/config_motion.cc and src/config_streamer.cc: the macros of `ConfigMedia` again,
  read once at start and never written.
- Command line and string utilities; the Telegram bot, a separate program.
- Formats of messages and logs, about which no property is stated.

## 8. Running

    tlc -config MCSignaling.cfg MCSignaling
    tlc -config MCSignalingLive.cfg SignalingHistory
    tlc -config MCMessageForPeer.cfg SignalingProperties
    tlc -config MCWsServer.cfg MCWsServer
    tlc -config MCFrameQueue.cfg FrameQueueProperties
    tlc -config MCEncoderDelay.cfg EncoderDelay
    tlc -config MCVideoEncoder.cfg VideoEncoder
    tlc -config MCCameraData.cfg MCCameraData
    tlc -config MCMotionRecorder.cfg MotionRecorder
    tlc -config MCMotionVectors.cfg MotionRecorder
    tlc -config MCFiles.cfg MCFiles
    tlc -config MCMediaConfig.cfg MCMediaConfig

    tlapm SignalingProofs.tla          tlapm WsServerProofs.tla
    tlapm FrameQueueProofs.tla         tlapm CameraDataProofs.tla
    tlapm EncoderDelayProofs.tla       tlapm MmalProofs.tla
    tlapm MotionRecorderProofs.tla     tlapm FilesProofs.tla

`PROJECT.json` gives the module and configuration of every run.
