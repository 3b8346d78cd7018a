# KRdp: a TLA+ model of the RDP server

KRdp is the RDP server of a headless KDE Plasma session: a library (`src/`), the
`krdpserver` program (`server/`) and a settings module (`src/kcm/`). FreeRDP does
the protocol; KRdp decides when channels come up, what is streamed, which layout
the client is told of and how input, clipboard and pointer travel. Paths below
are those of the repository, so the library is `src/` and the map of
`PROJECT.json` prefixes them with the repository's own directory.

## 1. Inventory

Threads. The *main* thread runs the Qt event loop and owns every QObject. Each
connection has a *session* thread (`RdpConnection::run`) in which FreeRDP calls
back. The video stream adds a *submission* thread; FreeRDP adds one thread each
for the graphics, clipboard and audio channels. Signals from other threads reach
main-thread objects as queued events, in order.

| component | state it keeps | operations | talks to | what makes it correct |
|---|---|---|---|---|
| `Server` | the list of connections, FreeRDP settings | start, stop, incomingConnection, users | creates and destroys `RdpConnection` | a connection is destroyed only after it is closed, and every closed one is |
| `RdpConnection` | `State`, the peer, the session thread, one object per channel | initialize, run, close, callbacks (capabilities, post connect, suppress output, close) | every channel object; `Server` through stateChanged | states in order, channels up only when the dynamic channel is ready, shutdown ends |
| `VideoStream` | frame queue, layout, reset flag, surfaces, pending frames | initialize, close, queueFrame, setMonitorLayout, sendFrame, performReset, acknowledgements, frame rate | `NetworkDetection`, the capture pipeline | frames only on live surfaces of their size; every layout is published |
| `DisplayControl` | the client's last request | initialize, receive, accept, reject, decode | `VideoStream::setMonitorLayout`, the embedder | only valid layouts are passed on; the layout accepted is the one last asked for |
| `Clipboard` | server text, format the client was asked for | initialize, close, setServerText, setEnabled, the three cliprdr callbacks | the embedder | text is advertised once both sides are ready; what is emitted is what the client copied |
| `Cursor` | the pointer cache and the pointer last sent | update, setCursorType | sessions | the client shows the cursor of the last update and its cache agrees with the server's |
| `NetworkDetection` | round-trip requests, their average, bandwidth measurement | start/stop measure, update, results | `VideoStream`, the session thread | answers are matched to their requests; measurements do not overlap |
| `AudioStream` | active flag, the rdpsnd context | initialize, close, sendSamples, activated | the embedder | samples only after a format was selected; the embedder knows whether it is active |
| `InputHandler` | enabled flag | keyboard, unicode, mouse events | sessions | events are translated by the protocol's bit layout; nothing the client has let go of stays pressed |
| `AbstractSession`, `PortalSession`, `PlasmaScreencastV1Session` | streaming requests, the encoded stream, the portal's or KWin's session | start, streaming requests, sendEvent, the answers of the compositor | portals, Wayland, PipeWire | the encoder runs exactly while someone asks and the session has started; a start ends; the end leaves nothing behind |
| `SessionController`, `main` | one wrapper per connection | new connection, stop | `Server`, sessions | session and connection die together |
| settings module and its interface | users, the server's switch and warning | add, modify, delete user, toggle, restart | wallet, systemd, `main` | what is stored is what was typed, and what the server lets in is what is stored |

What is hard here: three threads write the video stream's state with only
pairwise locks and one atomic flag; channel callbacks arrive while the objects
are being closed; the clipboard answers one request at a time but is told of new
formats at any time; layouts are requested by the client, applied by the
compositor and published by the stream, each asynchronously; measurement answers
are lost or late; identifiers wrap at 16 bits; a desktop portal answers in five
steps, each of which may fail or be missed; input passes three gates at different
times; the wallet's jobs fail after their result was looked at. `PROJECT.json` lists each of these
hazards at its line.

## 2. Modules and plan

Written, in the order of importance:

1. `GfxCaps`, `VideoStream`: the reset protocol of the graphics pipeline, with
   its proofs in `VideoStream_proofs`.
2. `MonitorLayout`, the pure decoding of a client's layout, and `DisplayControl`,
   which extends it with the negotiation (proofs in `DisplayControl_proofs`).
3. `RdpConnection`: life cycle, dynamic channels, shutdown, for `Server` and
   `RdpConnection` together (proofs in `RdpConnection_proofs`).
4. `Clipboard` (proofs in `Clipboard_proofs`), `NetworkDetection` and `AudioStream`
   (proofs of both in `Channels_proofs`).
5. `Cursor`, which implements the abstract `Pointer` (proofs in `Cursor_proofs`).
6. `InputHandler`, the pure translation of input, and `Session`, which extends it:
   wrapper, abstract session and both kinds of session. It implements the
   abstract `Streaming` (proofs in `Session_proofs`).
7. `UserSettings`: the settings module, its interface, the wallet and the server
   that reads both (proofs in `UserSettings_proofs`).

To come:

1. A composition of `VideoStream` with `DisplayControl`, so that the compositor's
   topology changes are the ones the client asked for.
2. The arithmetic of the requested frame rate; `Server::stop` followed by `start`.

## 3. How the modules correspond to the code

An action is one critical section, or a stretch of code in which no other thread
can see the middle. The name of an action is the method's where it models a
whole method; a method that other threads can interrupt is cut into several
actions, and a `pc`-like variable (`pc`, `main`, `thread`, `channel`, `closing`,
`emitting`) says where its thread is. Variables marked *external* stand for the
client, the compositor or the embedder, those marked *history* record what a
property needs to compare. `PROJECT.json` maps each definition to its lines.

**VideoStream.** Main thread: `QueueFrame`; `SetLayout`, `ClearQueue`, `Reset`,
which are the three statements of `setMonitorLayout` under their separate
locks. Session thread: `Initialize`, `SetEnabled`, `Close`, `Join`. Channel
thread: `CapsAdvertise`, `FrameAcknowledge`. Submission thread: one pass of its
loop is `CheckStop`, `TakeFrame`, `CheckReset` (the atomic exchange or load),
`Snapshot`, `Publish`, one `CreateSurface` per output, `StoreReset`, `Register`,
`Send`; each PDU may fail. `GfxCaps` is the choice of a capability set. The
client's surfaces, its mapping and the frames it has finished are external, and so is
`recent`: capturing, encoding and the queued `frameReceived` take time, so that a
frame of any layout the compositor has been in may still be queued at any moment.
A frame carries the topology it shows and, as history, the layout it was queued
`under`. `outdated` and `raced` remember the two races of the code, so that what holds
apart from them can be said exactly.

**MonitorLayout** is `decodeMonitorLayout` as a function: a fold over the client's
records with every early return, then the judgement of the whole; next to it stands
a reference definition by sets of pixels. **DisplayControl** is the mutex-protected
request: `receiveMonitorLayout` (a layout of the client, decoded and dropped if it is
invalid), `requestInitialMonitorLayout`, `Emit` (the queued signal) on either of two
threads, and `Deliver`, `Applied`, `Accept`, `SetMonitorLayout`, `Reject` on the
embedder's. The embedder is not part of the repository; it does what
`src/DisplayControl.h` asks of it. `disturbed` remembers that a layout was refused or
that requests crossed.

**RdpConnection** has the main thread with its event queue (`Start`,
`IncomingConnection`, `Initialize`, `StreamClosed`, `StateClosed`, `Destroy`,
`Join`, `Quit`, `SessionError`), the session thread with every place at which
it can wait (`start` ... `emitClosed`), and the clipboard channel's thread,
which calls the main thread and blocks. Initialization can fail at any
allocation; the client may connect or not, join the channels `drdynvc` and `cliprdr`
or not (`joined`), change its wish for output, go at any time, or be silent.

**Clipboard** models both directions with every flag and callback: server text
(`setServerText`, `setEnabled`, `initialize`, `sendServerData`) and the client's
(`onClientFormatList`, the data request and its response), the last of them
always handed to the main thread while the channel's thread waits. A text is a
number, an encoding is one of four formats, and decoding in the wrong format
gives `Garbage`. A text of the client may be `malformed` (too long, an odd number of
UTF-16 bytes, bytes that do not decode): decoding it gives nothing and nothing is
emitted. With `StoreBuffers` the plain flags may be read before the other
thread's write arrives; `missed` remembers that one was, and `crossed` that a list of
formats was handled while an answer in another format was under way.

**NetworkDetection** models round trips (`Update`, `ClientAnswers`,
`OnRttMeasureResponse`), a counter standing for time, and bandwidth measurement
(`StartMeasure` ... `OnBandwidthMeasureResults`), which two threads share. An answer to
either calls `updateAverageRtt` (`UpdateAverageRtt`), which tells the client a result
under a sequence number of its own once there are round trips to average.

**Cursor** is `update` with its four ways of ending (`ShowAgain`, `ShowCached`,
`ShowNew`, `ReplaceOldest`) and `ShowDefault`, the server's list and the client's
cache. **Pointer** is what the component promises: the client shows what the last
update asked for.

**AudioStream** has `Initialize`, `Close`, `Stop`, `Reset`, `AnnounceClosed` on the
session thread, `Negotiate`, `StoreActive`, `AnnounceActive` on FreeRDP's channel
thread, and the embedder's `ReadFlag`, `CheckContext`, `SendSamples`, since the
flag is atomic and the context is not.

**InputHandler** maps a PDU, a set of flags with a wheel's rotation or a key, to the
event made of it. **Session** is one connection's `SessionWrapper` with its session.
`NewConnection` is `onNewConnection` up to `start()`; the answers of the portal
(`onCreateSession`, `onDevicesSelected`, `onSourcesSelected`, `onSessionStarted`,
`onRemoteOpened`) and of KWin (`onCreated`) may succeed, fail, or be sent before
anybody listens (`missed`); `setStreamingEnabled`, `requestStreamingEnable` and
`requestStreamingDisable` are `AbstractSession`'s; `Input` and `StreamEnabled` run on
the session thread and fill the queue from which `Deliver` takes; `sendEvent` has the
gates of both kinds of session and Plasma's look-up of a keysym in the keymap;
`Destroy` is the three destructors. `source` tells a session that `~PortalSession` has
closed from one that the portal has `ended`: the latter refuses what it is notified of
(`Taken`), input and the destructor's releases alike. A PDU for
which `extendedMouseEvent` returns false is a `Failure` and ends the connection. `held`, `pressed` and `lost` relate what the
client holds, what the compositor takes for pressed, and what was released while a
gate was closed. **Streaming** is what the encoder promises: it is active exactly
while the session has started and somebody asks for the stream.

**UserSettings** has the administrator's operations (`AddUser`, `ChangePassword`,
`RenameUser`, `DeleteUser`), each of which starts keychain jobs (`JobEnds`) and saves;
the switch and the warning (`ToggleServer`, `RestartServer`, `ServerRunning`), which ask
systemd at any time, also while it works on an earlier request that the new one replaces
(`Ask`); and the server as systemd runs it (`Systemd`, `main`, `ServerReads`, `ServerReady`). A
name's key in the wallet is its Latin-1 form, so two names may have the same. `failed`,
`mixed` and `stale` remember what the code cannot prevent: a failed job, a password
from the wallet that replaced the one typed or two users under one key, and a read
that came before a write or a stop that a start replaced.

Components share no state but through these interfaces, so each is checked with
its neighbours as external actors: `VideoStream` is given layouts by any
compositor, `DisplayControl` ends at the call of `setMonitorLayout`, and
`RdpConnection` only knows which channels are open.

Definitions with a comment "Mutant" are faulty variants of the definition that
follows them. No specification uses them: they are what `PROJECT.json` puts in a
definition's place to see that a property notices.

## 4. Runs

One run per component asks for safety and, where fairness is stated, for
liveness; three more show disagreements of the code with its comments.

| run | what it asks | bounds and why they are enough |
|---|---|---|
| `stream` | frames only on live, mapped surfaces of their size; a reset leaves one surface per output; a layout that is not published is pending except after the race the model names; no frame queued before a layout was set is sent after it, except one in hand; acknowledgements and delay; silence after close; queued frames are dealt with and a close that has begun ends | two frames and one topology change: a frame before, across or after a reset, of the old topology or the new; three ids for resets of one and two outputs, so that they wrap; clients with and without H.264. The proofs lift every bound of the safety part |
| `display` | `decodeMonitorLayout` accepts exactly what is valid by pixels, in every list given; after the last answer client, compositor and stream agree; what is accepted is the newest request; no request stays pending | all lists of up to three monitors, and one that is too long, on a grid with positions off it, odd and excessive sizes, negative coordinates, corner contact, the limits shrunk to the grid; four requests on both threads, so that answers to two older ones are under way; rejections |
| `connection` | the session thread and the channels never outlive the peer; a client that has joined `drdynvc` streams or ends; a connection whose client or desktop session is gone is dropped; quitting while streaming ends | two changes of output, two clipboard calls, two PDUs under way: each loop and wait is entered with something waiting behind it |
| `clipboard` | the host's text is advertised in any order of start-up; a paste is never older than its offer; the client's last copy is emitted | two texts, two copies in one or both formats, each well formed or not, two toggles and a paste: off and on again between any step and the next, with a copy; store buffers |
| `cursor` | one id per image on both sides, eviction is least recently used, and `Cursor` implements `Pointer` | cache of three, four images, eight updates: the cache fills, evicts and reuses an evicted image |
| `network` | answers match requests, measurements do not overlap, and measuring goes on | five requests, answers lost or late; three frames; a wire of eight numbers, the real one has 65536. At most `2 * MaxRequests + MaxFrames` numbers are taken: two for each round trip, one for each measurement's result |
| `audio` | no change of `active` stays unannounced; samples only after a selection | client lists of up to two formats; no counter to bound |
| `session` | the stream is asked for exactly as it is enabled; `Session` implements `Streaming`; no key stays pressed that nobody holds; the end leaves nothing behind; a start ends, an end is noticed; the wheel scrolls as its nine bits say | all three kinds of session; the video stream and one embedder asking; a modifier, a character of the second level and one without a keysym, moves; two events under way, so that a toggle or a release waits behind another. No other counter is bounded |
| `settings` | what is stored and served is what was typed last; no password outlives its user | two names whose keys in the wallet may be the same, two passwords, two jobs (a rename starts two at once); names, passwords and keys are symmetric |
| `stream_lost_reset` | fails: the next fitting frame publishes the topology | two arrangements of equal size |
| `stream_old_frames` | fails: no frame of the old topology is submitted after the new one is published | the same two arrangements, the pipeline behind the compositor |
| `conn_suppress` | fails: suppressed output stays suppressed | one change |

What bounds there are concern liveness alone in the end: every safety and action
property of the passing runs is also proved for all values of the constants (section 6).

Deadlock is only checked for `settings`: every other system here stops when its
connection has closed or a bound is used up.

The runs that fail are disagreements between the code and what its comments say;
`PROJECT.json` quotes both sides:

- a `reset()` made while `performReset` runs is wiped out by `store(false)`, and
  the new topology is never published;
- `setMonitorLayout` clears the queue so that frames encoded against the old topology
  are not submitted after the reset, but the frames the pipeline still holds arrive
  after the clear, `queueFrame` cannot tell them from new ones, and one of the same
  size even publishes the reset;
- output that the client suppressed is enabled again in the same pass of the
  session's loop.

Other things the code does are excepted by name inside the properties that would
otherwise forbid them. They follow from the code as it is, and removing the
exception makes the run fail:

- `raced` (VideoStream): the layout lost in the first of the races above;
- `outdated` (VideoStream): a frame that was out of the queue when
  `setMonitorLayout` cleared it goes out after the reset, and with a matching extent
  even publishes the new topology itself, contrary to the comment there;
- `disturbed` (DisplayControl): `rejectRequestedMonitorLayout` clears whatever is
  requested, be it newer than what is rejected, and the session thread's initial
  request may be signalled in another order than it was stored;
- `missed` (Clipboard): `m_enabled`, `m_initialized` and the text are read without
  a lock by two threads that each check the other's, so both may miss it and the
  text stays unadvertised;
- `crossed` (Clipboard): two copies in different formats in quick succession: the
  answer to the first is decoded in the format of the second, the text emitted is
  garbage, and the right answer that follows is dropped;
- `clip = "blocked"` in `StreamingQuitEnds`: quitting joins the session thread
  from the main thread, `Clipboard::close` waits for the clipboard's thread, and
  that waits in a blocking call for the main thread;
- `"drdynvc" \in joined` in `ClientStreams`: for a client that has connected without
  that channel the loop opens nothing, and nothing ends its connection either;
- `StreamingQuitEnds` also starts from Streaming: in state Running nobody tells the
  client to go, and one that sends nothing keeps the process alive;
- `thread # "none"` in `LostIsDropped`: a session that fails before `initialize`
  has made a peer has `close()` called through a null pointer (`main = "crashed"`);
- the guard of `MeasuresItsOwn`: sequence numbers have 32 bits here and 16 on the
  wire, so beyond the wire's an answer may find an older request or none;
- `missed` (Session): `PortalRequest` waits for the reply of a call before it
  subscribes to the Response, and `Closed` is only subscribed to after the start; what
  is sent in between is lost, and nobody asks again;
- `lost` (Session): a key released while the controller is not elected, the stream off
  or its size unknown stays pressed in the compositor; only `~PortalSession` releases
  modifiers, and of them only the eight it lists;
- `path` in `EndsClean`: a session the portal makes after the connection has gone is
  closed by nobody;
- `source = "ended"` in `EndsClean`: such a session takes no releases, so that what is
  held when the portal ends it is not cleared, contrary to the comment in
  `~PortalSession`;
- `malformed` in `LastCopyEmitted`: such a copy is dropped, and what was emitted before
  it stays;
- `failed`, `mixed`, `stale` (UserSettings): `error()` of a keychain job is read
  before it has run; the stored password may replace the typed one in the dialog; and
  the warning to restart depends on a switch that follows the service late.

Some odd paths carry no property: a virtual monitor's logical size is never set, so
that its session drops all input (`Open`); KWin's `closed` is not listened to
(`SourceCloses`); `initialize` of a connection may fail half way, after which it stays
Starting until the server goes (`Initialize` of `RdpConnection`); a desktop session
whose `start()` fails at once has its connection closed before there is a peer
(`crashed`); `sendSamples` may use a context that is being freed (`SendSamples`).
Not modelled: the session that `SessionController`'s constructor makes to ask the
portal for permissions at start-up is connected but never started, and so does nothing.

## 5. Fairness

- `VideoStream`: the submission thread runs, `setMonitorLayout` once entered is
  finished, a `close` that has begun goes on, and `join` returns once the thread
  has left. The client and the capture pipeline are not fair.
- `DisplayControl`: a writer that has stored its request goes on to signal it, the
  event loop delivers it, and KWin and the embedder answer.
- `RdpConnection`: the main and the session thread are scheduled. Of the client it
  is assumed that it answers the handshake of the dynamic channel and goes when
  it is told to close; not that it ever connects, sends or leaves by itself.
- `NetworkDetection`: a frame that is begun is finished and the client answers a
  measurement that was stopped, which RDP's reliable channel justifies. Round
  trips need no answer.

- `Session`: the event loop delivers what is queued and the compositor answers what it
  was asked, with success or failure. What was sent before anybody listened is not
  sent again; the client and the user need do nothing.

All of it is weak fairness, used by the runs `stream`, `display`, `connection`,
`session` and `network` (their `FairSpec`); the others use none.

## 6. Proofs

Checked by TLAPS for every value of the constants, under the assumptions the
modules name.

`VideoStream_proofs` assumes that layouts have between 1 and `IdMod - 1` outputs
(surface ids wrap at `IdMod`, 65536 in the code, so more outputs could not have
different ids). The safety invariants of the run `stream` are not inductive: that a
frame lands on a surface depends on what the submission thread knows at each
place of its loop. The invariant `StreamInv` therefore adds `ThreadInv` (what
holds at each place), `SurfaceInv` (the surfaces made so far are the live ones,
mapped, of the sizes of the layout in hand, under ids at consecutive distances
behind `nextSurfaceId`), `SnapInv` (a reset in progress works on the current
layout unless the race is on) and `FrameInv` (what is in the queue was queued under
the layout set, unless that is just about to be cleared). One lemma per part shows each step to keep it; the
theorems follow: `TypeInvariance`, `FramesLandOnSurfaces`, `ResetsCover`,
`LayoutsLostOnlyInRace`, `AcksAlwaysAddUp`, `NoFrameEverOutlivesItsLayout`,
`ClosedIsFinal`.

`Cursor_proofs` shows that caches of any size agree, that no image is cached twice,
that eviction is exactly least recently asked for, and that `Cursor` implements
`Pointer`. The invariant adds that the entry marked as shown is the one the client
shows and that times are those the images were asked for. `PutEntry` and
`UseKeeps` carry the steps that change one entry.

`Channels_proofs` has two components. `NetworkDetection`, for any number of requests
and frames and any width of the wire: the number handed out is always the counter
itself, since every pending request has a smaller one, and each answer pays for at most
one result (`RttInv`), and as long as the
wire's numbers last every message under way has its record and no two have the same
number (`WireInv`); so an answer is measured against its own request
(`AlwaysNetworkInv`). Bandwidth measurements never overlap (`AlwaysOneMeasurement`,
from `BandwidthInv`). `AudioStream`, for any list of formats: a change of `active` is
always announced and samples enter a live context only after a selection. The invariant adds who still has an announcement to make
(`Announcements`) and that the flag is only set behind a selection (`SelectedFirst`).

`RdpConnection_proofs` shows for any number of PDUs, outputs and calls that the
session thread always has a live connection with its peer and that no channel
outlives it (`AlwaysConnectionInv`). The invariant adds where the connection may be at
each place of the main thread (`LifeInv`), which channels each step of `onClose` has
left (`ChannelInv`), and which queued events there can be at each place of the session
thread (`QueueInv`), so that none is handled for another connection.

`DisplayControl_proofs` shows for any PDUs, any number of requests, and compositors
that refuse or not that the negotiation ends with all sides agreed (`AlwaysDisplayInv`)
and that what is accepted is the newest request (`AlwaysAcceptedIsLatest`). The
invariant adds that what is pending is the newest (`PendingInv`) and who carries it on:
a writer that has not signalled yet, the last signal queued, or the embedder
(`ChaseInv`). What decoding makes of a PDU plays no part in that. Of decoding itself it
shows, for lists of any length and monitors of any size and place, that exactly those
are accepted which are layouts by pixels (`AlwaysAcceptsExactlyValid`). The loop is a
fold, so this is an induction over the records. It is made on the least number of
records for which a statement fails (`NoLeast`), since the library's induction rule
cannot be instantiated here: `LoopTurns` gives the fold turn by turn, `LoopInv` says
what the loop has found after each, and `Shares`, `Touches` and `Spans` that comparing
edges amounts to comparing pixels. It assumes that the least size is not zero.

`Clipboard_proofs` shows for any formats, texts, copies and pastes, and with store
buffers or without, that the host's text is advertised or about to be
(`AlwaysClipboardInv`), that a paste is never older than its offer
(`PasteAlwaysCurrent`) and that the client's last copy is emitted
(`LastCopyAlwaysEmitted`). The invariant adds that at most one PDU waits for the main
thread, with the channel blocked behind it (`CallInv`); what the main thread has still
to do about the text (`HostInv`); that no answer overtakes an offer (`OfferInv`); that,
once the list of the current copy has been handled, every answer under way is of that
copy (`CopyInv`) and, unless lists crossed, in the format that was asked for
(`FormatInv`).

`Session_proofs` shows for any requesters, PDUs and length of the queue that a wish of
the video stream is never lost (`AlwaysSessionInv`), that the end leaves nothing
behind (`AlwaysEndsClean`), that no key stays pressed that nobody holds
(`AlwaysNothingStuck`), that the wheel scrolls as its nine bits say, for all of them
(`AlwaysWheelAsSigned`), and that `Session` implements `Streaming`
(`SessionRefinesStreaming`). The invariant adds how far the session is in each state
of its connection (`LifeInv`), that the encoder exists once it may run and `enabled`
says whether anybody asks (`EncoderInv`, without which the step that starts the
session would not refine `Start`), and that all that can still come for a session
that has gone is the Response that creates one (`GoneInv`). That nothing is stuck needs
what the queue will still press and release, in its order (`StuckInv`).

`UserSettings_proofs` shows for any names, passwords, wallet keys and number of jobs
that what is stored ends up as intended (`AlwaysSettingsInv`), that no password outlives
its user (`NoPasswordOrphaned`), and that an unwarned server serves what was intended
(`ServedAlwaysIntended`), each but for the cases the history names. The properties speak
of the wallet when all jobs are done; the invariant says it of what the jobs under way
will leave there (`Ends`): of the users and of the keys without one (`StoreInv`), and
of what a server has read so far (`ServeInv`). `Started` and `Done` say what starting
jobs and ending one do to `Ends`; a rename is right because the deletion goes first.

The inductive invariants named here were checked by TLC on the runs' bounds before
they were proved. Nothing is assumed but what the modules' own `ASSUME`s say of the constants.

## 7. Only model-checked

Liveness of every module (TLAPS proves neither liveness under fairness nor ENABLED):
`CloseCompletes`, `QueueDrains`, `RequestAnswered`, `ClientStreams`, `LostIsDropped`,
`StreamingQuitEnds`, `MeasuresAgain`, `StartupEnds`, `EndIsNoticed`.
All other properties of the passing runs are proved. The three runs that fail have
nothing to prove.

## 8. Not modelled

- Of the sessions: frames on their way to the video stream, which `VideoStream` takes
  from any capture pipeline; the forwarding of the pointer, which `Cursor` takes from
  any session; frame rate and quality. Of input: the tables from scan code to key.
- Of the settings: certificates, autostart and quality, each a value that is stored
  and read. Of the server: `stop` followed by `start`, which nothing calls.
- Frame-rate and round-trip averages: arithmetic on times that no other state
  depends on but a rate; the hazards in it are listed. That a result may be due, and
  then takes a sequence number, is modelled.
- `AudioStream`'s second `close()`, from the destructor: the thread and the context are
  gone by then, and only a flag stored behind the first one is taken back. Of
  `decodeMonitorLayout`, the check of the PDU's record size.
- Encoding, certificates, the logon file, the peer's settings: FreeRDP and the
  file system do the work.
- The rest of screencasting and the portal's D-Bus proxies: thin or generated clients
  of protocols. Build files, translations, the example, and the look of the user
  interface.
- Memory corruption itself: where two threads use a plain object without a lock
  the model has the interleaving and its visible outcomes (`"lost"` in
  `AudioStream`, `"crashed"` in `RdpConnection`), not what becomes of the memory.
