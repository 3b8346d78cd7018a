----------------------------- MODULE VideoStream -----------------------------
(***************************************************************************)
(* KRdp::VideoStream (src/VideoStream.cpp): the frame queue, the thread    *)
(* that submits frames over the RDP graphics pipeline, the reset protocol  *)
(* that publishes a monitor topology, and frame acknowledgements.          *)
(*                                                                         *)
(* Three threads meet here.  The main thread runs queueFrame and           *)
(* setMonitorLayout; the session thread runs initialize and close, and the *)
(* channel callbacks run beside it; the submission thread owns surfaces,   *)
(* nextSurfaceId and frameId.  One action is one critical section, or one  *)
(* stretch of code no other thread can observe the middle of.              *)
(***************************************************************************)
EXTENDS GfxCaps, Integers, Sequences, FiniteSets

CONSTANTS
  Sizes,          \* non-empty frame, surface and desktop sizes
  Topologies,     \* names of the monitor arrangements
  Layouts,        \* the DisplayMonitorLists given to setMonitorLayout
  Advertisements, \* the capability lists a client may advertise
  NoSize, NoTopology, NoCaps,
  IdMod,          \* surface ids are uint16_t: 2^16 in the code
  MaxFrames,      \* bound: frames handed to queueFrame
  MaxChanges      \* bound: times the compositor changes its topology

LayoutRecords == [topology : Topologies, extent : Sizes, outputs : Seq(Sizes)]

ASSUME SizeAssumption == NoSize \notin Sizes
ASSUME TopologyAssumption == NoTopology \notin Topologies
ASSUME LayoutAssumption ==
  /\ Layouts \subseteq LayoutRecords
  /\ \A l \in Layouts : Len(l.outputs) \in 1..(IdMod - 1)
ASSUME CapsAssumption ==
  /\ Advertisements \subseteq SUBSET Caps
  /\ NoCaps \notin Caps
ASSUME BoundAssumption ==
  /\ IdMod \in Nat \ {0, 1}
  /\ MaxFrames \in Nat
  /\ MaxChanges \in Nat

VARIABLES
  session,        \* session thread: starting, streaming, closing, joining, closed
  gfx,            \* gfxContext: none, failed (Open refused), open or closed
  enabled,        \* Private::enabled
  confirmed,      \* the capability set confirmed, NoCaps before capsConfirmed
  main,           \* where the main thread is in setMonitorLayout
  layout,         \* Private::monitorLayout
  queue,          \* Private::frameQueue
  pendingReset,   \* Private::pendingReset
  pc,             \* where the submission thread is
  inHand,         \* the frame the submission thread has taken
  snap,           \* performReset's copy of the layout
  surfaces,       \* Private::surfaces
  nextSurfaceId,  \* Private::nextSurfaceId
  frameId,        \* Private::frameId
  encodedFrames,  \* Private::encodedFrames
  pendingFrames,  \* Private::pendingFrames
  frameDelay,     \* Private::frameDelay
  published,      \* external: the layout of the last ResetGraphics delivered
  client,         \* external: the client's surfaces, NoSize where there is none
  mapped,         \* external: the client's surfaces mapped to an output
  ended,          \* external: frames whose EndFrame reached the client
  acked,          \* external: frames the client has acknowledged
  kwin,           \* external: the layout the compositor is in
  offered,        \* history: frames handed to queueFrame
  changes,        \* history: compositor changes
  recent,         \* external: the layouts the capture pipeline may still hold frames of
  outdated,       \* history: the frame in hand was taken before the last clear
  raced           \* history: a reset was requested inside a running reset

sessionVars == <<session, gfx, enabled, confirmed>>
mainVars    == <<main, layout>>
threadVars  == <<inHand, snap, surfaces, nextSurfaceId>>
ackVars     == <<frameId, encodedFrames, pendingFrames, frameDelay, ended, acked>>
clientVars  == <<published, client, mapped>>
boundVars   == <<kwin, offered, changes, recent>>
vars == <<sessionVars, mainVars, queue, pendingReset, pc, threadVars, ackVars,
          clientVars, boundVars, outdated, raced>>

-----------------------------------------------------------------------------
SurfaceIds == 0..(IdMod - 1)
Surfaces   == [id : SurfaceIds, size : Sizes]

\* output 0 is a frame of the whole workspace (outputIndex < 0 in the code),
\* output i a frame of the i-th monitor.  Two fields are history: the topology the
\* frame was captured in, and the one setMonitorLayout had set when it was queued.
Frames  == [size : Sizes, output : Nat, topology : Topologies,
            under : Topologies \cup {NoTopology}]
NoFrame == [size |-> NoSize, output |-> 0, topology |-> NoTopology, under |-> NoTopology]
\* A frame with no size or no data: sendFrame is never reached, or returns.
EmptyFrame == [NoFrame EXCEPT !.output = 1]

EmptyLayout == [topology |-> NoTopology, extent |-> NoSize, outputs |-> <<>>]
Single(size) == [topology |-> NoTopology, extent |-> size, outputs |-> <<size>>]

\* What performReset may have copied, and published.
AnyLayout == Layouts \cup {EmptyLayout} \cup {Single(s) : s \in Sizes}

\* The frames the capture pipeline makes of the compositor's layout l, as they
\* arrive now: encoding and the queued frameReceived signal take time, so the
\* compositor may have left l.
Frame(s, i, l) ==
  [size |-> s, output |-> i, topology |-> l.topology, under |-> layout.topology]
FramesOf(l) == {Frame(l.extent, 0, l)} \cup {Frame(l.outputs[i], i, l) : i \in DOMAIN l.outputs}

\* performReset's layout: an empty one stands for one monitor of the frame's size.
Effective(l, f) == IF l = EmptyLayout THEN Single(f.size) ELSE l

\* The size test of performReset.
Fits(l, f) ==
  IF f.output = 0 THEN l.extent = f.size
  ELSE f.output \in DOMAIN l.outputs /\ l.outputs[f.output] = f.size

\* The surfaces a completed reset leaves, in order.
SurfaceSizes(l, f) == IF f.output = 0 THEN <<l.extent>> ELSE l.outputs

\* The surface a frame is drawn on.
Index(f) == IF f.output = 0 THEN 1 ELSE f.output

\* RdpConnection::state() is Streaming from a successful initialize until
\* onClose has returned.
Streaming == pc # "absent" /\ session # "closed"

\* Mutants: an id wider than the uint16_t of the wire, an id used twice.
SameId(id) == id
NextIdUnbounded(id) == id + 1
\* nextSurfaceId++
NextId(id) == IF id + 1 = IdMod THEN 0 ELSE id + 1

Resetting == pc \in {"publish", "create", "store"}

-----------------------------------------------------------------------------
Init ==
  /\ session = "starting" /\ gfx = "none" /\ enabled = FALSE
  /\ confirmed = NoCaps
  /\ main = "idle" /\ layout = EmptyLayout
  /\ queue = <<>> /\ pendingReset = TRUE
  /\ pc = "absent" /\ inHand = NoFrame /\ snap = EmptyLayout
  /\ surfaces = <<>> /\ nextSurfaceId = 1
  /\ frameId = 0 /\ encodedFrames = 0 /\ pendingFrames = {} /\ frameDelay = 0
  /\ ended = {} /\ acked = {}
  /\ published = EmptyLayout
  /\ client = [i \in SurfaceIds |-> NoSize] /\ mapped = {}
  /\ kwin \in Layouts /\ recent = {kwin} /\ offered = 0 /\ changes = 0
  /\ outdated = FALSE /\ raced = FALSE

-----------------------------------------------------------------------------
(* Session thread: RdpConnection::run calls initialize until it succeeds or *)
(* the loop ends, and close from onClose.                                   *)

Initialize ==
  /\ session = "starting"
  /\ \/ /\ gfx' = "open" /\ pc' = "top"
        /\ session' = "streaming" /\ enabled' = TRUE
     \/ /\ gfx' \in {"none", "failed"} \* context_new failed, or Open refused
        /\ session' = "closing"
        /\ UNCHANGED <<pc, enabled>>
  /\ UNCHANGED <<confirmed, mainVars, queue, pendingReset, threadVars, ackVars,
                 clientVars, boundVars, outdated, raced>>

\* setEnabled, from onSuppressOutput and from every turn of the run loop.
SetEnabled(b) ==
  /\ session = "streaming"
  /\ enabled # b
  /\ enabled' = b
  /\ UNCHANGED <<session, gfx, confirmed, mainVars, queue, pendingReset, pc,
                 threadVars, ackVars, clientVars, boundVars, outdated, raced>>

\* The run loop may end at any turn; close() shuts the channel first.
Close ==
  /\ session \in {"streaming", "closing"}
  /\ session' = IF gfx = "none" THEN "closed" ELSE "joining"
  /\ gfx' = IF gfx = "none" THEN gfx ELSE "closed"
  /\ UNCHANGED <<enabled, confirmed, mainVars, queue, pendingReset, pc,
                 threadVars, ackVars, clientVars, boundVars, outdated, raced>>

\* Mutant: the thread is asked to stop but not joined.
Detached == TRUE
Joinable == pc \in {"absent", "exited"}

\* join() returns once the submission thread is gone; then closed() is emitted.
Join ==
  /\ session = "joining"
  /\ Joinable
  /\ session' = "closed"
  /\ UNCHANGED <<gfx, enabled, confirmed, mainVars, queue, pendingReset, pc,
                 threadVars, ackVars, clientVars, boundVars, outdated, raced>>

\* onCapsAdvertise.  A client without H.264 gets the connection closed, which
\* ends the run loop.
CapsAdvertise(adv) ==
  /\ gfx = "open"
  /\ session \in {"streaming", "closing"}
  /\ IF Supported(adv)
       THEN confirmed' = Selected(adv) /\ UNCHANGED session
       ELSE session' = "closing" /\ UNCHANGED confirmed
  /\ UNCHANGED <<gfx, enabled, mainVars, queue, pendingReset, pc, threadVars,
                 ackVars, clientVars, boundVars, outdated, raced>>

\* onFrameAcknowledge: the client reports how many frames it has decoded so
\* far.  An acknowledgement of a frame that is not pending is ignored.
FrameAcknowledge(id, decoded) ==
  /\ gfx = "open"
  /\ id \in ended
  /\ decoded \in 1..Cardinality(ended)
  /\ acked' = acked \cup {id}
  /\ IF id \in pendingFrames
       THEN /\ frameDelay' = encodedFrames - decoded
            /\ pendingFrames' = pendingFrames \ {id}
       ELSE UNCHANGED <<frameDelay, pendingFrames>>
  /\ UNCHANGED <<sessionVars, mainVars, queue, pendingReset, pc, threadVars,
                 frameId, encodedFrames, ended, clientVars, boundVars,
                 outdated, raced>>

-----------------------------------------------------------------------------
(* Main thread: frames from the capture pipeline, and the embedder's call   *)
(* of setMonitorLayout once the compositor has applied a layout.            *)

CompositorChanges(l) ==
  /\ l # kwin
  /\ changes < MaxChanges
  /\ kwin' = l /\ changes' = changes + 1 /\ recent' = recent \cup {l}
  /\ UNCHANGED <<sessionVars, mainVars, queue, pendingReset, pc, threadVars,
                 ackVars, clientVars, offered, outdated, raced>>

QueueFrame(f) ==
  /\ main = "idle"
  /\ offered < MaxFrames
  /\ offered' = offered + 1
  /\ queue' = IF Streaming /\ enabled THEN Append(queue, f) ELSE queue
  /\ UNCHANGED <<sessionVars, mainVars, pendingReset, pc, threadVars, ackVars,
                 clientVars, kwin, changes, recent, outdated, raced>>

\* setMonitorLayout, first critical section: nothing more happens when the
\* layout is the one already set.
SetLayout ==
  /\ main = "idle"
  /\ layout # kwin
  /\ layout' = kwin /\ main' = "clear"
  /\ UNCHANGED <<sessionVars, queue, pendingReset, pc, threadVars, ackVars,
                 clientVars, boundVars, outdated, raced>>

\* Mutant: setMonitorLayout returns without calling reset().
ClearedIsDone == "idle"
AfterClear == "reset"

\* Mutant: the frames stay queued.
KeptQueue == queue
ClearedQueue == <<>>

\* Second critical section: the frames of the old topology are dropped.
ClearQueue ==
  /\ main = "clear"
  /\ main' = AfterClear /\ queue' = ClearedQueue
  /\ outdated' = (inHand # NoFrame)
  /\ UNCHANGED <<sessionVars, layout, pendingReset, pc, threadVars, ackVars,
                 clientVars, boundVars, raced>>

\* reset()
Reset ==
  /\ main = "reset"
  /\ main' = "idle" /\ pendingReset' = TRUE
  /\ raced' = (raced \/ (Resetting /\ snap # layout))
  /\ UNCHANGED <<sessionVars, layout, queue, pc, threadVars, ackVars,
                 clientVars, boundVars, outdated>>

-----------------------------------------------------------------------------
(* Submission thread. *)

\* Mutant: the loop does not look at the token.
StopIgnored == FALSE
StopRequested == session \in {"joining", "closed"}

\* while (!token.stop_requested())
CheckStop ==
  /\ pc = "top"
  /\ pc' = IF StopRequested THEN "exited" ELSE "poll"
  /\ UNCHANGED <<sessionVars, mainVars, queue, pendingReset, threadVars,
                 ackVars, clientVars, boundVars, outdated, raced>>

\* An empty queue makes the thread sleep for a frame period.
TakeFrame ==
  /\ pc = "poll"
  /\ IF queue = <<>>
       THEN pc' = "top" /\ UNCHANGED <<queue, inHand>>
       ELSE pc' = "taken" /\ inHand' = Head(queue) /\ queue' = Tail(queue)
  /\ outdated' = FALSE
  /\ UNCHANGED <<sessionVars, mainVars, pendingReset, snap, surfaces,
                 nextSurfaceId, ackVars, clientVars, boundVars, raced>>

\* Mutant: a frame that is not sent ends the thread.
DropAndExit == pc' = "exited" /\ inHand' = NoFrame
\* sendFrame returns; the loop goes on with the next frame.
Drop == pc' = "top" /\ inHand' = NoFrame

\* Mutant: pendingReset.exchange(false), so that a failed reset is not retried.
ExchangeReset == pendingReset' = FALSE
LoadReset == UNCHANGED pendingReset

\* sendFrame, up to and including pendingReset.load().
CheckReset ==
  /\ pc = "taken"
  /\ IF confirmed = NoCaps \/ inHand = EmptyFrame
       THEN Drop /\ UNCHANGED pendingReset
       ELSE /\ pc' = IF pendingReset THEN "snapshot" ELSE "select"
            /\ LoadReset
            /\ UNCHANGED inHand
  /\ UNCHANGED <<sessionVars, mainVars, queue, snap, surfaces, nextSurfaceId,
                 ackVars, clientVars, boundVars, outdated, raced>>

\* performReset: copy the layout under its lock; a frame of another size keeps
\* the reset pending.
Snapshot ==
  /\ pc = "snapshot"
  /\ LET l == Effective(layout, inHand)
     IN IF Fits(l, inHand)
          THEN snap' = l /\ pc' = "publish" /\ UNCHANGED inHand
          ELSE Drop /\ UNCHANGED snap
  /\ UNCHANGED <<sessionVars, mainVars, queue, pendingReset, surfaces,
                 nextSurfaceId, ackVars, clientVars, boundVars, outdated, raced>>

\* DeleteSurface for every surface (its status is not looked at, so any of them
\* may not arrive), then ResetGraphics.
Publish ==
  /\ pc = "publish"
  /\ surfaces' = <<>>
  /\ \E gone \in SUBSET {surfaces[i].id : i \in DOMAIN surfaces}, ok \in BOOLEAN :
       /\ gfx = "closed" => gone = {} /\ ~ok
       /\ client' = [i \in SurfaceIds |-> IF i \in gone THEN NoSize ELSE client[i]]
       /\ mapped' = mapped \ gone
       /\ IF ok THEN published' = snap /\ pc' = "create" /\ UNCHANGED inHand
                ELSE Drop /\ UNCHANGED published
  /\ UNCHANGED <<sessionVars, mainVars, queue, pendingReset, snap,
                 nextSurfaceId, ackVars, boundVars, outdated, raced>>

\* One turn of the surface loop: CreateSurface, then MapSurfaceToOutput.  The id
\* is used up whatever the outcome; a surface that could not be mapped stays in
\* surfaces, to be deleted by the next reset.
CreateSurface ==
  /\ pc = "create"
  /\ LET sizes == SurfaceSizes(snap, inHand)
         size  == sizes[Len(surfaces) + 1]
         id    == nextSurfaceId
     IN \E outcome \in {"ok", "notCreated", "notMapped"} :
          /\ gfx = "closed" => outcome = "notCreated"
          /\ nextSurfaceId' = NextId(nextSurfaceId)
          /\ IF outcome = "notCreated"
               THEN UNCHANGED <<surfaces, client, mapped>>
               ELSE /\ surfaces' = Append(surfaces, [id |-> id, size |-> size])
                    /\ client' = [client EXCEPT ![id] = size]
                    /\ mapped' = IF outcome = "ok" THEN mapped \cup {id} ELSE mapped \ {id}
          /\ IF outcome # "ok"
               THEN Drop
               ELSE /\ pc' = IF Len(surfaces) + 1 = Len(sizes) THEN "store" ELSE "create"
                    /\ UNCHANGED inHand
  /\ UNCHANGED <<sessionVars, mainVars, queue, pendingReset, snap, ackVars,
                 published, boundVars, outdated, raced>>

\* pendingReset.store(false)
StoreReset ==
  /\ pc = "store"
  /\ pendingReset' = FALSE /\ pc' = "select"
  /\ UNCHANGED <<sessionVars, mainVars, queue, threadVars, ackVars, clientVars,
                 boundVars, outdated, raced>>

\* Mutant: the frame is not pending before it is sent.
CountFrame == encodedFrames' = encodedFrames + 1
NotPending == UNCHANGED pendingFrames
InsertPending == pendingFrames' = pendingFrames \cup {frameId}

\* The rest of sendFrame up to the first PDU: the frame is pending before the
\* client can hear of it.
Register ==
  /\ pc = "select"
  /\ IF /\ Index(inHand) \in DOMAIN surfaces
        /\ surfaces[Index(inHand)].size = inHand.size
       THEN /\ frameId' = frameId + 1
            /\ CountFrame
            /\ InsertPending
            /\ pc' = "send"
            /\ UNCHANGED inHand
       ELSE Drop /\ UNCHANGED <<frameId, encodedFrames, pendingFrames>>
  /\ UNCHANGED <<sessionVars, mainVars, queue, pendingReset, snap, surfaces,
                 nextSurfaceId, frameDelay, ended, acked, clientVars, boundVars,
                 outdated, raced>>

\* StartFrame, SurfaceCommand and EndFrame; no status is looked at.
Send ==
  /\ pc = "send"
  /\ \E sent \in BOOLEAN :
       /\ gfx = "closed" => ~sent
       /\ ended' = IF sent THEN ended \cup {frameId - 1} ELSE ended
  /\ Drop
  /\ UNCHANGED <<sessionVars, mainVars, queue, pendingReset, snap, surfaces,
                 nextSurfaceId, frameId, encodedFrames, pendingFrames,
                 frameDelay, acked, clientVars, boundVars, outdated, raced>>

-----------------------------------------------------------------------------
Submit ==
  \/ CheckStop \/ TakeFrame \/ CheckReset \/ Snapshot \/ Publish
  \/ CreateSurface \/ StoreReset \/ Register \/ Send

Next ==
  \/ Initialize
  \/ \E b \in BOOLEAN : SetEnabled(b)
  \/ Close
  \/ Join
  \/ \E adv \in Advertisements : CapsAdvertise(adv)
  \/ \E id \in ended, decoded \in 1..Cardinality(ended) : FrameAcknowledge(id, decoded)
  \/ \E l \in Layouts : CompositorChanges(l)
  \/ \E l \in recent : \E f \in FramesOf(l) \cup {EmptyFrame} : QueueFrame(f)
  \/ SetLayout
  \/ ClearQueue
  \/ Reset
  \/ Submit

Spec == Init /\ [][Next]_vars

\* The operating system schedules the submission thread; a call of
\* setMonitorLayout or close that has begun is carried through.
Fairness ==
  /\ WF_vars(Submit)
  /\ WF_vars(ClearQueue \/ Reset)
  /\ WF_vars(Join)
  /\ WF_vars(session = "closing" /\ Close)

FairSpec == Spec /\ Fairness

-----------------------------------------------------------------------------
\* Every variable keeps the type its member of VideoStream::Private has.
TypeOK ==
  /\ session \in {"starting", "streaming", "closing", "joining", "closed"}
  /\ gfx \in {"none", "failed", "open", "closed"}
  /\ enabled \in BOOLEAN
  /\ confirmed \in Caps \cup {NoCaps}
  /\ main \in {"idle", "clear", "reset"}
  /\ layout \in Layouts \cup {EmptyLayout}
  /\ queue \in Seq(Frames \cup {EmptyFrame})
  /\ pendingReset \in BOOLEAN
  /\ pc \in {"absent", "top", "poll", "taken", "snapshot", "publish", "create",
             "store", "select", "send", "exited"}
  /\ inHand \in Frames \cup {EmptyFrame, NoFrame}
  /\ snap \in AnyLayout
  /\ surfaces \in Seq(Surfaces)
  /\ nextSurfaceId \in SurfaceIds
  /\ frameId \in Nat /\ encodedFrames \in Nat /\ frameDelay \in Int
  /\ pendingFrames \subseteq 0..(frameId - 1)
  /\ ended \subseteq 0..(frameId - 1) /\ acked \subseteq ended
  /\ published \in AnyLayout
  /\ client \in [SurfaceIds -> Sizes \cup {NoSize}]
  /\ mapped \subseteq SurfaceIds
  /\ kwin \in Layouts /\ offered \in Nat /\ changes \in Nat
  /\ recent \subseteq Layouts /\ outdated \in BOOLEAN /\ raced \in BOOLEAN

\* Frames reach the client only on a surface the client has: the surface the
\* server is about to name in a SurfaceCommand (sendFrame) is alive at the
\* client, mapped to an output, and exactly as large as the frame, whatever part
\* of an earlier reset failed.
FrameOnMappedSurface ==
  pc = "send" =>
    LET s == surfaces[Index(inHand)]
    IN /\ Index(inHand) \in DOMAIN surfaces
       /\ s.id \in mapped
       /\ client[s.id] = inHand.size

\* performReset leaves no hole in the desktop: once a reset has gone through,
\* the surfaces are those of one mode of the topology last published (one for
\* the workspace, or one for each monitor), each under an id of its own.
SurfacesCoverPublished ==
  ~pendingReset =>
    /\ \/ [i \in DOMAIN surfaces |-> surfaces[i].size] = <<published.extent>>
       \/ [i \in DOMAIN surfaces |-> surfaces[i].size] = published.outputs
    /\ \A i, j \in DOMAIN surfaces : surfaces[i].id = surfaces[j].id => i = j

\* setMonitorLayout loses no topology in any interleaving but one: if the layout
\* is not the one published, then a reset is pending, or the main thread is on
\* its way to request it, or the request came inside a reset that had already
\* copied the layout (raced).
ResetPendingUnlessRaced ==
  \/ pendingReset
  \/ published.topology = layout.topology
  \/ main \in {"clear", "reset"}
  \/ raced

\* onFrameAcknowledge finds every frame it is told of: the pending frames are
\* exactly those given an id and not acknowledged, however fast the client
\* answers (the frame is pending before StartFrame).
PendingAreUnacknowledged == pendingFrames = (0..(frameId - 1)) \ acked

\* The delay updateRequestedFrameRate divides by is never negative and never
\* more than the frames sent, because encodedFrames counts a frame before the
\* client can decode it.
DelayWithinSent == frameDelay \in 0..encodedFrames

\* The acknowledgements add up.
AcksAddUp == PendingAreUnacknowledged /\ DelayWithinSent

\* What clearing the queue in setMonitorLayout achieves: no frame that was queued
\* before a layout was set is submitted after it, wherever the submission thread
\* was, with one exception: the frame that was out of the queue already when it
\* was cleared (outdated).
NoFrameOutlivesItsLayout ==
  pc = "send" /\ main # "clear" /\ ~outdated => inHand.under = layout.topology

\* Once close() has returned the submission thread does nothing more: no frame
\* is taken, no surface made, no id used.
NothingAfterClosed ==
  [][session = "closed" => UNCHANGED <<pc, inHand, surfaces, nextSurfaceId,
                                       frameId, published, client>>]_vars

\* A close that has begun ends: no thread waits on another for ever.
CloseCompletes == session \in {"closing", "joining"} ~> session = "closed"

\* Every frame the queue accepted is taken, dropped by a layout change, or left
\* behind by close.
QueueDrains == queue # <<>> ~> (queue = <<>> \/ session \in {"joining", "closed"})

\* setMonitorLayout's contract (VideoStream.h): the next frame that fits
\* publishes the topology, so a topology that is not published has its reset
\* pending whenever neither thread is in the middle of a call.
NextFrameRestarts ==
  main = "idle" /\ pc = "poll" /\ published.topology # layout.topology
    => pendingReset

\* The comment in setMonitorLayout: frames encoded against the old KWin topology
\* are not submitted after ResetGraphics has published the new one, which is the
\* one the compositor is in.  The frame in hand when the queue was cleared is
\* granted; the frame that fails this is one queued after the clear.
OldFramesNotSubmitted ==
  /\ pc = "send" /\ main = "idle" /\ ~outdated
  /\ published.topology = kwin.topology
  => inHand.topology = kwin.topology
=============================================================================
