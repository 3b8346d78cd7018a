-------------------------------- MODULE Session --------------------------------
(***************************************************************************)
(* The compositor's side of a connection: SessionController's wrapper,     *)
(* AbstractSession, and the two sessions that implement it, PortalSession  *)
(* (a chain of requests to the desktop portal) and PlasmaScreencastV1-     *)
(* Session (one request to KWin).  All of it runs on the main thread; what *)
(* the session thread tells it, that the video stream was enabled or       *)
(* disabled and the input events, waits in the event queue.                *)
(*                                                                         *)
(* PortalRequest asks for a D-Bus Response only once the call has been     *)
(* answered: a Response sent in between is lost, and nobody asks again.    *)
(* Embedders may ask for the stream and elect the controller; krdpserver   *)
(* itself does neither.                                                    *)
(***************************************************************************)
EXTENDS InputHandler, Sequences, FiniteSets

CONSTANTS
  Modes,        \* some of portal, workspace and virtual (the last two: Plasma)
  Requesters,   \* who may ask for the stream: the video stream, and others
  Video,        \* the video stream
  Pdus,         \* the input PDUs a client may send
  Modifiers,    \* the eight modifiers that ~PortalSession releases
  Keymap,       \* Plasma: the keys in the order of their codes, with their levels' keysyms
  MaxQueue      \* bound: events waiting for the main thread

ASSUME SessionAssumption ==
  /\ Modes \subseteq {"portal", "workspace", "virtual"}
  /\ Video \in Requesters
  /\ \A i \in DOMAIN Keymap : \A l \in DOMAIN Keymap[i].levels :
       Keymap[i].levels[l] \subseteq Keysyms
  /\ MaxQueue \in Nat

VARIABLES
  mode,       \* the kind of session
  connection, \* none, live, closing, gone, or crashed
  step,       \* how far the session has come
  waiting,    \* whether an answer of the compositor is under way
  path,       \* whether sessionPath is known
  source,     \* external: the compositor's session, none, open, closed, or ended by it
  encoder,    \* encodedStream: none, idle or active
  enabled,    \* AbstractSession::Private::enabled
  asked,      \* enableRequests
  sized,      \* whether the encoder has told its size
  stream,     \* VideoStream's enabled
  queue,      \* events for the main thread
  elected,    \* InputHandler's enabled
  pressed,    \* external: what the compositor takes for pressed
  held,       \* history: what the client holds
  lost,       \* history: what was released while events were not let through
  missed      \* history: a Response or Closed was sent before it was subscribed to

session == <<step, waiting, path, source, missed>>
streaming == <<encoder, enabled, asked, sized>>
input == <<elected, pressed, held, lost>>
vars == <<mode, connection, session, streaming, stream, queue, input>>

Init ==
  /\ mode \in Modes
  /\ connection = "none" /\ step = "none"
  /\ waiting = FALSE /\ path = FALSE /\ source = "none"
  /\ encoder = "none" /\ enabled = FALSE /\ asked = {} /\ sized = FALSE
  /\ stream = FALSE /\ queue = <<>>
  /\ elected = FALSE /\ pressed = {} /\ held = {} /\ lost = {}
  /\ missed = FALSE

Lives == connection \in {"live", "closing"}

-----------------------------------------------------------------------------
(* AbstractSession: the encoder.                                            *)

setStreamingEnabled(e) ==
  /\ enabled' = e
  /\ encoder' = CASE encoder = "none" -> "none"
                  [] encoder # "none" /\ e /\ step = "started" -> "active"
                  [] OTHER -> "idle"

requestStreamingEnable(r) == asked' = asked \cup {r} /\ setStreamingEnabled(TRUE)

\* Mutant: the first to withdraw turns the stream off for all.
NobodyElse(rest) == TRUE
Nobody(rest) == rest = {}

\* Mutant: who no longer asks is not taken off the list.
StillListed(r) ==
  IF r \in asked THEN UNCHANGED asked /\ setStreamingEnabled(FALSE)
                 ELSE UNCHANGED <<asked, enabled, encoder>>
requestStreamingDisable(r) ==
  IF r \in asked
    THEN /\ asked' = asked \ {r}
         /\ IF Nobody(asked \ {r}) THEN setStreamingEnabled(FALSE)
                                   ELSE UNCHANGED <<enabled, encoder>>
    ELSE UNCHANGED <<asked, enabled, encoder>>

\* Mutant: the encoder runs as soon as the session has started.
Begun == "active"
BegunIfEnabled == IF enabled THEN "active" ELSE "idle"

setStarted ==
  /\ step' = "started" /\ waiting' = FALSE
  /\ encoder' = BegunIfEnabled

\* An embedder asks for the stream, or no longer does.
Embedder(r) ==
  /\ Lives
  /\ requestStreamingEnable(r) \/ requestStreamingDisable(r)
  /\ UNCHANGED <<mode, connection, session, sized, stream, queue, input>>

SizeChanged ==
  /\ encoder = "active" /\ ~sized
  /\ sized' = TRUE
  /\ UNCHANGED <<mode, connection, session, encoder, enabled, asked, stream,
                 queue, input>>

-----------------------------------------------------------------------------
(* The start of a session.                                                  *)

\* AbstractSession::error: the wrapper closes the connection.
error == connection' = IF connection = "live" THEN "closing" ELSE connection

Fail == step' = "failed" /\ waiting' = FALSE

\* PortalRequest for step s, the answer to the call itself being awaited: the
\* Response is still to come, or came too soon; or the call is refused.
Request(s) ==
  \/ step' = s /\ waiting' = TRUE /\ UNCHANGED <<connection, missed>>
  \/ step' = s /\ waiting' = FALSE /\ missed' = TRUE /\ UNCHANGED connection
  \/ Fail /\ error /\ UNCHANGED missed

\* The portal is asked for a session, KWin for a stream.
start == step' = IF mode = "portal" THEN "create" ELSE "stream"

\* SessionController::onNewConnection.  The connection's own initialize is still
\* queued, so that closing it at once, for a start() that fails, finds no peer.
NewConnection ==
  /\ connection = "none"
  /\ \/ /\ connection' = "live"
        /\ start
        /\ \/ waiting' = TRUE /\ UNCHANGED <<missed, source>>
           \/ /\ mode = "portal"
              /\ waiting' = FALSE /\ missed' = TRUE /\ source' \in {"none", "open"}
     \/ connection' = "crashed" /\ Fail /\ UNCHANGED <<missed, source>>
  /\ UNCHANGED <<mode, path, streaming, stream, queue, input>>

\* A Response, a reply or an event of KWin arrives.
Answered(s) == Lives /\ waiting /\ step = s

Refused == Fail /\ error /\ UNCHANGED <<path, source, missed, encoder>>

\* Mutant: a session that could not be created is reported to nobody.
SilentlyRefused == Fail /\ UNCHANGED <<connection, path, source, missed, encoder>>
CreationRefused == Refused

onCreateSession ==
  /\ Answered("create")
  /\ \/ path' = TRUE /\ source' = "open" /\ Request("devices") /\ UNCHANGED encoder
     \/ CreationRefused

\* What the portal still does for a session that it has not closed itself.
Granted(next) == source = "open" /\ Request(next) /\ UNCHANGED <<path, source, encoder>>

onDevicesSelected == Answered("devices") /\ (Granted("sources") \/ Refused)

onSourcesSelected == Answered("sources") /\ (Granted("start") \/ Refused)

\* The reply to OpenPipeWireRemote cannot be missed.  No device, or no stream, is
\* an error as well.
onSessionStarted ==
  /\ Answered("start")
  /\ \/ /\ source = "open"
        /\ step' = "remote" /\ UNCHANGED <<connection, waiting, path, source, missed, encoder>>
     \/ Refused

\* Only now is Closed subscribed to: one that was sent before is lost.
onRemoteOpened ==
  /\ Answered("remote")
  /\ \/ /\ setStarted
        /\ missed' = (missed \/ source = "ended")
        /\ UNCHANGED <<connection, path, source>>
     \/ Refused

\* ScreencastingStream::created and failed.
onCreated ==
  /\ Answered("stream")
  /\ \/ setStarted /\ source' = "open" /\ UNCHANGED <<connection, path, missed>>
     \/ Refused

Answer ==
  /\ \/ onCreateSession \/ onDevicesSelected \/ onSourcesSelected
     \/ onSessionStarted \/ onRemoteOpened \/ onCreated
  /\ UNCHANGED <<mode, enabled, asked, sized, stream, queue, input>>

\* Mutant: nothing listens to Closed.
Unheard == UNCHANGED connection
onSessionClosed == error

\* The user or the compositor ends the session.  The portal's Closed is heard once
\* the session has started; of KWin's closed nobody wants to know.
SourceCloses ==
  /\ source = "open" /\ step # "gone"
  /\ source' = "ended"
  /\ IF mode = "portal" /\ step = "started" THEN onSessionClosed ELSE UNCHANGED connection
  /\ UNCHANGED <<mode, step, waiting, path, missed, streaming, stream, queue, input>>

-----------------------------------------------------------------------------
(* Input.                                                                   *)

Key(e) == <<e.device, e.code>>

\* Whether sendEvent lets events through: the portal's if the encoder runs, Plasma's
\* if both sizes are known.  A virtual monitor's logical size never is.
Open ==
  IF mode = "portal" THEN encoder = "active"
  ELSE sized /\ step = "started" /\ mode = "workspace"

\* A portal session that has ended refuses what it is notified of.
Taken == Open /\ (mode = "portal" => source = "open")

\* The key and level that make a keysym, the first of those that do; the last key
\* of the keymap is not looked at.
keycodeFromKeysym(sym) ==
  LET looked == UNION {{i} \X DOMAIN Keymap[i].levels : i \in 1..(Len(Keymap) - 1)}
      makes == {m \in looked : sym \in Keymap[m[1]].levels[m[2]]}
  IN {m \in makes : \A n \in makes : m[1] < n[1] \/ (m[1] = n[1] /\ m[2] <= n[2])}

LevelKeys(level) ==
  CASE level = 2 -> {<<"scancode", "shift">>}
    [] level = 3 -> {<<"scancode", "altgr">>}
    [] OTHER -> {}

\* Buttons other than these are dropped.
SupportedButton(k) == k[1] = "button" => k[2] \in {"left", "middle", "right"}

PortalTouches(k) == {j \in {k} : SupportedButton(j)}

\* Plasma has no keysyms: the key is looked up, and its level's modifier goes along.
PlasmaTouches(k) ==
  IF k[1] = "keysym"
    THEN UNION {{<<"scancode", Keymap[m[1]].code>>} \cup LevelKeys(m[2]) :
                  m \in keycodeFromKeysym(k[2])}
    ELSE PortalTouches(k)

\* What a key or button of the client is to the compositor.
Touches(k) == IF mode = "portal" THEN PortalTouches(k) ELSE PlasmaTouches(k)

\* Mutant: the level's modifier only goes along with a press.
KeyAlone(k) == Touches(k) \ {<<"scancode", "shift">>, <<"scancode", "altgr">>}
Lifts(k) == Touches(k)

\* stream() makes the encoder if there is none.
sendEvent(e) ==
  /\ encoder' = IF encoder = "none" THEN "idle" ELSE encoder
  /\ pressed' = CASE Taken /\ e.type = "press" -> pressed \cup Touches(Key(e))
                  [] Taken /\ e.type = "release" -> pressed \ Lifts(Key(e))
                  [] OTHER -> pressed
  /\ lost' = IF ~Taken /\ e.type = "release" THEN lost \cup {Key(e)} ELSE lost
  /\ UNCHANGED <<enabled, asked>>

\* The steps of the wheel that both sessions pass on, rounded towards zero.
WheelSteps(e) == IF e.angle >= 0 THEN e.angle \div 120 ELSE -((-e.angle) \div 120)

\* A PDU of the client, on the session thread.  A client presses what it does not
\* hold and releases what it holds.  When the callback fails, so does
\* CheckFileDescriptor, and RdpConnection::run closes the connection.
Input(pdu) ==
  /\ connection = "live"
  /\ LET e == EventOf(pdu)
         queued == elected /\ e \notin {NoEvent, Failure}
     IN /\ e.type = "press" => Key(e) \notin held
        /\ e.type = "release" => Key(e) \in held
        /\ queued => Len(queue) < MaxQueue
        /\ queue' = IF queued THEN Append(queue, e) ELSE queue
        /\ connection' = IF elected /\ e = Failure THEN "closing" ELSE connection
        /\ held' = CASE e.type = "press" -> held \cup {Key(e)}
                     [] e.type = "release" -> held \ {Key(e)}
                     [] OTHER -> held
        /\ lost' = IF e.type = "release" /\ ~elected THEN lost \cup {Key(e)} ELSE lost
  /\ UNCHANGED <<mode, session, streaming, stream, elected, pressed>>

\* InputHandler::setEnabled.
setEnabled ==
  /\ connection = "live"
  /\ elected' = ~elected
  /\ UNCHANGED <<mode, connection, session, streaming, stream, queue, pressed,
                 held, lost>>

-----------------------------------------------------------------------------
(* The event queue.                                                         *)

\* VideoStream::setEnabled, on the session thread.
StreamEnabled ==
  /\ connection = "live" /\ Len(queue) < MaxQueue
  /\ stream' = ~stream
  /\ queue' = Append(queue, [type |-> "changed"])
  /\ UNCHANGED <<mode, connection, session, streaming, input>>

\* The slot looks at the stream as it is by now.
onVideoStreamEnabledChanged ==
  IF stream THEN requestStreamingEnable(Video) ELSE requestStreamingDisable(Video)

Deliver ==
  /\ Lives /\ queue # <<>>
  /\ queue' = Tail(queue)
  /\ IF Head(queue).type = "changed"
       THEN onVideoStreamEnabledChanged /\ UNCHANGED <<pressed, lost>>
       ELSE sendEvent(Head(queue))
  /\ UNCHANGED <<mode, connection, session, sized, stream, elected, held>>

\* Mutant: a session that closes leaves the modifiers alone.
AsTheyAre(keys) == keys
ReleaseModifiers(keys) ==
  IF path /\ source = "open" THEN keys \ ({"scancode"} \X Modifiers) ELSE keys

\* The connection is destroyed, and with it the wrapper, the session, what was
\* asked of it and the events for them.  ~PortalSession calls a path it may not know
\* or that the portal has ended, where nothing is released; KWin's stream goes with
\* the objects.  A Response for CreateSession still to come opens a session nobody
\* will close.
Destroy ==
  /\ Lives
  /\ connection' = "gone" /\ step' = "gone" /\ queue' = <<>>
  /\ asked' = {} /\ enabled' = FALSE /\ encoder' = "none"
  /\ pressed' = IF mode = "portal" THEN ReleaseModifiers(pressed) ELSE pressed
  /\ source' = IF source = "open" /\ (path \/ mode # "portal") THEN "closed" ELSE source
  /\ waiting' = (waiting /\ step = "create")
  /\ UNCHANGED <<mode, path, missed, sized, stream, elected, held, lost>>

\* PortalRequest::onFinished without its context.
LateResponse ==
  /\ step = "gone" /\ waiting
  /\ waiting' = FALSE /\ source' \in {"none", "open"}
  /\ UNCHANGED <<mode, connection, step, path, missed, streaming, stream, queue,
                 input>>

-----------------------------------------------------------------------------
Next ==
  \/ NewConnection \/ Answer \/ SourceCloses \/ SizeChanged
  \/ \E r \in Requesters \ {Video} : Embedder(r)
  \/ \E pdu \in Pdus : Input(pdu)
  \/ setEnabled \/ StreamEnabled \/ Deliver \/ Destroy \/ LateResponse

Spec == Init /\ [][Next]_vars

\* The event loop runs, and the compositor answers what it was asked.
Fairness == WF_vars(Answer) /\ WF_vars(Deliver)

FairSpec == Spec /\ Fairness

-----------------------------------------------------------------------------
TypeOK ==
  /\ mode \in Modes
  /\ connection \in {"none", "live", "closing", "gone", "crashed"}
  /\ step \in {"none", "create", "devices", "sources", "start", "remote", "stream",
               "started", "failed", "gone"}
  /\ {waiting, path, enabled, sized, stream, elected, missed} \subseteq BOOLEAN
  /\ source \in {"none", "open", "closed", "ended"} /\ encoder \in {"none", "idle", "active"}
  /\ asked \subseteq Requesters
  /\ Len(queue) <= MaxQueue

\* Once no change waits in the queue, the session has been asked for its stream
\* exactly if the video stream is enabled, however often that changed meanwhile.
AskedAsEnabled ==
  Lives /\ (\A i \in DOMAIN queue : queue[i].type # "changed")
    => (Video \in asked <=> stream)

\* The session's types, and that it knows what the connection wants of it.
SessionInv == TypeOK /\ AskedAsEnabled

\* A session implements Streaming: the encoder runs exactly while the session has
\* started and somebody asks, in whatever order enabling, starting, input (which
\* may make the encoder early) and the end come.
StreamingSpec == INSTANCE Streaming
  WITH Requesters <- Requesters, asked <- asked,
       started <- step = "started", active <- encoder = "active"
Refines == StreamingSpec!Spec

\* Nothing stays pressed that the client does not hold (or, in Plasma, that goes
\* along with what it holds), unless it was released while events were not let
\* through: the controller not elected, the stream off, or its size unknown.
NothingStuck ==
  connection = "live" /\ queue = <<>>
    => pressed \subseteq UNION {Touches(k) : k \in held \cup lost}

ModifiersUp == pressed \cap ({"scancode"} \X Modifiers) = {}

\* When the connection is gone nothing of it goes on in the compositor: the encoder
\* is stopped, a session whose path was known is closed, and a portal session
\* leaves no modifier pressed, unless it was the portal that ended the session: that
\* takes no releases any more, whatever the comment in ~PortalSession promises.
EndsClean ==
  step = "gone" =>
    /\ encoder # "active"
    /\ path \/ mode # "portal" => source # "open"
    /\ mode = "portal" /\ path => ModifiersUp \/ source = "ended"

\* A wheel PDU scrolls the way its nine bits say as a signed number, by whole steps
\* of 120, and never too far (what is less than a step is lost).  The same in every
\* state; it is stated of those before the first connection.
WheelAsSigned ==
  connection = "none" =>
    \A rotation \in 0..255, negative \in {{}, {"negative"}} :
      LET signed == IF negative = {} THEN rotation ELSE rotation - 256
          steps == WheelSteps(mouseEvent({"wheel"} \cup negative, rotation))
      IN /\ signed >= 0 => steps <= 0 /\ -(120 * steps) <= signed /\ signed < 120 * (1 - steps)
         /\ signed <= 0 => steps >= 0 /\ 120 * steps <= -signed /\ -signed < 120 * (1 + steps)

\* A session that is started gets going, or its connection is closed, unless a
\* Response was missed.
StartupEnds ==
  waiting ~> step = "started" \/ connection # "live" \/ missed

\* When the portal ends the session, the connection is closed as well, unless that
\* was missed.
EndIsNoticed ==
  mode = "portal" /\ source = "ended" ~> connection # "live" \/ missed
=============================================================================
