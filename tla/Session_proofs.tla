---------------------------- MODULE Session_proofs ----------------------------
(***************************************************************************)
(* Proofs about Session for every set of requesters, PDUs and keys.  The   *)
(* invariant says how far a session may be in each state of its connection *)
(* (LifeInv), what the encoder does in each state of the session           *)
(* (EncoderInv), that the video stream's wish is known or on its way       *)
(* (AskedAsEnabled), and what is left of a session that has gone           *)
(* (GoneInv).  That nothing stays pressed needs what the queue will still  *)
(* press and release, in its order (StuckInv).                             *)
(***************************************************************************)
EXTENDS Session, SequenceTheorems, TLAPS

\* What the session thread leaves for the main thread.
Events == {[type |-> "changed"]} \cup {EventOf(pdu) : pdu \in Pdus}

Typed ==
  /\ mode \in Modes
  /\ connection \in {"none", "live", "closing", "gone", "crashed"}
  /\ step \in {"none", "create", "devices", "sources", "start", "remote", "stream",
               "started", "failed", "gone"}
  /\ waiting \in BOOLEAN /\ path \in BOOLEAN /\ missed \in BOOLEAN
  /\ enabled \in BOOLEAN /\ sized \in BOOLEAN /\ stream \in BOOLEAN /\ elected \in BOOLEAN
  /\ source \in {"none", "open", "closed", "ended"} /\ encoder \in {"none", "idle", "active"}
  /\ asked \subseteq Requesters
  /\ queue \in Seq(Events) /\ Len(queue) <= MaxQueue

\* A connection that is not there has asked for nothing; a path is only known once
\* the portal has made a session, which then is open until the end, or ended by the
\* portal.
LifeInv ==
  /\ connection \in {"none", "crashed"} => queue = <<>> /\ asked = {} /\ stream = FALSE
  /\ connection = "none" => step = "none" /\ path = FALSE
  /\ step = "gone" <=> connection = "gone"
  /\ step = "create" => mode = "portal" /\ path = FALSE
  /\ path /\ step # "gone" => source \in {"open", "ended"}

\* The encoder is active exactly if it should be, and is there once it may be.
EncoderInv ==
  /\ enabled <=> asked # {}
  /\ step = "started" => encoder # "none"
  /\ encoder = "active" <=> step = "started" /\ asked # {}

\* All that can still be answered to a session that has gone is the request for one
\* whose path was never known.
GoneInv == step = "gone" /\ waiting => mode = "portal" /\ path = FALSE

SessionIInv == Typed /\ LifeInv /\ EncoderInv /\ AskedAsEnabled /\ GoneInv /\ EndsClean

USE DEF Lives, Nobody, BegunIfEnabled, Fail, error, Answered, Refused, CreationRefused,
        onSessionClosed, Request, Granted, setStarted, setStreamingEnabled,
        requestStreamingEnable, requestStreamingDisable, start,
        session, streaming, input

LEMMA InitInv == Init => SessionIInv
<1> SUFFICES ASSUME Init PROVE SessionIInv
  OBVIOUS
<1>1. Typed
  <2>1. queue \in Seq(Events) /\ Len(queue) <= MaxQueue
    BY SessionAssumption DEF Init
  <2> QED BY <2>1 DEF Init, Typed
<1>2. LifeInv /\ EncoderInv /\ AskedAsEnabled /\ GoneInv /\ EndsClean
  BY DEF Init, LifeInv, EncoderInv, AskedAsEnabled, GoneInv, EndsClean
<1> QED BY <1>1, <1>2 DEF SessionIInv

\* An event more, or one less, in the queue.
LEMMA QueueChanges ==
  ASSUME Typed
  PROVE  /\ \A e \in Events : Len(queue) < MaxQueue =>
              /\ Append(queue, e) \in Seq(Events) /\ Len(Append(queue, e)) <= MaxQueue
              /\ \A i \in DOMAIN queue : i \in DOMAIN Append(queue, e) /\ Append(queue, e)[i] = queue[i]
              /\ \E i \in DOMAIN Append(queue, e) : Append(queue, e)[i] = e
         /\ queue # <<>> =>
              /\ Tail(queue) \in Seq(Events) /\ Len(Tail(queue)) <= MaxQueue
              /\ \A i \in DOMAIN queue : queue[i] # Head(queue) =>
                   i - 1 \in DOMAIN Tail(queue) /\ Tail(queue)[i - 1] = queue[i]
<1>1. queue \in Seq(Events) /\ Len(queue) <= MaxQueue /\ MaxQueue \in Nat
  BY SessionAssumption DEF Typed
<1> HIDE DEF Events
<1>2. ASSUME NEW e \in Events, Len(queue) < MaxQueue
      PROVE  /\ Append(queue, e) \in Seq(Events) /\ Len(Append(queue, e)) <= MaxQueue
             /\ \A i \in DOMAIN queue : i \in DOMAIN Append(queue, e) /\ Append(queue, e)[i] = queue[i]
             /\ \E i \in DOMAIN Append(queue, e) : Append(queue, e)[i] = e
  <2>1. Len(queue) + 1 \in DOMAIN Append(queue, e) /\ Append(queue, e)[Len(queue) + 1] = e
    BY <1>1
  <2> QED BY <1>1, <1>2, <2>1
<1>3. ASSUME queue # <<>>
      PROVE  /\ Tail(queue) \in Seq(Events) /\ Len(Tail(queue)) <= MaxQueue
             /\ \A i \in DOMAIN queue : queue[i] # Head(queue) =>
                   i - 1 \in DOMAIN Tail(queue) /\ Tail(queue)[i - 1] = queue[i]
  <2>1. /\ Head(queue) = queue[1] /\ Tail(queue) \in Seq(Events)
        /\ Len(Tail(queue)) = Len(queue) - 1
        /\ \A i \in 1..Len(Tail(queue)) : Tail(queue)[i] = queue[i + 1]
    <3>1. Head(queue) = queue[1]
      BY <1>1, <1>3
    <3> QED BY <1>1, <1>3, <3>1, HeadTailProperties
  <2>2. DOMAIN queue = 1..Len(queue) /\ DOMAIN Tail(queue) = 1..(Len(queue) - 1)
    BY <1>1, <2>1
  <2>3. ASSUME NEW i \in DOMAIN queue, queue[i] # Head(queue)
        PROVE  i - 1 \in DOMAIN Tail(queue) /\ Tail(queue)[i - 1] = queue[i]
    <3>1. i \in 2..Len(queue)
      BY <1>1, <2>1, <2>2, <2>3
    <3> QED BY <1>1, <2>1, <2>2, <3>1
  <2> QED BY <1>1, <2>1, <2>3
<1> QED BY <1>2, <1>3

\* Asking for the stream, or no longer, keeps the types and the encoder's law.
LEMMA AsksWell ==
  ASSUME Typed, NEW r \in Requesters,
         requestStreamingEnable(r) \/ requestStreamingDisable(r)
  PROVE  /\ asked' \subseteq Requesters /\ enabled' \in BOOLEAN
         /\ encoder' \in {"none", "idle", "active"}
         /\ EncoderInv /\ UNCHANGED step => EncoderInv'
<1>1. CASE requestStreamingEnable(r)
  <2>1. asked' = asked \cup {r} /\ asked' # {} /\ asked' \subseteq Requesters
    BY <1>1 DEF Typed
  <2>2. enabled' = TRUE
    BY <1>1
  <2>3. encoder' = IF encoder = "none" THEN "none"
                   ELSE IF step = "started" THEN "active" ELSE "idle"
    BY <1>1
  <2> QED BY <2>1, <2>2, <2>3 DEF Typed, EncoderInv
<1>2. CASE requestStreamingDisable(r) /\ asked \ {r} = {} /\ r \in asked
  <2>1. asked' = {}
    BY <1>2
  <2>2. enabled' = FALSE
    BY <1>2
  <2>3. encoder' = IF encoder = "none" THEN "none" ELSE "idle"
    BY <1>2
  <2> QED BY <2>1, <2>2, <2>3 DEF Typed, EncoderInv
<1>3. CASE requestStreamingDisable(r) /\ (asked \ {r} # {} \/ r \notin asked)
  <2>1. asked' = asked \ {r}
    BY <1>3
  <2>2. UNCHANGED <<enabled, encoder>>
    BY <1>3
  <2>3. asked' # {} <=> asked # {}
    BY <1>3, <2>1
  <2> QED BY <2>1, <2>2, <2>3 DEF Typed, EncoderInv
<1> QED BY <1>1, <1>2, <1>3

\* What an answer of the compositor can change.
LEMMA AnswerShape ==
  ASSUME Typed, Answer
  PROVE  /\ UNCHANGED <<mode, enabled, asked, sized, stream, queue, input>>
         /\ Lives /\ waiting
         /\ step \in {"create", "devices", "sources", "start", "remote", "stream"}
         /\ step' \in {"devices", "sources", "start", "remote", "started", "failed"}
         /\ connection' \in {connection, "closing"}
         /\ waiting' \in BOOLEAN /\ missed' \in BOOLEAN /\ path' \in {path, TRUE}
         /\ source' \in {source, "open"} /\ (path' = path \/ source' = "open")
         /\ encoder' = IF step' = "started" THEN BegunIfEnabled ELSE encoder
<1> DEFINE Shape ==
      /\ Lives /\ waiting
      /\ step \in {"create", "devices", "sources", "start", "remote", "stream"}
      /\ step' \in {"devices", "sources", "start", "remote", "started", "failed"}
      /\ connection' \in {connection, "closing"}
      /\ waiting' \in BOOLEAN /\ missed' \in BOOLEAN /\ path' \in {path, TRUE}
      /\ source' \in {source, "open"} /\ (path' = path \/ source' = "open")
      /\ encoder' = IF step' = "started" THEN BegunIfEnabled ELSE encoder
<1>1. ASSUME onCreateSession PROVE Shape
  BY <1>1 DEF onCreateSession, Typed
<1>2. ASSUME onDevicesSelected PROVE Shape
  BY <1>2 DEF onDevicesSelected, Typed
<1>3. ASSUME onSourcesSelected PROVE Shape
  BY <1>3 DEF onSourcesSelected, Typed
<1>4. ASSUME onSessionStarted PROVE Shape
  BY <1>4 DEF onSessionStarted, Typed
<1>5. ASSUME onRemoteOpened PROVE Shape
  BY <1>5 DEF onRemoteOpened, Typed
<1>6. ASSUME onCreated PROVE Shape
  BY <1>6 DEF onCreated, Typed
<1>7. Shape
  BY <1>1, <1>2, <1>3, <1>4, <1>5, <1>6 DEF Answer
<1> QED BY <1>7 DEF Answer

LEMMA NextTyped == Typed /\ [Next]_vars => Typed'
<1> SUFFICES ASSUME Typed, [Next]_vars PROVE Typed'
  OBVIOUS
<1>1. CASE NewConnection
  <2>1. UNCHANGED <<mode, path, encoder, enabled, asked, sized, stream, queue, elected>>
    BY <1>1 DEF NewConnection
  <2>2. connection' \in {"live", "crashed"} /\ step' \in {"create", "stream", "failed"}
    BY <1>1 DEF NewConnection
  <2>3. waiting' \in BOOLEAN /\ missed' \in BOOLEAN /\ source' \in {"none", "open", "closed", "ended"}
    BY <1>1 DEF NewConnection, Typed
  <2> QED BY <2>1, <2>2, <2>3 DEF Typed
<1>2. CASE Answer
  <2>1. encoder' \in {"none", "idle", "active"}
    BY <1>2, AnswerShape DEF Typed
  <2>2. /\ UNCHANGED <<mode, enabled, asked, sized, stream, queue, elected>>
        /\ step' \in {"devices", "sources", "start", "remote", "started", "failed"}
        /\ connection' \in {connection, "closing"}
    BY <1>2, AnswerShape
  <2>3. /\ waiting' \in BOOLEAN /\ missed' \in BOOLEAN /\ path' \in BOOLEAN
        /\ source' \in {"none", "open", "closed", "ended"}
    BY <1>2, AnswerShape DEF Typed
  <2> QED BY <2>1, <2>2, <2>3 DEF Typed
<1>3. CASE SourceCloses
  <2>1. UNCHANGED <<mode, step, waiting, path, missed, encoder, enabled, asked, sized,
                    stream, queue, elected>>
    BY <1>3 DEF SourceCloses
  <2>2. source' = "ended" /\ connection' \in {connection, "closing"}
    BY <1>3 DEF SourceCloses
  <2> QED BY <2>1, <2>2 DEF Typed
<1>4. CASE SizeChanged
  BY <1>4 DEF SizeChanged, Typed
<1>5. ASSUME NEW r \in Requesters, Embedder(r) PROVE Typed'
  <2>1. UNCHANGED <<mode, connection, step, waiting, path, source, missed, sized,
                    stream, queue, elected>>
    BY <1>5 DEF Embedder
  <2>2. asked' \subseteq Requesters /\ enabled' \in BOOLEAN /\ encoder' \in {"none", "idle", "active"}
    BY <1>5, AsksWell DEF Embedder
  <2> QED BY <2>1, <2>2 DEF Typed
<1>6. ASSUME NEW pdu \in Pdus, Input(pdu) PROVE Typed'
  <2>1. queue' \in {queue, Append(queue, EventOf(pdu))} /\ (queue' # queue => Len(queue) < MaxQueue)
    BY <1>6 DEF Input
  <2>2. EventOf(pdu) \in Events
    BY DEF Events
  <2>3. queue' \in Seq(Events) /\ Len(queue') <= MaxQueue
    BY <2>1, <2>2, QueueChanges DEF Typed
  <2>4. UNCHANGED <<mode, session, streaming, stream, elected>>
    BY <1>6 DEF Input
  <2>5. connection' \in {connection, "closing"}
    BY <1>6 DEF Input
  <2> QED BY <2>3, <2>4, <2>5 DEF Typed
<1>7. CASE setEnabled
  BY <1>7 DEF setEnabled, Typed
<1>8. CASE StreamEnabled
  <2>1. [type |-> "changed"] \in Events
    BY DEF Events
  <2>2. queue' \in Seq(Events) /\ Len(queue') <= MaxQueue
    BY <1>8, <2>1, QueueChanges DEF StreamEnabled
  <2> QED BY <1>8, <2>2 DEF StreamEnabled, Typed
<1>9. CASE Deliver
  <2>1. queue' \in Seq(Events) /\ Len(queue') <= MaxQueue
    BY <1>9, QueueChanges DEF Deliver
  <2>2. /\ asked' \subseteq Requesters /\ enabled' \in BOOLEAN /\ encoder' \in {"none", "idle", "active"}
    <3>1. CASE Head(queue).type = "changed"
      BY <1>9, <3>1, SessionAssumption DEF Deliver, onVideoStreamEnabledChanged, Typed
    <3>2. CASE Head(queue).type # "changed"
      BY <1>9, <3>2 DEF Deliver, sendEvent, Typed
    <3> QED BY <3>1, <3>2
  <2>3. UNCHANGED <<mode, connection, step, waiting, path, source, missed, sized,
                    stream, elected>>
    BY <1>9 DEF Deliver
  <2>4. /\ mode' \in Modes
        /\ connection' \in {"none", "live", "closing", "gone", "crashed"}
        /\ source' \in {"none", "open", "closed", "ended"}
        /\ waiting' \in BOOLEAN /\ path' \in BOOLEAN /\ missed' \in BOOLEAN
        /\ sized' \in BOOLEAN /\ stream' \in BOOLEAN /\ elected' \in BOOLEAN
    BY <2>3 DEF Typed
  <2>5. step' \in {"none", "create", "devices", "sources", "start", "remote", "stream",
                   "started", "failed", "gone"}
    BY <2>3 DEF Typed
  <2> QED BY <2>1, <2>2, <2>4, <2>5 DEF Typed
<1>10. CASE Destroy
  <2>1. queue' \in Seq(Events) /\ Len(queue') <= MaxQueue
    BY <1>10, SessionAssumption DEF Destroy
  <2> QED BY <1>10, <2>1 DEF Destroy, Typed
<1>11. CASE LateResponse
  <2>1. UNCHANGED <<mode, connection, step, path, missed, enabled, encoder, asked,
                    sized, stream, queue, elected>>
    BY <1>11 DEF LateResponse
  <2>2. waiting' \in BOOLEAN /\ source' \in {"none", "open", "closed", "ended"}
    BY <1>11 DEF LateResponse
  <2> QED BY <2>1, <2>2 DEF Typed
<1>12. CASE UNCHANGED vars
  BY <1>12 DEF vars, Typed
<1> QED
  BY <1>1, <1>2, <1>3, <1>4, <1>5, <1>6, <1>7, <1>8, <1>9, <1>10, <1>11, <1>12 DEF Next

\* In which of its states a connection finds its session.
LEMMA NextLifeInv == Typed /\ LifeInv /\ [Next]_vars => LifeInv'
<1> SUFFICES ASSUME Typed, LifeInv, [Next]_vars PROVE LifeInv'
  OBVIOUS
<1>1. CASE NewConnection
  <2>1. /\ UNCHANGED <<mode, path, asked, stream, queue>> /\ connection = "none"
        /\ connection' \in {"live", "crashed"} /\ step' # "gone"
        /\ step' = "create" => mode = "portal"
    BY <1>1 DEF NewConnection
  <2> QED BY <2>1 DEF LifeInv
<1>2. CASE Answer
  <2>1. /\ UNCHANGED <<mode, queue, asked, stream>>
        /\ connection \in {"live", "closing"} /\ connection' \in {connection, "closing"}
        /\ step' \in {"devices", "sources", "start", "remote", "started", "failed"}
        /\ source' \in {source, "open"} /\ (path' = path \/ source' = "open")
        /\ step # "gone"
    BY <1>2, AnswerShape
  <2> QED BY <2>1 DEF LifeInv
<1>3. CASE SourceCloses
  <2>1. /\ UNCHANGED <<mode, step, path, asked, stream, queue>>
        /\ connection' = connection \/ (connection = "live" /\ connection' = "closing")
        /\ source' = "ended"
    BY <1>3 DEF SourceCloses
  <2> QED BY <2>1 DEF LifeInv
<1>4. CASE SizeChanged
  BY <1>4 DEF SizeChanged, LifeInv
<1>5. ASSUME NEW r \in Requesters, Embedder(r) PROVE LifeInv'
  <2>1. Lives /\ UNCHANGED <<mode, connection, step, path, source>>
    BY <1>5 DEF Embedder
  <2> QED BY <2>1 DEF LifeInv
<1>6. ASSUME NEW pdu \in Pdus, Input(pdu) PROVE LifeInv'
  <2>1. /\ UNCHANGED <<mode, step, path, source>> /\ connection = "live"
        /\ connection' \in {connection, "closing"}
    BY <1>6 DEF Input
  <2> QED BY <2>1 DEF LifeInv
<1>7. CASE setEnabled
  BY <1>7 DEF setEnabled, LifeInv
<1>8. CASE StreamEnabled
  <2>1. Lives /\ UNCHANGED <<mode, connection, step, path, source>>
    BY <1>8 DEF StreamEnabled
  <2> QED BY <2>1 DEF LifeInv
<1>9. CASE Deliver
  <2>1. Lives /\ UNCHANGED <<mode, connection, step, path, source>>
    BY <1>9 DEF Deliver
  <2> QED BY <2>1 DEF LifeInv
<1>10. CASE Destroy
  <2>1. connection' = "gone" /\ step' = "gone"
    BY <1>10 DEF Destroy
  <2> QED BY <2>1 DEF LifeInv
<1>11. CASE LateResponse
  BY <1>11 DEF LateResponse, LifeInv
<1>12. CASE UNCHANGED vars
  BY <1>12 DEF vars, LifeInv
<1> QED
  BY <1>1, <1>2, <1>3, <1>4, <1>5, <1>6, <1>7, <1>8, <1>9, <1>10, <1>11, <1>12 DEF Next

\* The encoder's law survives enabling, starting, input and the end in any order.
LEMMA NextEncoderInv == Typed /\ LifeInv /\ EncoderInv /\ [Next]_vars => EncoderInv'
<1> SUFFICES ASSUME Typed, LifeInv, EncoderInv, [Next]_vars PROVE EncoderInv'
  OBVIOUS
<1>1. CASE NewConnection
  <2>1. /\ UNCHANGED <<encoder, enabled, asked>> /\ step = "none"
        /\ step' \in {"create", "stream", "failed"}
    BY <1>1 DEF NewConnection, LifeInv
  <2> QED BY <2>1 DEF EncoderInv
<1>2. CASE Answer
  <2>1. /\ UNCHANGED <<enabled, asked>>
        /\ step \in {"create", "devices", "sources", "start", "remote", "stream"}
        /\ encoder' = IF step' = "started" THEN BegunIfEnabled ELSE encoder
    BY <1>2, AnswerShape
  <2> QED BY <2>1 DEF EncoderInv
<1>3. CASE SourceCloses
  BY <1>3 DEF SourceCloses, EncoderInv
<1>4. CASE SizeChanged
  BY <1>4 DEF SizeChanged, EncoderInv
<1>5. ASSUME NEW r \in Requesters, Embedder(r) PROVE EncoderInv'
  BY <1>5, AsksWell DEF Embedder
<1>6. ASSUME NEW pdu \in Pdus, Input(pdu) PROVE EncoderInv'
  <2>1. UNCHANGED <<step, encoder, enabled, asked>>
    BY <1>6 DEF Input
  <2> QED BY <2>1 DEF EncoderInv
<1>7. CASE setEnabled
  BY <1>7 DEF setEnabled, EncoderInv
<1>8. CASE StreamEnabled
  BY <1>8 DEF StreamEnabled, EncoderInv
<1>9. CASE Deliver
  <2>1. UNCHANGED step
    BY <1>9 DEF Deliver
  <2>2. CASE Head(queue).type = "changed"
    <3>1. requestStreamingEnable(Video) \/ requestStreamingDisable(Video)
      BY <1>9, <2>2 DEF Deliver, onVideoStreamEnabledChanged
    <3> QED BY <2>1, <3>1, AsksWell, SessionAssumption
  <2>3. CASE Head(queue).type # "changed"
    <3>1. /\ encoder' = IF encoder = "none" THEN "idle" ELSE encoder
          /\ UNCHANGED <<enabled, asked>>
      BY <1>9, <2>3 DEF Deliver, sendEvent
    <3> QED BY <2>1, <3>1 DEF EncoderInv
  <2> QED BY <2>2, <2>3
<1>10. CASE Destroy
  <2>1. step' = "gone" /\ asked' = {} /\ enabled' = FALSE /\ encoder' = "none"
    BY <1>10 DEF Destroy
  <2> QED BY <2>1 DEF EncoderInv
<1>11. CASE LateResponse
  BY <1>11 DEF LateResponse, EncoderInv
<1>12. CASE UNCHANGED vars
  BY <1>12 DEF vars, EncoderInv
<1> QED
  BY <1>1, <1>2, <1>3, <1>4, <1>5, <1>6, <1>7, <1>8, <1>9, <1>10, <1>11, <1>12 DEF Next

\* A change of the stream is known, or still in the queue: what is taken from the
\* queue is acted upon by the stream's state of that moment.
LEMMA NextAskedAsEnabled ==
  Typed /\ LifeInv /\ AskedAsEnabled /\ [Next]_vars => AskedAsEnabled'
<1> SUFFICES ASSUME Typed, LifeInv, AskedAsEnabled, [Next]_vars PROVE AskedAsEnabled'
  OBVIOUS
<1> DEFINE Waits(q) == \E i \in DOMAIN q : q[i].type = "changed"
<1>a. AskedAsEnabled <=> (Lives /\ ~Waits(queue) => (Video \in asked <=> stream))
  BY DEF AskedAsEnabled
<1>b. AskedAsEnabled' <=> (Lives' /\ ~Waits(queue') => (Video \in asked' <=> stream'))
  BY DEF AskedAsEnabled
<1>1. CASE NewConnection
  <2>1. UNCHANGED <<asked, stream>> /\ asked = {} /\ stream = FALSE
    BY <1>1 DEF NewConnection, LifeInv
  <2> QED BY <2>1, <1>b
<1>2. CASE Answer
  <2>1. UNCHANGED <<asked, stream, queue>> /\ Lives
    BY <1>2, AnswerShape
  <2> QED BY <2>1, <1>a, <1>b
<1>3. CASE SourceCloses
  <2>1. UNCHANGED <<asked, stream, queue>> /\ (Lives' => Lives)
    BY <1>3 DEF SourceCloses
  <2> QED BY <2>1, <1>a, <1>b
<1>4. CASE SizeChanged
  BY <1>4 DEF SizeChanged, AskedAsEnabled
<1>5. ASSUME NEW r \in Requesters \ {Video}, Embedder(r) PROVE AskedAsEnabled'
  <2>1. UNCHANGED <<connection, stream, queue>>
    BY <1>5 DEF Embedder
  <2>2. Video \in asked' <=> Video \in asked
    BY <1>5 DEF Embedder
  <2> QED BY <2>1, <2>2, <1>a, <1>b
<1>6. ASSUME NEW pdu \in Pdus, Input(pdu) PROVE AskedAsEnabled'
  <2>1. UNCHANGED <<asked, stream>> /\ connection = "live"
    BY <1>6 DEF Input
  <2>2. queue' \in {queue, Append(queue, EventOf(pdu))} /\ (queue' # queue => Len(queue) < MaxQueue)
    BY <1>6 DEF Input
  <2>3. EventOf(pdu) \in Events
    BY DEF Events
  <2>4. Waits(queue) => Waits(queue')
    <3>1. CASE queue' = queue
      BY <3>1
    <3>2. ASSUME queue' = Append(queue, EventOf(pdu)), Len(queue) < MaxQueue,
                 NEW i \in DOMAIN queue, queue[i].type = "changed"
          PROVE  i \in DOMAIN queue' /\ queue'[i].type = "changed"
      BY <2>3, <3>2, QueueChanges
    <3> QED BY <2>2, <3>1, <3>2
  <2> QED BY <2>1, <2>4, <1>a, <1>b
<1>7. CASE setEnabled
  BY <1>7 DEF setEnabled, AskedAsEnabled
<1>8. CASE StreamEnabled
  <2>1. [type |-> "changed"] \in Events
    BY DEF Events
  <2>2. \E i \in DOMAIN queue' : queue'[i] = [type |-> "changed"]
    BY <1>8, <2>1, QueueChanges DEF StreamEnabled
  <2>3. Waits(queue')
    BY <2>2
  <2> QED BY <2>3, <1>b
<1>9. CASE Deliver
  <2>1. UNCHANGED <<connection, stream>> /\ queue # <<>> /\ queue' = Tail(queue)
    BY <1>9 DEF Deliver
  <2>2. CASE Head(queue).type = "changed"
    <3>1. CASE stream
      <4>1. requestStreamingEnable(Video)
        BY <1>9, <2>2, <3>1 DEF Deliver, onVideoStreamEnabledChanged
      <4> QED BY <2>1, <3>1, <4>1, <1>b
    <3>2. CASE ~stream
      <4>1. requestStreamingDisable(Video)
        BY <1>9, <2>2, <3>2 DEF Deliver, onVideoStreamEnabledChanged
      <4>2. Video \notin asked'
        BY <4>1
      <4> QED BY <2>1, <3>2, <4>2, <1>b
    <3> QED BY <3>1, <3>2
  <2>3. CASE Head(queue).type # "changed"
    <3>1. UNCHANGED asked
      BY <1>9, <2>3 DEF Deliver, sendEvent
    <3>2. Waits(queue) => Waits(queue')
      <4>1. ASSUME NEW i \in DOMAIN queue, queue[i].type = "changed"
            PROVE  i - 1 \in DOMAIN queue' /\ queue'[i - 1].type = "changed"
        BY <2>1, <2>3, <4>1, QueueChanges
      <4> QED BY <4>1
    <3> QED BY <2>1, <3>1, <3>2, <1>a, <1>b
  <2> QED BY <2>2, <2>3
<1>10. CASE Destroy
  <2>1. connection' = "gone"
    BY <1>10 DEF Destroy
  <2> QED BY <2>1, <1>b
<1>11. CASE LateResponse
  BY <1>11 DEF LateResponse, AskedAsEnabled
<1>12. CASE UNCHANGED vars
  BY <1>12 DEF vars, AskedAsEnabled
<1> QED
  BY <1>1, <1>2, <1>3, <1>4, <1>5, <1>6, <1>7, <1>8, <1>9, <1>10, <1>11, <1>12 DEF Next

\* What has gone stays as it went: only a Response for the creation of a session
\* whose path was never known may still come.
LEMMA NextEndsClean ==
  Typed /\ LifeInv /\ GoneInv /\ EndsClean /\ [Next]_vars => GoneInv' /\ EndsClean'
<1> SUFFICES ASSUME Typed, LifeInv, GoneInv, EndsClean, [Next]_vars PROVE GoneInv' /\ EndsClean'
  OBVIOUS
<1>a. step' # "gone" => GoneInv' /\ EndsClean'
  BY DEF GoneInv, EndsClean
<1>b. Lives => step # "gone"
  BY DEF LifeInv
<1>1. CASE NewConnection
  <2>1. step' # "gone"
    BY <1>1 DEF NewConnection
  <2> QED BY <2>1, <1>a
<1>2. CASE Answer
  <2>1. step' # "gone"
    BY <1>2, AnswerShape
  <2> QED BY <2>1, <1>a
<1>3. CASE SourceCloses
  <2>1. step' # "gone"
    BY <1>3 DEF SourceCloses
  <2> QED BY <2>1, <1>a
<1>4. CASE SizeChanged
  <2>1. encoder = "active" /\ UNCHANGED step
    BY <1>4 DEF SizeChanged
  <2> QED BY <2>1, <1>a DEF EndsClean
<1>5. ASSUME NEW r \in Requesters, Embedder(r) PROVE GoneInv' /\ EndsClean'
  <2>1. Lives /\ UNCHANGED step
    BY <1>5 DEF Embedder
  <2> QED BY <2>1, <1>a, <1>b
<1>6. ASSUME NEW pdu \in Pdus, Input(pdu) PROVE GoneInv' /\ EndsClean'
  <2>1. Lives /\ UNCHANGED step
    BY <1>6 DEF Input
  <2> QED BY <2>1, <1>a, <1>b
<1>7. CASE setEnabled
  <2>1. Lives /\ UNCHANGED step
    BY <1>7 DEF setEnabled
  <2> QED BY <2>1, <1>a, <1>b
<1>8. CASE StreamEnabled
  <2>1. Lives /\ UNCHANGED step
    BY <1>8 DEF StreamEnabled
  <2> QED BY <2>1, <1>a, <1>b
<1>9. CASE Deliver
  <2>1. Lives /\ UNCHANGED step
    BY <1>9 DEF Deliver
  <2> QED BY <2>1, <1>a, <1>b
<1>10. CASE Destroy
  <2>1. UNCHANGED <<mode, path>> /\ encoder' = "none"
    BY <1>10 DEF Destroy
  <2>2. path \/ mode # "portal" => source' # "open"
    BY <1>10 DEF Destroy
  <2>3. mode = "portal" /\ path => ModifiersUp' \/ source' = "ended"
    BY <1>10, <1>b DEF Destroy, ReleaseModifiers, ModifiersUp, LifeInv
  <2>4. EndsClean'
    BY <2>1, <2>2, <2>3 DEF EndsClean
  <2>5. waiting' => waiting /\ step = "create"
    BY <1>10 DEF Destroy
  <2>6. GoneInv'
    BY <2>1, <2>5 DEF LifeInv, GoneInv
  <2> QED BY <2>4, <2>6
<1>11. CASE LateResponse
  <2>1. step = "gone" /\ waiting /\ waiting' = FALSE
    BY <1>11 DEF LateResponse
  <2>2. UNCHANGED <<mode, path, encoder, pressed>>
    BY <1>11 DEF LateResponse
  <2>3. mode = "portal" /\ path = FALSE
    BY <2>1 DEF GoneInv
  <2> QED BY <2>1, <2>2, <2>3 DEF GoneInv, EndsClean
<1>12. CASE UNCHANGED vars
  BY <1>12 DEF vars, GoneInv, EndsClean, ModifiersUp
<1> QED
  BY <1>1, <1>2, <1>3, <1>4, <1>5, <1>6, <1>7, <1>8, <1>9, <1>10, <1>11, <1>12 DEF Next

\* The invariant is inductive.
LEMMA NextInv == SessionIInv /\ [Next]_vars => SessionIInv'
  BY NextTyped, NextLifeInv, NextEncoderInv, NextAskedAsEnabled, NextEndsClean DEF SessionIInv

LEMMA InvAlways == Spec => []SessionIInv
  BY InitInv, NextInv, PTL DEF Spec

-----------------------------------------------------------------------------
\* A session has the types of its variables, and once no change of the video stream
\* waits for the main thread it is asked for its stream exactly if the video stream
\* is enabled: the wish of the session thread is never lost.
THEOREM AlwaysSessionInv == Spec => []SessionInv
<1>1. SessionIInv => SessionInv
  <2>1. Typed => TypeOK
    BY DEF Typed, TypeOK
  <2> QED BY <2>1 DEF SessionIInv, SessionInv
<1> QED BY <1>1, InvAlways, PTL

\* Whenever the connection goes, in whatever step of its start, the encoder stops, a
\* session with a known path is closed, and the portal's modifiers are released, unless
\* the portal has ended the session before.
THEOREM AlwaysEndsClean == Spec => []EndsClean
<1>1. SessionIInv => EndsClean
  BY DEF SessionIInv
<1> QED BY <1>1, InvAlways, PTL

\* What the steps do to who asks and to whether the session has started.
LEMMA StreamingSteps ==
  ASSUME SessionIInv, [Next]_vars
  PROVE  \/ asked' = asked /\ (step' = "started" <=> step = "started")
         \/ asked' = asked /\ step' = "started"
         \/ /\ step' = step
            /\ \E r \in Requesters : asked' = asked \cup {r} \/ asked' = asked \ {r}
         \/ asked' = {} /\ step' = "gone"
<1> DEFINE Goal ==
         \/ asked' = asked /\ (step' = "started" <=> step = "started")
         \/ asked' = asked /\ step' = "started"
         \/ /\ step' = step
            /\ \E r \in Requesters : asked' = asked \cup {r} \/ asked' = asked \ {r}
         \/ asked' = {} /\ step' = "gone"
<1>1. CASE NewConnection
  BY <1>1 DEF NewConnection, SessionIInv, LifeInv
<1>2. CASE Answer
  <2>1. Typed
    BY DEF SessionIInv
  <2> QED BY <1>2, <2>1, AnswerShape
<1>3. CASE SourceCloses \/ SizeChanged \/ setEnabled \/ StreamEnabled \/ LateResponse
  BY <1>3 DEF SourceCloses, SizeChanged, setEnabled, StreamEnabled, LateResponse
<1>4. ASSUME NEW r \in Requesters, requestStreamingEnable(r) \/ requestStreamingDisable(r)
      PROVE  asked' = asked \cup {r} \/ asked' = asked \ {r}
  BY <1>4
<1>5. ASSUME NEW r \in Requesters, Embedder(r) PROVE Goal
  BY <1>4, <1>5 DEF Embedder
<1>6. ASSUME NEW pdu \in Pdus, Input(pdu) PROVE Goal
  BY <1>6 DEF Input
<1>7. CASE Deliver
  <2>1. CASE Head(queue).type = "changed"
    <3>1. requestStreamingEnable(Video) \/ requestStreamingDisable(Video)
      BY <1>7, <2>1 DEF Deliver, onVideoStreamEnabledChanged
    <3>2. step' = step
      BY <1>7 DEF Deliver
    <3> QED BY <3>1, <3>2, <1>4, SessionAssumption
  <2>2. CASE Head(queue).type # "changed"
    BY <1>7, <2>2 DEF Deliver, sendEvent
  <2> QED BY <2>1, <2>2
<1>8. CASE Destroy
  BY <1>8 DEF Destroy
<1>9. CASE UNCHANGED vars
  BY <1>9 DEF vars
<1> QED BY <1>1, <1>2, <1>3, <1>5, <1>6, <1>7, <1>8, <1>9 DEF Next

\* Every step of a session is one of Streaming's, or leaves what that speaks of alone.
LEMMA StepRefines ==
  SessionIInv /\ SessionIInv' /\ [Next]_vars => [StreamingSpec!Next]_(StreamingSpec!vars)
<1> SUFFICES ASSUME SessionIInv, SessionIInv', [Next]_vars
             PROVE  StreamingSpec!Next \/ UNCHANGED StreamingSpec!vars
  OBVIOUS
<1>a. encoder = "active" <=> step = "started" /\ asked # {}
  BY DEF SessionIInv, EncoderInv
<1>b. encoder' = "active" <=> step' = "started" /\ asked' # {}
  BY DEF SessionIInv, EncoderInv
<1>1. CASE asked' = asked /\ (step' = "started" <=> step = "started")
  BY <1>a, <1>b, <1>1 DEF StreamingSpec!vars
<1>2. CASE asked' = asked /\ step' = "started"
  BY <1>b, <1>2 DEF StreamingSpec!Next, StreamingSpec!Start
<1>3. ASSUME NEW r \in Requesters, step' = step, asked' = asked \cup {r}
      PROVE  StreamingSpec!Ask(r)
  BY <1>b, <1>3 DEF StreamingSpec!Ask
<1>4. ASSUME NEW r \in Requesters, step' = step, asked' = asked \ {r}
      PROVE  StreamingSpec!Withdraw(r)
  BY <1>b, <1>4 DEF StreamingSpec!Withdraw
<1>5. CASE asked' = {} /\ step' = "gone"
  BY <1>b, <1>5 DEF StreamingSpec!Next, StreamingSpec!End
<1> QED BY <1>1, <1>2, <1>3, <1>4, <1>5, StreamingSteps DEF StreamingSpec!Next

\* A session implements Streaming, whoever asks and however the start, the input and
\* the end interleave: the encoder runs exactly while the session has started and
\* somebody asks.
THEOREM SessionRefinesStreaming == Spec => Refines
<1>1. Init => StreamingSpec!Init
  BY DEF Init, StreamingSpec!Init
<1> QED BY <1>1, StepRefines, InvAlways, PTL DEF Spec, Refines, StreamingSpec!Spec

-----------------------------------------------------------------------------
\* The keys whose release waits in the queue behind its first n events.
Releasing(n) ==
  {Key(queue[i]) : i \in {j \in DOMAIN queue : j > n /\ queue[j].type = "release"}}

\* The keys that may account for something pressed once the first n events of the
\* queue have been delivered.
Excused(n) == held \cup lost \cup Releasing(n)

\* What is pressed is held or lost, or its release is on its way; so will be what
\* the presses in the queue are going to press.
StuckInv ==
  connection # "gone" =>
    /\ pressed \subseteq UNION {Touches(k) : k \in Excused(0)}
    /\ \A i \in DOMAIN queue : queue[i].type = "press" => Key(queue[i]) \in Excused(i)

\* A PDU of the client takes nobody's excuse, and what it is going to press is held.
LEMMA InputExcuses ==
  ASSUME Typed, NEW pdu \in Pdus, Input(pdu)
  PROVE  /\ \A n \in 0 .. Len(queue) : Excused(n) \subseteq Excused(n)'
         /\ \A i \in DOMAIN queue' :
              \/ i \in DOMAIN queue /\ queue'[i] = queue[i]
              \/ queue'[i].type = "press" => Key(queue'[i]) \in held'
<1> DEFINE e == EventOf(pdu)
<1>1. queue \in Seq(Events) /\ e \in Events
  BY DEF Typed, Events
<1>2. \/ queue' = queue /\ (elected => e \in {NoEvent, Failure})
      \/ queue' = Append(queue, e) /\ elected /\ Len(queue) < MaxQueue
  BY DEF Input
<1>3. /\ e.type = "press" => held' = held \cup {Key(e)}
      /\ e.type = "release" => held' = held \ {Key(e)} /\ (~elected => lost' = lost \cup {Key(e)})
      /\ e.type \notin {"press", "release"} => held' = held
      /\ e.type # "release" \/ elected => lost' = lost
  BY DEF Input
<1> HIDE DEF e, Events
<1>4. CASE queue' = queue /\ (elected => e \in {NoEvent, Failure})
  <2>1. held \cup lost \subseteq held' \cup lost'
    BY <1>3, <1>4 DEF NoEvent, Failure
  <2>2. \A n : Releasing(n)' = Releasing(n)
    BY <1>4 DEF Releasing
  <2> QED
    BY <1>4, <2>1, <2>2 DEF Excused
<1>5. CASE queue' = Append(queue, e)
  <2>1. /\ DOMAIN queue = 1 .. Len(queue) /\ DOMAIN queue' = 1 .. (Len(queue) + 1)
        /\ Len(queue) \in Nat /\ queue'[Len(queue) + 1] = e
        /\ \A i \in DOMAIN queue : queue'[i] = queue[i]
    BY <1>1, <1>5
  <2>2. ASSUME NEW n \in 0 .. Len(queue) PROVE Releasing(n) \subseteq Releasing(n)'
    <3>1. ASSUME NEW i \in DOMAIN queue, i > n, queue[i].type = "release"
          PROVE  i \in DOMAIN queue' /\ queue'[i] = queue[i]
      BY <2>1
    <3> QED
      BY <3>1 DEF Releasing
  <2>3. ASSUME NEW n \in 0 .. Len(queue), e.type = "release" PROVE Key(e) \in Releasing(n)'
    <3>1. Len(queue) + 1 \in DOMAIN queue' /\ Len(queue) + 1 > n
      BY <2>1
    <3> QED
      BY <2>1, <2>3, <3>1 DEF Releasing
  <2>4. held \cup lost \subseteq held' \cup lost' \cup (IF e.type = "release" THEN {Key(e)} ELSE {})
    BY <1>3
  <2>5. ASSUME NEW n \in 0 .. Len(queue) PROVE Excused(n) \subseteq Excused(n)'
    BY <2>2, <2>3, <2>4 DEF Excused
  <2>6. ASSUME NEW i \in DOMAIN queue', i \notin DOMAIN queue
        PROVE  queue'[i].type = "press" => Key(queue'[i]) \in held'
    <3>1. i = Len(queue) + 1
      BY <2>1, <2>6
    <3> QED
      BY <1>3, <2>1, <3>1
  <2> QED
    BY <2>1, <2>5, <2>6
<1> QED
  BY <1>2, <1>4, <1>5

\* The queue without its first event: what was behind n + 1 is behind n.
LEMMA DeliverExcuses ==
  ASSUME Typed, queue # <<>>, queue' = Tail(queue)
  PROVE  /\ \A i \in DOMAIN queue' : i + 1 \in DOMAIN queue /\ queue'[i] = queue[i + 1]
         /\ \A n \in Nat : Releasing(n)' = Releasing(n + 1)
         /\ Releasing(0) \subseteq
              Releasing(1) \cup (IF Head(queue).type = "release" THEN {Key(Head(queue))} ELSE {})
         /\ 1 \in DOMAIN queue /\ Head(queue) = queue[1] /\ DOMAIN queue' \subseteq Nat
<1> HIDE DEF Events
<1>1. queue \in Seq(Events)
  BY DEF Typed
<1>2. /\ Len(queue) \in Nat \ {0} /\ DOMAIN queue = 1 .. Len(queue)
      /\ DOMAIN queue' = 1 .. (Len(queue) - 1)
      /\ Head(queue) = queue[1]
      /\ \A i \in 1 .. (Len(queue) - 1) : queue'[i] = queue[i + 1]
  <2>1. Head(queue) = queue[1]
    BY <1>1
  <2>2. Len(queue) \in Nat \ {0} /\ DOMAIN queue = 1 .. Len(queue)
    BY <1>1
  <2>3. Tail(queue) \in Seq(Events) /\ Len(Tail(queue)) = Len(queue) - 1
    BY <1>1, HeadTailProperties
  <2>4. \A i \in 1 .. Len(Tail(queue)) : Tail(queue)[i] = queue[i + 1]
    BY <1>1, HeadTailProperties
  <2>5. DOMAIN Tail(queue) = 1 .. (Len(queue) - 1)
    BY <2>3
  <2> QED
    BY <2>1, <2>2, <2>3, <2>4, <2>5
<1>3. ASSUME NEW i \in DOMAIN queue' PROVE i + 1 \in DOMAIN queue /\ queue'[i] = queue[i + 1]
  BY <1>2
<1>4. ASSUME NEW n \in Nat PROVE Releasing(n)' = Releasing(n + 1)
  <2>1. ASSUME NEW k \in Releasing(n)' PROVE k \in Releasing(n + 1)
    <3>1. PICK i \in DOMAIN queue' : i > n /\ queue'[i].type = "release" /\ k = Key(queue'[i])
      BY <2>1 DEF Releasing
    <3>2. i + 1 \in DOMAIN queue /\ i + 1 > n + 1 /\ queue[i + 1] = queue'[i]
      BY <1>2, <1>3, <3>1
    <3> QED
      BY <3>1, <3>2 DEF Releasing
  <2>2. ASSUME NEW k \in Releasing(n + 1) PROVE k \in Releasing(n)'
    <3>1. PICK i \in DOMAIN queue : i > n + 1 /\ queue[i].type = "release" /\ k = Key(queue[i])
      BY <2>2 DEF Releasing
    <3>2. i - 1 \in DOMAIN queue' /\ i - 1 > n /\ queue'[i - 1] = queue[i]
      BY <1>2, <3>1
    <3> QED
      BY <3>1, <3>2 DEF Releasing
  <2> QED
    BY <2>1, <2>2
<1>5. ASSUME NEW k \in Releasing(0), k \notin Releasing(1)
      PROVE  Head(queue).type = "release" /\ k = Key(Head(queue))
  <2>1. PICK i \in DOMAIN queue : i > 0 /\ queue[i].type = "release" /\ k = Key(queue[i])
    BY <1>5 DEF Releasing
  <2>2. ~ i > 1
    BY <1>5, <2>1 DEF Releasing
  <2>3. i = 1
    BY <1>2, <2>1, <2>2
  <2> QED
    BY <1>2, <2>1, <2>3
<1> QED
  BY <1>2, <1>3, <1>4, <1>5

\* What a key of the client is to the compositor does not change with the session.
LEMMA TouchesStay == ASSUME mode' = mode, NEW k PROVE Touches(k)' = Touches(k)
  BY DEF Touches, PortalTouches, PlasmaTouches

\* A step that leaves the queue and the keys alone.
LEMMA StuckStays ==
  ASSUME StuckInv, UNCHANGED <<mode, queue, pressed, held, lost>>, connection # "gone"
  PROVE  StuckInv'
<1>1. \A n : Excused(n)' = Excused(n)
  BY DEF Excused, Releasing
<1> QED
  BY <1>1, TouchesStay DEF StuckInv

\* Every press has its excuse, in every step.
LEMMA NextStuckInv == Typed /\ LifeInv /\ StuckInv /\ [Next]_vars => StuckInv'
<1> SUFFICES ASSUME Typed, LifeInv, StuckInv, [Next]_vars, connection' # "gone" PROVE StuckInv'
  BY DEF StuckInv
<1> HIDE DEF Events
<1>1. CASE NewConnection
  BY <1>1, StuckStays DEF NewConnection
<1>2. CASE Answer
  <2>1. UNCHANGED <<mode, queue, pressed, held, lost>> /\ connection # "gone"
    BY <1>2, AnswerShape
  <2> QED
    BY <2>1, StuckStays
<1>3. CASE SourceCloses
  <2>1. UNCHANGED <<mode, queue, pressed, held, lost>> /\ connection # "gone"
    BY <1>3 DEF SourceCloses
  <2> QED
    BY <2>1, StuckStays
<1>4. CASE SizeChanged
  <2>1. UNCHANGED <<mode, queue, pressed, held, lost, connection>>
    BY <1>4 DEF SizeChanged
  <2> QED
    BY <2>1, StuckStays
<1>5. ASSUME NEW r \in Requesters, Embedder(r) PROVE StuckInv'
  <2>1. UNCHANGED <<mode, queue, pressed, held, lost, connection>>
    BY <1>5 DEF Embedder
  <2> QED
    BY <2>1, StuckStays
<1>6. ASSUME NEW pdu \in Pdus, Input(pdu) PROVE StuckInv'
  <2>1. UNCHANGED <<mode, pressed>> /\ connection # "gone"
    BY <1>6 DEF Input
  <2>2. DOMAIN queue \subseteq 0 .. Len(queue) /\ 0 \in 0 .. Len(queue)
    BY DEF Typed
  <2>3. Excused(0) \subseteq Excused(0)'
    BY <1>6, <2>2, InputExcuses
  <2>4. pressed' \subseteq UNION {Touches(k) : k \in Excused(0)'}
    BY <2>1, <2>3 DEF StuckInv
  <2>5. ASSUME NEW i \in DOMAIN queue', queue'[i].type = "press"
        PROVE  Key(queue'[i]) \in Excused(i)'
    <3>1. CASE i \in DOMAIN queue /\ queue'[i] = queue[i]
      <4>1. Key(queue[i]) \in Excused(i)
        BY <2>1, <2>5, <3>1 DEF StuckInv
      <4> QED
        BY <1>6, <2>2, <3>1, <4>1, InputExcuses
    <3>2. CASE Key(queue'[i]) \in held'
      BY <3>2 DEF Excused
    <3> QED
      BY <1>6, <2>5, <3>1, <3>2, InputExcuses
  <2> QED
    BY <2>1, <2>4, <2>5, TouchesStay DEF StuckInv
<1>7. CASE setEnabled
  <2>1. UNCHANGED <<mode, queue, pressed, held, lost, connection>>
    BY <1>7 DEF setEnabled
  <2> QED
    BY <1>7, <2>1, StuckStays DEF setEnabled
<1>8. CASE StreamEnabled
  <2> DEFINE new == [type |-> "changed"]
  <2>1. /\ UNCHANGED <<mode, pressed, held, lost>> /\ connection # "gone"
        /\ queue' = Append(queue, new) /\ new \in Events /\ queue \in Seq(Events)
    BY <1>8 DEF StreamEnabled, Typed, Events
  <2>2. new.type = "changed"
    OBVIOUS
  <2> HIDE DEF new
  <2>3. /\ DOMAIN queue = 1 .. Len(queue) /\ DOMAIN queue' = 1 .. (Len(queue) + 1)
        /\ queue'[Len(queue) + 1] = new /\ Len(queue) \in Nat
        /\ \A i \in DOMAIN queue : queue'[i] = queue[i]
    BY <2>1
  <2>4. ASSUME NEW n PROVE Excused(n) \subseteq Excused(n)'
    BY <2>1, <2>3 DEF Excused, Releasing
  <2>5. pressed' \subseteq UNION {Touches(k) : k \in Excused(0)'}
    BY <2>1, <2>4 DEF StuckInv
  <2>6. ASSUME NEW i \in DOMAIN queue', queue'[i].type = "press"
        PROVE  Key(queue'[i]) \in Excused(i)'
    <3>1. i \in DOMAIN queue /\ queue'[i] = queue[i]
      BY <2>2, <2>3, <2>6
    <3> QED
      BY <2>1, <2>4, <2>6, <3>1 DEF StuckInv
  <2> QED
    BY <2>1, <2>5, <2>6, TouchesStay DEF StuckInv
<1>9. CASE Deliver
  <2> DEFINE e == Head(queue)
  <2>1. UNCHANGED <<mode, held>> /\ connection # "gone" /\ queue # <<>> /\ queue' = Tail(queue)
    BY <1>9 DEF Deliver
  <2>2. /\ e.type = "press" => pressed' \subseteq pressed \cup Touches(Key(e))
        /\ e.type = "release" =>
             pressed' = pressed \ Touches(Key(e)) \/ (pressed' = pressed /\ Key(e) \in lost')
        /\ e.type \notin {"press", "release"} => pressed' = pressed
        /\ lost \subseteq lost'
    <3>1. CASE e.type = "changed"
      BY <1>9, <3>1 DEF Deliver
    <3>2. CASE e.type # "changed"
      <4>1. sendEvent(e)
        BY <1>9, <3>2 DEF Deliver
      <4> HIDE DEF e
      <4>2. /\ e.type = "press" => pressed' \in {pressed, pressed \cup Touches(Key(e))}
            /\ e.type \notin {"press", "release"} => pressed' = pressed
        BY <4>1 DEF sendEvent
      <4>3. ASSUME e.type = "release"
            PROVE  pressed' = pressed \ Touches(Key(e)) \/ (pressed' = pressed /\ Key(e) \in lost')
        <5>1. Taken => pressed' = pressed \ Touches(Key(e))
          BY <4>1, <4>3 DEF sendEvent, Lifts
        <5>2. ~Taken => pressed' = pressed /\ Key(e) \in lost'
          BY <4>1, <4>3 DEF sendEvent
        <5> QED
          BY <5>1, <5>2
      <4>4. lost \subseteq lost'
        BY <4>1 DEF sendEvent
      <4> QED
        BY <4>2, <4>3, <4>4
    <3> QED
      BY <3>1, <3>2
  <2> HIDE DEF e
  <2>3. ASSUME NEW n \in Nat PROVE Excused(n + 1) \subseteq Excused(n)'
    BY <2>1, <2>2, <2>3, DeliverExcuses DEF Excused
  <2>4. Excused(1) \subseteq Excused(0)'
    BY <2>3, 0 + 1 = 1
  <2>5. Excused(0) \subseteq Excused(0)' \cup (IF e.type = "release" THEN {Key(e)} ELSE {})
    BY <2>1, <2>4, DeliverExcuses DEF Excused, e
  <2>6. ASSUME NEW x \in pressed' PROVE \E k \in Excused(0)' : x \in Touches(k)
    <3>1. CASE x \in pressed
      <4>1. PICK k \in Excused(0) : x \in Touches(k)
        BY <2>1, <3>1 DEF StuckInv
      <4>2. CASE k \in Excused(0)'
        BY <4>1, <4>2
      <4>3. CASE e.type = "release" /\ k = Key(e)
        <5>1. pressed' = pressed /\ Key(e) \in lost'
          BY <2>2, <2>6, <4>1, <4>3
        <5>2. k \in Excused(0)'
          BY <4>3, <5>1 DEF Excused
        <5> QED
          BY <4>1, <5>2
      <4> QED
        BY <2>5, <4>2, <4>3
    <3>2. CASE x \notin pressed
      <4>1. e.type = "press" /\ x \in Touches(Key(e))
        BY <2>2, <2>6, <3>2
      <4>2. Key(e) \in Excused(1)
        BY <2>1, <4>1, DeliverExcuses DEF StuckInv, e
      <4> QED
        BY <2>4, <4>1, <4>2
    <3> QED
      BY <3>1, <3>2
  <2>7. ASSUME NEW i \in DOMAIN queue', queue'[i].type = "press"
        PROVE  Key(queue'[i]) \in Excused(i)'
    <3>1. i \in Nat /\ i + 1 \in DOMAIN queue /\ queue'[i] = queue[i + 1]
      BY <2>1, DeliverExcuses
    <3>2. Key(queue[i + 1]) \in Excused(i + 1)
      BY <2>1, <2>7, <3>1 DEF StuckInv
    <3> QED
      BY <2>3, <3>1, <3>2
  <2>8. pressed' \subseteq UNION {Touches(k) : k \in Excused(0)'}
    BY <2>6
  <2> QED
    BY <2>1, <2>7, <2>8, TouchesStay DEF StuckInv
<1>10. CASE Destroy
  BY <1>10 DEF Destroy
<1>11. CASE LateResponse
  <2>1. UNCHANGED <<mode, queue, pressed, held, lost, connection>>
    BY <1>11 DEF LateResponse
  <2> QED
    BY <2>1, StuckStays
<1>12. CASE UNCHANGED vars
  BY <1>12, StuckStays DEF vars
<1> QED
  BY <1>1, <1>2, <1>3, <1>4, <1>5, <1>6, <1>7, <1>8, <1>9, <1>10, <1>11, <1>12 DEF Next

\* Nothing stays pressed in the compositor but what the client holds, unless its
\* release came while events were not let through: presses and releases reach the
\* session in the order they were sent, and a release lifts all that its press
\* pressed (InputHandler, sendEvent).
THEOREM AlwaysNothingStuck == Spec => []NothingStuck
<1>1. Init => StuckInv
  <2>1. ASSUME Init PROVE pressed = {} /\ DOMAIN queue = {}
    BY <2>1 DEF Init
  <2> QED
    BY <2>1 DEF StuckInv
<1>2. SessionIInv /\ StuckInv /\ [Next]_vars => StuckInv'
  BY NextStuckInv DEF SessionIInv
<1>3. StuckInv => NothingStuck
  <2>1. queue = <<>> => Excused(0) = held \cup lost
    BY DEF Excused, Releasing
  <2> QED
    BY <2>1 DEF StuckInv, NothingStuck
<1> QED
  BY InvAlways, <1>1, <1>2, <1>3, PTL DEF Spec

\* A wheel PDU scrolls the way its nine bits say, for every rotation.
THEOREM AlwaysWheelAsSigned == Spec => []WheelAsSigned
<1>1. ASSUME NEW a \in Int, NEW s \in Int, a = -s,
             NEW steps, steps = IF a >= 0 THEN a \div 120 ELSE -((-a) \div 120)
      PROVE  /\ s >= 0 => steps <= 0 /\ -(120 * steps) <= s /\ s < 120 * (1 - steps)
             /\ s <= 0 => steps >= 0 /\ 120 * steps <= -s /\ -s < 120 * (1 + steps)
  BY <1>1
<1>2. WheelAsSigned
  <2> SUFFICES ASSUME NEW rotation \in 0 .. 255, NEW negative \in {{}, {"negative"}}
               PROVE  LET signed == IF negative = {} THEN rotation ELSE rotation - 256
                          steps == WheelSteps(mouseEvent({"wheel"} \cup negative, rotation))
                      IN /\ signed >= 0 => steps <= 0 /\ -(120 * steps) <= signed
                                           /\ signed < 120 * (1 - steps)
                         /\ signed <= 0 => steps >= 0 /\ 120 * steps <= -signed
                                           /\ -signed < 120 * (1 + steps)
    BY DEF WheelAsSigned
  <2> DEFINE signed == IF negative = {} THEN rotation ELSE rotation - 256
             e == mouseEvent({"wheel"} \cup negative, rotation)
  <2>1. e.angle = Angle({"wheel"} \cup negative, rotation)
    BY DEF mouseEvent, Event
  <2>2. Angle({"wheel"} \cup negative, rotation) = -signed
    BY DEF Angle, Mask
  <2>3. signed \in Int /\ e.angle \in Int /\ e.angle = -signed
    BY <2>1, <2>2
  <2> HIDE DEF e, signed
  <2>4. WheelSteps(e) = IF e.angle >= 0 THEN e.angle \div 120 ELSE -((-e.angle) \div 120)
    BY DEF WheelSteps
  <2> DEFINE steps == WheelSteps(e)
  <2> HIDE DEF steps
  <2>5. /\ signed >= 0 => steps <= 0 /\ -(120 * steps) <= signed /\ signed < 120 * (1 - steps)
        /\ signed <= 0 => steps >= 0 /\ 120 * steps <= -signed /\ -signed < 120 * (1 + steps)
    BY <1>1, <2>3, <2>4 DEF steps
  <2> QED
    BY <2>5 DEF steps, e, signed
<1> QED
  BY <1>2, PTL

=============================================================================
