---------------------------- MODULE RdpConnection ----------------------------
(***************************************************************************)
(* The life of a KRdp::RdpConnection (src/RdpConnection.cpp) and of the    *)
(* server that owns it (src/Server.cpp): the main thread with its event    *)
(* queue, the session thread, and the clipboard channel's thread, which    *)
(* calls into the main thread and waits.  One connection: connections      *)
(* share nothing but the main thread.                                      *)
(*                                                                         *)
(* The components a connection owns appear as the channels it has opened;  *)
(* modules of their own describe them.  An error of the embedder's desktop *)
(* session closes the connection (server/SessionController.cpp).           *)
(***************************************************************************)
EXTENDS Integers, Sequences, FiniteSets

CONSTANTS
  MaxInbox,       \* bound: PDUs of the client under way
  MaxOutputs,     \* bound: changes of the client's wish to get output
  MaxCalls        \* bound: PDUs on the clipboard channel

ASSUME ConnectionAssumption == {MaxInbox, MaxOutputs, MaxCalls} \subseteq Nat

VARIABLES
  main,        \* main thread: start, loop, destroy, join, exited, crashed
  quitting,    \* whether the event loop has been left
  queue,       \* the main thread's event queue
  object,      \* the connection: none, alive, gone
  state,       \* RdpConnection::State
  peer,        \* none, bare (without context), ready, freed
  thread,      \* session thread: none, done, or where it is
  stopRequested,
  connected,   \* peer->connected
  channels,    \* channels with a context
  enabled,     \* videoStream->enabled()
  drdynvc,     \* NONE, opening, READY
  channelEvent,
  clip,        \* clipboard thread: none, idle, blocked on the main thread
  closeSent,   \* whether peer->Close has told the client to go
  failed,      \* whether the embedder's session has failed
  client,      \* external: none, open, gone
  joined,      \* external: the static channels the client joins when it connects
  inbox,       \* external: PDUs of the client, reliable and in order
  wish,        \* history: the last wish for output handled
  outputs, calls \* history: bounds

mainVars    == <<main, quitting, queue, object, failed>>
sessionVars == <<thread, connected, channels, enabled, drdynvc, channelEvent, wish>>
clientVars  == <<client, joined, inbox, outputs>>
clipVars    == <<clip, calls>>
vars == <<mainVars, state, peer, stopRequested, sessionVars, closeSent, clipVars, clientVars>>

Init ==
  /\ main = "start" /\ quitting = FALSE /\ queue = <<>> /\ object = "none" /\ failed = FALSE
  /\ state = "Initial" /\ peer = "none" /\ thread = "none" /\ stopRequested = FALSE
  /\ connected = FALSE /\ channels = {} /\ enabled = FALSE
  /\ drdynvc = "NONE" /\ channelEvent = FALSE /\ wish = "allow"
  /\ clip = "none" /\ calls = 0 /\ closeSent = FALSE
  /\ client = "none" /\ joined \in SUBSET {"drdynvc", "cliprdr"}
  /\ inbox = <<>> /\ outputs = 0

-----------------------------------------------------------------------------
(* Main thread: the server *)

\* Server::start fails without certificate and key or when it cannot listen.
Start ==
  /\ main = "start" /\ main' \in {"loop", "exited"}
  /\ UNCHANGED <<quitting, queue, object, failed, state, peer, stopRequested,
                 sessionVars, closeSent, clipVars, clientVars>>

\* incomingConnection and the constructor, which queues initialize.
IncomingConnection ==
  /\ main = "loop" /\ object = "none" /\ client = "none"
  /\ object' = "alive" /\ queue' = Append(queue, "initialize")
  /\ client' = "open"
  /\ UNCHANGED <<main, quitting, failed, state, peer, stopRequested, sessionVars,
                 closeSent, clipVars, joined, inbox, outputs>>

\* The event loop ends; the server and with it the connection is destroyed.
Quit ==
  /\ main = "loop"
  /\ quitting' = TRUE
  /\ main' = IF object = "alive" THEN "destroy" ELSE "exited"
  /\ UNCHANGED <<queue, object, failed, state, peer, stopRequested, sessionVars,
                 closeSent, clipVars, clientVars>>

(* Main thread: events of the connection *)

Event(e) == main = "loop" /\ queue # <<>> /\ Head(queue) = e /\ queue' = Tail(queue)

\* initialize: every early return leaves the connection Starting.
Initialize ==
  /\ Event("initialize")
  /\ state' = "Starting"
  /\ \E p \in {"none", "bare", "ready"}, t \in {"none", "start"} :
       /\ t = "start" => p = "ready"
       /\ peer' = p /\ thread' = t
  /\ UNCHANGED <<main, quitting, object, failed, stopRequested, connected, channels,
                 enabled, drdynvc, channelEvent, wish, closeSent, clipVars, clientVars>>

\* VideoStream::closed, emitted by the session thread.
StreamClosed ==
  /\ Event("streamClosed")
  /\ closeSent' = (closeSent \/ state \in {"Running", "Streaming"})
  /\ UNCHANGED <<main, quitting, object, failed, state, peer, stopRequested,
                 sessionVars, clipVars, clientVars>>

\* A call of the clipboard's thread has been handled.
ClipboardCall ==
  /\ Event("clipboard")
  /\ clip' = "idle"
  /\ UNCHANGED <<main, quitting, object, failed, state, peer, stopRequested,
                 sessionVars, closeSent, calls, clientVars>>

\* stateChanged(Closed): the server closes the connection and drops it.
StateClosed ==
  /\ Event("Closed")
  /\ closeSent' = TRUE /\ main' = "destroy"
  /\ UNCHANGED <<quitting, object, failed, state, peer, stopRequested,
                 sessionVars, clipVars, clientVars>>

\* Mutant: close does not tell the client.
NotTold == closeSent
Told    == TRUE

\* SessionWrapper::sessionError: close() without a peer is a null pointer call.
SessionError ==
  /\ main = "loop" /\ object = "alive" /\ ~failed
  /\ failed' = TRUE
  /\ IF peer = "ready" THEN closeSent' = Told /\ UNCHANGED main
                       ELSE main' = "crashed" /\ UNCHANGED closeSent
  /\ UNCHANGED <<quitting, queue, object, state, peer, stopRequested,
                 sessionVars, clipVars, clientVars>>

\* Mutant: the destructor leaves it at the stop request.
OnlyStopped == closeSent
ToldIfStreaming == closeSent \/ state = "Streaming"

\* ~RdpConnection, up to the join
Destroy ==
  /\ main = "destroy" /\ main' = "join"
  /\ closeSent' = ToldIfStreaming
  /\ stopRequested' = (thread # "none")
  /\ UNCHANGED <<quitting, queue, object, failed, state, peer, sessionVars,
                 clipVars, clientVars>>

\* Mutant: the destructor does not wait for the session thread.
Detached == TRUE
Joinable == thread \in {"none", "done"}

\* ~RdpConnection, from the join; its pending events go with it.
Join ==
  /\ main = "join" /\ Joinable
  /\ main' = IF quitting THEN "exited" ELSE "loop"
  /\ object' = "gone" /\ queue' = <<>>
  /\ peer' = IF peer = "none" THEN "none" ELSE "freed"
  /\ UNCHANGED <<quitting, failed, state, stopRequested, sessionVars, closeSent,
                 clipVars, clientVars>>

-----------------------------------------------------------------------------
(* Session thread: run *)

Go(from, to) == thread = from /\ thread' \in to

Run ==
  /\ Go("start", {"check"}) /\ state' = "Running"
  /\ UNCHANGED <<mainVars, peer, stopRequested, connected, channels, enabled,
                 drdynvc, channelEvent, wish, closeSent, clipVars, clientVars>>

\* The loop's condition and the event handles, which may not be had.
Check ==
  /\ Go("check", IF stopRequested THEN {"closing"} ELSE {"wait", "closing"})
  /\ UNCHANGED <<mainVars, state, peer, stopRequested, connected, channels, enabled,
                 drdynvc, channelEvent, wish, closeSent, clipVars, clientVars>>

\* WaitForMultipleObjects without a timeout; a stop request does not end it.
Wait ==
  /\ Go("wait", {"read"})
  /\ inbox # <<>> \/ client = "gone" \/ channelEvent
  /\ UNCHANGED <<mainVars, state, peer, stopRequested, connected, channels, enabled,
                 drdynvc, channelEvent, wish, closeSent, clipVars, clientVars>>

\* The handlers CheckFileDescriptor calls.  onPostConnect opens the audio
\* channel if it can, onCapabilities or the protocol may refuse the client.
Handle(pdu) ==
  CASE pdu = "connect" ->
         /\ \/ /\ connected' = TRUE /\ thread' = "dynamic"
               /\ channels' \in {channels, channels \cup {"audio"}}
            \/ thread' = "closing" /\ UNCHANGED <<connected, channels>>
         /\ UNCHANGED <<enabled, drdynvc, wish>>
    [] pdu = "opened" ->
         /\ drdynvc' = "READY" /\ thread' = "dynamic"
         /\ UNCHANGED <<connected, channels, enabled, wish>>
    [] OTHER ->  \* onSuppressOutput
         /\ enabled' = (pdu = "allow") /\ wish' = pdu /\ thread' = "dynamic"
         /\ UNCHANGED <<connected, channels, drdynvc>>

\* CheckFileDescriptor
Read ==
  /\ thread = "read"
  /\ IF inbox # <<>> THEN Handle(Head(inbox)) /\ inbox' = Tail(inbox)
     ELSE /\ thread' = IF client = "gone" THEN "closing" ELSE "dynamic"
          /\ UNCHANGED <<connected, channels, enabled, drdynvc, wish, inbox>>
  /\ UNCHANGED <<mainVars, state, peer, stopRequested, channelEvent, closeSent,
                 clipVars, client, joined, outputs>>

\* Mutant: nothing makes the channel manager open drdynvc.
EventKept == channelEvent
EventSet  == TRUE

\* The dynamic channels of a client that has joined drdynvc: displayControl->initialize
\* and videoStream->initialize may fail, the first with its context freed again.
OpenDynamicChannels ==
  /\ thread = "dynamic"
  /\ LET ours == connected /\ "drdynvc" \in joined
     IN /\ IF ours /\ drdynvc = "READY"
             THEN \/ /\ thread' = "channel" /\ state' = "Streaming" /\ enabled' = TRUE
                     /\ channels' = channels \cup {"display", "video"}
                  \/ /\ thread' = "closing" /\ UNCHANGED <<state, enabled>>
                     /\ channels' \in {channels, channels \cup {"display"},
                                       channels \cup {"display", "video"}}
             ELSE thread' = "channel" /\ UNCHANGED <<state, enabled, channels>>
        /\ channelEvent' = IF ours /\ drdynvc = "NONE" THEN EventSet ELSE channelEvent
  /\ UNCHANGED <<mainVars, peer, stopRequested, connected, drdynvc, wish,
                 closeSent, clipVars, clientVars>>

\* WTSVirtualChannelManagerCheckFileDescriptor, which also opens drdynvc.
CheckChannels ==
  /\ Go("channel", IF channelEvent THEN {"clipboard", "closing"} ELSE {"clipboard"})
  /\ channelEvent' = FALSE
  /\ drdynvc' = IF channelEvent /\ connected /\ drdynvc = "NONE" THEN "opening" ELSE drdynvc
  /\ UNCHANGED <<mainVars, state, peer, stopRequested, connected, channels, enabled,
                 wish, closeSent, clipVars, clientVars>>

\* clipboard->initialize, and networkDetection->update
OpenClipboard ==
  /\ thread = "clipboard"
  /\ IF connected /\ "cliprdr" \in joined /\ "clipboard" \notin channels
       THEN \/ /\ thread' = "check" /\ clip' = "idle"
               /\ channels' = channels \cup {"clipboard"}
            \/ /\ thread' = "closing" /\ UNCHANGED clip
               /\ channels' \in {channels, channels \cup {"clipboard"}}
       ELSE thread' = "check" /\ UNCHANGED <<channels, clip>>
  /\ UNCHANGED <<mainVars, state, peer, stopRequested, connected, enabled, drdynvc,
                 channelEvent, wish, closeSent, calls, clientVars>>

(* Session thread: onClose *)

\* displayControl->close and audioStream->close
CloseChannels ==
  /\ Go("closing", {"stopClipboard"})
  /\ channels' = channels \ {"display", "audio"}
  /\ UNCHANGED <<mainVars, state, peer, stopRequested, connected, enabled, drdynvc,
                 channelEvent, wish, closeSent, clipVars, clientVars>>

\* clipboard->close: Stop waits for the channel's thread.
CloseClipboard ==
  /\ Go("stopClipboard", {"closeStream"})
  /\ clip # "blocked"
  /\ channels' = channels \ {"clipboard"} /\ clip' = "none"
  /\ UNCHANGED <<mainVars, state, peer, stopRequested, connected, enabled, drdynvc,
                 channelEvent, wish, closeSent, calls, clientVars>>

CloseStream ==
  /\ Go("closeStream", {"emitClosed"})
  /\ queue' = IF "video" \in channels THEN Append(queue, "streamClosed") ELSE queue
  /\ channels' = channels \ {"video"}
  /\ UNCHANGED <<main, quitting, object, failed, state, peer, stopRequested, connected,
                 enabled, drdynvc, channelEvent, wish, closeSent, clipVars, clientVars>>

EmitClosed ==
  /\ Go("emitClosed", {"done"})
  /\ state' = "Closed" /\ queue' = Append(queue, "Closed")
  /\ UNCHANGED <<main, quitting, object, failed, peer, stopRequested, connected,
                 channels, enabled, drdynvc, channelEvent, wish, closeSent, clipVars,
                 clientVars>>

SessionThread ==
  \/ Run \/ Check \/ Wait \/ Read \/ OpenDynamicChannels \/ CheckChannels \/ OpenClipboard
  \/ CloseChannels \/ CloseClipboard \/ CloseStream \/ EmitClosed

-----------------------------------------------------------------------------
(* Clipboard thread and client *)

\* A PDU of the client: a blocking call of the main thread.
ClipboardPdu ==
  /\ clip = "idle" /\ client = "open" /\ calls < MaxCalls
  /\ clip' = "blocked" /\ calls' = calls + 1
  /\ queue' = Append(queue, "clipboard")
  /\ UNCHANGED <<main, quitting, object, failed, state, peer, stopRequested,
                 sessionVars, closeSent, clientVars>>

ClientSends(pdu) ==
  /\ client = "open" /\ Len(inbox) < MaxInbox
  /\ inbox' = Append(inbox, pdu)
  /\ UNCHANGED <<mainVars, state, peer, stopRequested, sessionVars, closeSent,
                 clipVars, client, joined>>

Once(pdu) == (\A i \in DOMAIN inbox : inbox[i] # pdu) /\ UNCHANGED outputs /\ ClientSends(pdu)

Connect == ~connected /\ Once("connect")
AnswerOpening == drdynvc = "opening" /\ Once("opened")
ChangeOutput(pdu) == connected /\ outputs < MaxOutputs /\ outputs' = outputs + 1 /\ ClientSends(pdu)

\* The client goes, or its connection breaks.
Leave ==
  /\ client = "open" /\ client' = "gone"
  /\ UNCHANGED <<mainVars, state, peer, stopRequested, sessionVars, closeSent,
                 clipVars, joined, inbox, outputs>>

-----------------------------------------------------------------------------
MainThread ==
  \/ Start \/ Initialize \/ StreamClosed \/ ClipboardCall \/ StateClosed \/ Destroy \/ Join

Next ==
  \/ MainThread \/ IncomingConnection \/ SessionError \/ Quit
  \/ SessionThread
  \/ ClipboardPdu
  \/ \E pdu \in {"suppress", "allow"} : ChangeOutput(pdu)
  \/ Connect \/ AnswerOpening
  \/ Leave

Spec == Init /\ [][Next]_vars

\* Threads are scheduled and the event loop turns.  The client answers the
\* channel handshake, and goes when it is told to; it need not even connect.
Fairness ==
  /\ WF_vars(MainThread) /\ WF_vars(SessionThread)
  /\ WF_vars(AnswerOpening) /\ WF_vars(closeSent /\ Leave)

FairSpec == Spec /\ Fairness

-----------------------------------------------------------------------------
TypeOK ==
  /\ main \in {"start", "loop", "destroy", "join", "exited", "crashed"}
  /\ {quitting, stopRequested, connected, enabled, channelEvent, closeSent, failed} \subseteq BOOLEAN
  /\ queue \in Seq({"initialize", "streamClosed", "clipboard", "Closed"}) /\ Len(queue) <= 3
  /\ object \in {"none", "alive", "gone"}
  /\ state \in {"Initial", "Starting", "Running", "Streaming", "Closed"}
  /\ peer \in {"none", "bare", "ready", "freed"}
  /\ thread \in {"none", "start", "check", "wait", "read", "dynamic", "channel", "clipboard",
                 "closing", "stopClipboard", "closeStream", "emitClosed", "done"}
  /\ channels \subseteq {"audio", "display", "video", "clipboard"}
  /\ drdynvc \in {"NONE", "opening", "READY"} /\ clip \in {"none", "idle", "blocked"}
  /\ client \in {"none", "open", "gone"} /\ joined \subseteq {"drdynvc", "cliprdr"}
  /\ wish \in {"suppress", "allow"}

\* The session thread works on a peer that exists, in a connection that exists,
\* whoever destroys the connection and whenever.
ThreadHasPeer == thread \notin {"none", "done"} => object = "alive" /\ peer = "ready"

\* No channel outlives the peer whose channel manager it was opened on.
ChannelsHavePeer == channels # {} => peer = "ready"

\* What the run checks of the states: all of the above.
ConnectionInv == TypeOK /\ ThreadHasPeer /\ ChannelsHavePeer

\* A connected client that has joined drdynvc gets a stream, or its connection
\* ends.  Nothing in the code ends the wait of one that has not: it keeps its
\* connection, Running, for as long as it stays.
ClientStreams ==
  connected /\ "drdynvc" \in joined ~> state \in {"Streaming", "Closed"} \/ quitting

\* When the client of a running connection has gone, the server drops the
\* connection, unless it is quitting anyway.
GoneIsDropped == client = "gone" /\ thread # "none" ~> object = "gone" \/ quitting

\* So it does when the desktop session fails under a running connection.
FailedIsDropped == failed /\ thread # "none" ~> object = "gone" \/ quitting

\* The two ways in which a running connection is lost end in the same.
LostIsDropped == GoneIsDropped /\ FailedIsDropped

\* Quitting ends although the session thread streams: the client is told to go,
\* which wakes it.  Unless the clipboard's thread waits for the main thread by
\* then, which has left its event loop to wait for the session thread.
StreamingQuitEnds ==
  main = "destroy" /\ quitting /\ state = "Streaming" ~> main = "exited" \/ clip = "blocked"

\* The dynamic channels are set up once: a wish to suppress output holds until
\* the client wants output again.
SuppressionHolds == thread = "wait" /\ wish = "suppress" => ~enabled
=============================================================================
