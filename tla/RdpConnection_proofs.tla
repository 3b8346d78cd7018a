------------------------- MODULE RdpConnection_proofs -------------------------
(***************************************************************************)
(* Proofs about RdpConnection for any number of PDUs and calls: the        *)
(* session thread always has a live connection and its peer, and no        *)
(* channel outlives the peer.  Neither is inductive.  That the destructor  *)
(* finds the thread gone needs where the connection is in each state of    *)
(* the main thread (LifeInv); that it then finds no channel needs which    *)
(* channels each step of onClose has left (ChannelInv); and that an event  *)
(* is never handled for a connection that is not the one it was queued for *)
(* needs what the event queue holds at each place of the session thread    *)
(* (QueueInv).                                                             *)
(***************************************************************************)
EXTENDS RdpConnection, TLAPS

\* Where the session thread is until the clipboard is closed.
Working == {"start", "check", "wait", "read", "dynamic", "channel", "clipboard",
            "closing", "stopClipboard"}

Threads == Working \cup {"none", "closeStream", "emitClosed", "done"}

MainTyped ==
  /\ main \in {"start", "loop", "destroy", "join", "exited", "crashed"}
  /\ quitting \in BOOLEAN /\ failed \in BOOLEAN /\ closeSent \in BOOLEAN
  /\ stopRequested \in BOOLEAN
  /\ object \in {"none", "alive", "gone"}
  /\ state \in {"Initial", "Starting", "Running", "Streaming", "Closed"}
  /\ peer \in {"none", "bare", "ready", "freed"}

SessionTyped ==
  /\ thread \in Threads
  /\ connected \in BOOLEAN /\ enabled \in BOOLEAN /\ channelEvent \in BOOLEAN
  /\ channels \subseteq {"audio", "display", "video", "clipboard"}
  /\ drdynvc \in {"NONE", "opening", "READY"} /\ clip \in {"none", "idle", "blocked"}
  /\ wish \in {"suppress", "allow"}

ClientTyped ==
  /\ client \in {"none", "open", "gone"}
  /\ joined \subseteq {"drdynvc", "cliprdr"}
  /\ inbox \in Seq({"connect", "opened", "suppress", "allow"})

\* The session thread lives between initialize and the join of the destructor.
LifeInv ==
  /\ object = "none" => main \in {"start", "loop", "exited"} /\ queue = <<>>
  /\ object = "gone" => queue = <<>> /\ thread \in {"none", "done"}
  /\ object # "alive" => thread \in {"none", "done"}
  /\ object = "none" => thread = "none"
  /\ main \in {"destroy", "join"} => object = "alive"
  /\ thread \notin {"none", "done"} => peer = "ready"

\* What is left of the channels at each step of onClose.
ChannelInv ==
  /\ thread \in {"none", "start"} => channels = {}
  /\ thread \in {"stopClipboard", "closeStream", "emitClosed", "done"} =>
       channels \cap {"display", "audio"} = {}
  /\ thread \in {"closeStream", "emitClosed", "done"} => "clipboard" \notin channels
  /\ thread \in {"emitClosed", "done"} => "video" \notin channels
  /\ clip # "none" => "clipboard" \in channels /\ thread \in Working

\* What waits for the main thread.
QueueInv ==
  /\ thread = "none" => queue \in {<<>>, <<"initialize">>}
  /\ thread \in Working => queue = IF clip = "blocked" THEN <<"clipboard">> ELSE <<>>
  /\ thread = "closeStream" => queue = <<>>
  /\ thread = "emitClosed" => queue \in {<<>>, <<"streamClosed">>}
  /\ thread = "done" =>
       queue \in {<<>>, <<"streamClosed">>, <<"Closed">>, <<"streamClosed", "Closed">>}

IInv == MainTyped /\ SessionTyped /\ ClientTyped /\ LifeInv /\ ChannelInv /\ QueueInv

USE DEF Working, Threads, Event, Go, Told, ToldIfStreaming, Joinable, EventSet,
        mainVars, sessionVars, clientVars, clipVars

LEMMA InitInv == Init => IInv
<1> SUFFICES ASSUME Init PROVE IInv
  OBVIOUS
<1>1. MainTyped
  BY DEF Init, MainTyped
<1>2. SessionTyped
  BY DEF Init, SessionTyped
<1>3. ClientTyped
  BY DEF Init, ClientTyped
<1>4. LifeInv /\ ChannelInv
  BY DEF Init, LifeInv, ChannelInv
<1>5. QueueInv
  BY DEF Init, QueueInv
<1> QED
  BY <1>1, <1>2, <1>3, <1>4, <1>5 DEF IInv

\* A queue of one event, and of two.
LEMMA Short ==
  /\ \A e : <<e>> # <<>> /\ Head(<<e>>) = e /\ Tail(<<e>>) = <<>> /\ Append(<<>>, e) = <<e>>
  /\ \A d, e : /\ <<d, e>> # <<>> /\ Head(<<d, e>>) = d /\ Tail(<<d, e>>) = <<e>>
               /\ Append(<<d>>, e) = <<d, e>>
<1>1. ASSUME NEW e
      PROVE  <<e>> # <<>> /\ Head(<<e>>) = e /\ Tail(<<e>>) = <<>> /\ Append(<<>>, e) = <<e>>
  OBVIOUS
<1>2. ASSUME NEW d, NEW e
      PROVE  /\ <<d, e>> # <<>> /\ Head(<<d, e>>) = d /\ Tail(<<d, e>>) = <<e>>
             /\ Append(<<d>>, e) = <<d, e>>
  <2>1. <<d, e>> # <<>> /\ Head(<<d, e>>) = d
    OBVIOUS
  <2>2. Tail(<<d, e>>) = <<e>>
    OBVIOUS
  <2>3. Append(<<d>>, e) = <<d, e>>
    <3>1. ASSUME NEW s, s = <<d>>, NEW t, t = <<d, e>> PROVE t = Append(s, e)
      BY <3>1
    <3> QED
      BY <3>1
  <2> QED
    BY <2>1, <2>2, <2>3
<1> QED
  BY <1>1, <1>2

\* Where the session thread is when the main thread comes to an event of it.
Due(e, p) == queue # <<>> /\ Head(queue) = e => p

LEMMA Dues ==
  ASSUME SessionTyped, LifeInv, ChannelInv, QueueInv
  PROVE  /\ Due("initialize", thread = "none" /\ Tail(queue) = <<>>)
         /\ Due("clipboard", thread \in Working /\ clip = "blocked" /\ Tail(queue) = <<>>)
         /\ Due("streamClosed", \/ thread = "emitClosed" /\ Tail(queue) = <<>>
                                \/ thread = "done" /\ Tail(queue) \in {<<>>, <<"Closed">>})
         /\ Due("Closed", thread = "done" /\ Tail(queue) = <<>>)
<1> USE DEF Due
<1>1. CASE queue = <<>>
  BY <1>1
<1>2. CASE thread = "none" /\ queue = <<"initialize">>
  <2>1. Head(queue) = "initialize" /\ Tail(queue) = <<>>
    BY <1>2, Short
  <2> QED
    BY <1>2, <2>1
<1>3. CASE thread \in Working /\ clip = "blocked" /\ queue = <<"clipboard">>
  <2>1. Head(queue) = "clipboard" /\ Tail(queue) = <<>>
    BY <1>3, Short
  <2> QED
    BY <1>3, <2>1
<1>4. CASE thread \in {"emitClosed", "done"} /\ queue = <<"streamClosed">>
  <2>1. Head(queue) = "streamClosed" /\ Tail(queue) = <<>>
    BY <1>4, Short
  <2> QED
    BY <1>4, <2>1
<1>5. CASE thread = "done" /\ queue = <<"Closed">>
  <2>1. Head(queue) = "Closed" /\ Tail(queue) = <<>>
    BY <1>5, Short
  <2> QED
    BY <1>5, <2>1
<1>6. CASE thread = "done" /\ queue = <<"streamClosed", "Closed">>
  <2>1. Head(queue) = "streamClosed" /\ Tail(queue) = <<"Closed">>
    BY <1>6, Short
  <2> QED
    BY <1>6, <2>1
<1> QED
  BY <1>1, <1>2, <1>3, <1>4, <1>5, <1>6 DEF SessionTyped, QueueInv

LEMMA NextMainTyped == MainTyped /\ [Next]_vars => MainTyped'
<1> SUFFICES ASSUME MainTyped, [Next]_vars PROVE MainTyped'
  OBVIOUS
<1>1. CASE Start
  BY <1>1 DEF Start, MainTyped
<1>2. CASE IncomingConnection
  BY <1>2 DEF IncomingConnection, MainTyped
<1>3. CASE Quit
  BY <1>3 DEF Quit, MainTyped
<1>4. CASE Initialize
  BY <1>4 DEF Initialize, MainTyped
<1>5. CASE StreamClosed
  BY <1>5 DEF StreamClosed, MainTyped
<1>6. CASE ClipboardCall
  BY <1>6 DEF ClipboardCall, MainTyped
<1>7. CASE StateClosed
  BY <1>7 DEF StateClosed, MainTyped
<1>8. CASE SessionError
  BY <1>8 DEF SessionError, MainTyped
<1>9. CASE Destroy
  BY <1>9 DEF Destroy, MainTyped
<1>10. CASE Join
  BY <1>10 DEF Join, MainTyped
<1>11. CASE Run
  BY <1>11 DEF Run, MainTyped
<1>12. CASE Check
  BY <1>12 DEF Check, MainTyped
<1>13. CASE Wait
  BY <1>13 DEF Wait, MainTyped
<1>14. CASE Read
  BY <1>14 DEF Read, Handle, MainTyped
<1>15. CASE OpenDynamicChannels
  BY <1>15 DEF OpenDynamicChannels, MainTyped
<1>16. CASE CheckChannels
  BY <1>16 DEF CheckChannels, MainTyped
<1>17. CASE OpenClipboard
  BY <1>17 DEF OpenClipboard, MainTyped
<1>18. CASE CloseChannels
  BY <1>18 DEF CloseChannels, MainTyped
<1>19. CASE CloseClipboard
  BY <1>19 DEF CloseClipboard, MainTyped
<1>20. CASE CloseStream
  BY <1>20 DEF CloseStream, MainTyped
<1>21. CASE EmitClosed
  BY <1>21 DEF EmitClosed, MainTyped
<1>22. CASE ClipboardPdu
  BY <1>22 DEF ClipboardPdu, MainTyped
<1>23. ASSUME NEW pdu \in {"suppress", "allow"}, ChangeOutput(pdu) PROVE MainTyped'
  BY <1>23 DEF ChangeOutput, ClientSends, MainTyped
<1>24. CASE Connect
  BY <1>24 DEF Connect, Once, ClientSends, MainTyped
<1>25. CASE AnswerOpening
  BY <1>25 DEF AnswerOpening, Once, ClientSends, MainTyped
<1>26. CASE Leave
  BY <1>26 DEF Leave, MainTyped
<1>27. CASE UNCHANGED vars
  BY <1>27 DEF vars, MainTyped
<1> QED
  BY <1>1, <1>2, <1>3, <1>4, <1>5, <1>6, <1>7, <1>8, <1>9,
     <1>10, <1>11, <1>12, <1>13, <1>14, <1>15, <1>16, <1>17, <1>18,
     <1>19, <1>20, <1>21, <1>22, <1>23, <1>24, <1>25, <1>26, <1>27
     DEF Next, MainThread, SessionThread

LEMMA NextSessionTyped == SessionTyped /\ ClientTyped /\ [Next]_vars => SessionTyped'
<1> SUFFICES ASSUME SessionTyped, ClientTyped, [Next]_vars PROVE SessionTyped'
  OBVIOUS
<1>1. CASE Start
  BY <1>1 DEF Start, SessionTyped
<1>2. CASE IncomingConnection
  BY <1>2 DEF IncomingConnection, SessionTyped
<1>3. CASE Quit
  BY <1>3 DEF Quit, SessionTyped
<1>4. CASE Initialize
  BY <1>4 DEF Initialize, SessionTyped
<1>5. CASE StreamClosed
  BY <1>5 DEF StreamClosed, SessionTyped
<1>6. CASE ClipboardCall
  BY <1>6 DEF ClipboardCall, SessionTyped
<1>7. CASE StateClosed
  BY <1>7 DEF StateClosed, SessionTyped
<1>8. CASE SessionError
  BY <1>8 DEF SessionError, SessionTyped
<1>9. CASE Destroy
  BY <1>9 DEF Destroy, SessionTyped
<1>10. CASE Join
  BY <1>10 DEF Join, SessionTyped
<1>11. CASE Run
  BY <1>11 DEF Run, SessionTyped
<1>12. CASE Check
  BY <1>12 DEF Check, SessionTyped
<1>13. CASE Wait
  BY <1>13 DEF Wait, SessionTyped
<1>14. CASE Read
  <2>1. CASE inbox = <<>>
    BY <1>14, <2>1 DEF Read, SessionTyped
  <2>2. CASE inbox # <<>>
    <3>1. Head(inbox) \in {"connect", "opened", "suppress", "allow"}
      BY <2>2 DEF ClientTyped
    <3>2. CASE Head(inbox) = "connect"
      BY <1>14, <2>2, <3>2 DEF Read, Handle, SessionTyped
    <3>3. CASE Head(inbox) = "opened"
      BY <1>14, <2>2, <3>3 DEF Read, Handle, SessionTyped
    <3>4. CASE Head(inbox) \in {"suppress", "allow"}
      BY <1>14, <2>2, <3>4 DEF Read, Handle, SessionTyped
    <3> QED
      BY <3>1, <3>2, <3>3, <3>4
  <2> QED
    BY <2>1, <2>2
<1>15. CASE OpenDynamicChannels
  BY <1>15 DEF OpenDynamicChannels, SessionTyped
<1>16. CASE CheckChannels
  BY <1>16 DEF CheckChannels, SessionTyped
<1>17. CASE OpenClipboard
  BY <1>17 DEF OpenClipboard, SessionTyped
<1>18. CASE CloseChannels
  BY <1>18 DEF CloseChannels, SessionTyped
<1>19. CASE CloseClipboard
  BY <1>19 DEF CloseClipboard, SessionTyped
<1>20. CASE CloseStream
  BY <1>20 DEF CloseStream, SessionTyped
<1>21. CASE EmitClosed
  BY <1>21 DEF EmitClosed, SessionTyped
<1>22. CASE ClipboardPdu
  BY <1>22 DEF ClipboardPdu, SessionTyped
<1>23. ASSUME NEW pdu \in {"suppress", "allow"}, ChangeOutput(pdu) PROVE SessionTyped'
  BY <1>23 DEF ChangeOutput, ClientSends, SessionTyped
<1>24. CASE Connect
  BY <1>24 DEF Connect, Once, ClientSends, SessionTyped
<1>25. CASE AnswerOpening
  BY <1>25 DEF AnswerOpening, Once, ClientSends, SessionTyped
<1>26. CASE Leave
  BY <1>26 DEF Leave, SessionTyped
<1>27. CASE UNCHANGED vars
  BY <1>27 DEF vars, SessionTyped
<1> QED
  BY <1>1, <1>2, <1>3, <1>4, <1>5, <1>6, <1>7, <1>8, <1>9,
     <1>10, <1>11, <1>12, <1>13, <1>14, <1>15, <1>16, <1>17, <1>18,
     <1>19, <1>20, <1>21, <1>22, <1>23, <1>24, <1>25, <1>26, <1>27
     DEF Next, MainThread, SessionThread

LEMMA NextClientTyped == ClientTyped /\ [Next]_vars => ClientTyped'
<1> SUFFICES ASSUME ClientTyped, [Next]_vars PROVE ClientTyped'
  OBVIOUS
<1>1. CASE Start
  BY <1>1 DEF Start, ClientTyped
<1>2. CASE IncomingConnection
  BY <1>2 DEF IncomingConnection, ClientTyped
<1>3. CASE Quit
  BY <1>3 DEF Quit, ClientTyped
<1>4. CASE Initialize
  BY <1>4 DEF Initialize, ClientTyped
<1>5. CASE StreamClosed
  BY <1>5 DEF StreamClosed, ClientTyped
<1>6. CASE ClipboardCall
  BY <1>6 DEF ClipboardCall, ClientTyped
<1>7. CASE StateClosed
  BY <1>7 DEF StateClosed, ClientTyped
<1>8. CASE SessionError
  BY <1>8 DEF SessionError, ClientTyped
<1>9. CASE Destroy
  BY <1>9 DEF Destroy, ClientTyped
<1>10. CASE Join
  BY <1>10 DEF Join, ClientTyped
<1>11. CASE Run
  BY <1>11 DEF Run, ClientTyped
<1>12. CASE Check
  BY <1>12 DEF Check, ClientTyped
<1>13. CASE Wait
  BY <1>13 DEF Wait, ClientTyped
<1>14. CASE Read
  BY <1>14 DEF Read, Handle, ClientTyped
<1>15. CASE OpenDynamicChannels
  BY <1>15 DEF OpenDynamicChannels, ClientTyped
<1>16. CASE CheckChannels
  BY <1>16 DEF CheckChannels, ClientTyped
<1>17. CASE OpenClipboard
  BY <1>17 DEF OpenClipboard, ClientTyped
<1>18. CASE CloseChannels
  BY <1>18 DEF CloseChannels, ClientTyped
<1>19. CASE CloseClipboard
  BY <1>19 DEF CloseClipboard, ClientTyped
<1>20. CASE CloseStream
  BY <1>20 DEF CloseStream, ClientTyped
<1>21. CASE EmitClosed
  BY <1>21 DEF EmitClosed, ClientTyped
<1>22. CASE ClipboardPdu
  BY <1>22 DEF ClipboardPdu, ClientTyped
<1>23. ASSUME NEW pdu \in {"suppress", "allow"}, ChangeOutput(pdu) PROVE ClientTyped'
  BY <1>23 DEF ChangeOutput, ClientSends, ClientTyped
<1>24. CASE Connect
  BY <1>24 DEF Connect, Once, ClientSends, ClientTyped
<1>25. CASE AnswerOpening
  BY <1>25 DEF AnswerOpening, Once, ClientSends, ClientTyped
<1>26. CASE Leave
  BY <1>26 DEF Leave, ClientTyped
<1>27. CASE UNCHANGED vars
  BY <1>27 DEF vars, ClientTyped
<1> QED
  BY <1>1, <1>2, <1>3, <1>4, <1>5, <1>6, <1>7, <1>8, <1>9,
     <1>10, <1>11, <1>12, <1>13, <1>14, <1>15, <1>16, <1>17, <1>18,
     <1>19, <1>20, <1>21, <1>22, <1>23, <1>24, <1>25, <1>26, <1>27
     DEF Next, MainThread, SessionThread

LEMMA NextLifeInv == MainTyped /\ SessionTyped /\ LifeInv /\ ChannelInv /\ QueueInv /\ [Next]_vars => LifeInv'
<1> SUFFICES ASSUME MainTyped, SessionTyped, LifeInv, ChannelInv, QueueInv, [Next]_vars PROVE LifeInv'
  OBVIOUS
<1>1. CASE Start
  BY <1>1 DEF Start, LifeInv
<1>2. CASE IncomingConnection
  BY <1>2 DEF IncomingConnection, LifeInv
<1>3. CASE Quit
  BY <1>3 DEF Quit, LifeInv
<1>4. CASE Initialize
  <2>1. thread = "none" /\ Tail(queue) = <<>> /\ queue # <<>>
    BY <1>4, Dues DEF Initialize, Due
  <2>2. object = "alive" /\ main = "loop"
    BY <1>4, <2>1 DEF Initialize, LifeInv, MainTyped
  <2> QED
    BY <1>4, <2>1, <2>2 DEF Initialize, LifeInv
<1>5. CASE StreamClosed
  BY <1>5 DEF StreamClosed, LifeInv
<1>6. CASE ClipboardCall
  BY <1>6 DEF ClipboardCall, LifeInv
<1>7. CASE StateClosed
  <2>1. object = "alive" /\ main = "loop"
    BY <1>7 DEF StateClosed, LifeInv, MainTyped
  <2> QED
    BY <1>7, <2>1 DEF StateClosed, LifeInv
<1>8. CASE SessionError
  BY <1>8 DEF SessionError, LifeInv
<1>9. CASE Destroy
  BY <1>9 DEF Destroy, LifeInv
<1>10. CASE Join
  BY <1>10 DEF Join, LifeInv
<1>11. CASE Run
  BY <1>11 DEF Run, LifeInv
<1>12. CASE Check
  BY <1>12 DEF Check, LifeInv
<1>13. CASE Wait
  BY <1>13 DEF Wait, LifeInv
<1>14. CASE Read
  BY <1>14 DEF Read, Handle, LifeInv
<1>15. CASE OpenDynamicChannels
  BY <1>15 DEF OpenDynamicChannels, LifeInv
<1>16. CASE CheckChannels
  BY <1>16 DEF CheckChannels, LifeInv
<1>17. CASE OpenClipboard
  BY <1>17 DEF OpenClipboard, LifeInv
<1>18. CASE CloseChannels
  BY <1>18 DEF CloseChannels, LifeInv
<1>19. CASE CloseClipboard
  BY <1>19 DEF CloseClipboard, LifeInv
<1>20. CASE CloseStream
  BY <1>20 DEF CloseStream, LifeInv
<1>21. CASE EmitClosed
  BY <1>21 DEF EmitClosed, LifeInv
<1>22. CASE ClipboardPdu
  <2>1. thread \in Working /\ object = "alive"
    BY <1>22 DEF ClipboardPdu, LifeInv, ChannelInv, MainTyped
  <2> QED
    BY <1>22, <2>1 DEF ClipboardPdu, LifeInv
<1>23. ASSUME NEW pdu \in {"suppress", "allow"}, ChangeOutput(pdu) PROVE LifeInv'
  BY <1>23 DEF ChangeOutput, ClientSends, LifeInv
<1>24. CASE Connect
  BY <1>24 DEF Connect, Once, ClientSends, LifeInv
<1>25. CASE AnswerOpening
  BY <1>25 DEF AnswerOpening, Once, ClientSends, LifeInv
<1>26. CASE Leave
  BY <1>26 DEF Leave, LifeInv
<1>27. CASE UNCHANGED vars
  BY <1>27 DEF vars, LifeInv
<1> QED
  BY <1>1, <1>2, <1>3, <1>4, <1>5, <1>6, <1>7, <1>8, <1>9,
     <1>10, <1>11, <1>12, <1>13, <1>14, <1>15, <1>16, <1>17, <1>18,
     <1>19, <1>20, <1>21, <1>22, <1>23, <1>24, <1>25, <1>26, <1>27
     DEF Next, MainThread, SessionThread

LEMMA NextChannelInv == SessionTyped /\ LifeInv /\ ChannelInv /\ QueueInv /\ [Next]_vars => ChannelInv'
<1> SUFFICES ASSUME SessionTyped, LifeInv, ChannelInv, QueueInv, [Next]_vars PROVE ChannelInv'
  OBVIOUS
<1>1. CASE Start
  BY <1>1 DEF Start, ChannelInv
<1>2. CASE IncomingConnection
  BY <1>2 DEF IncomingConnection, ChannelInv
<1>3. CASE Quit
  BY <1>3 DEF Quit, ChannelInv
<1>4. CASE Initialize
  <2>1. thread = "none"
    BY <1>4, Dues DEF Initialize, Due
  <2> QED
    BY <1>4, <2>1 DEF Initialize, ChannelInv
<1>5. CASE StreamClosed
  BY <1>5 DEF StreamClosed, ChannelInv
<1>6. CASE ClipboardCall
  <2>1. clip = "blocked"
    BY <1>6, Dues DEF ClipboardCall, Due
  <2> QED
    BY <1>6, <2>1 DEF ClipboardCall, ChannelInv
<1>7. CASE StateClosed
  BY <1>7 DEF StateClosed, ChannelInv
<1>8. CASE SessionError
  BY <1>8 DEF SessionError, ChannelInv
<1>9. CASE Destroy
  BY <1>9 DEF Destroy, ChannelInv
<1>10. CASE Join
  BY <1>10 DEF Join, ChannelInv
<1>11. CASE Run
  BY <1>11 DEF Run, ChannelInv
<1>12. CASE Check
  BY <1>12 DEF Check, ChannelInv
<1>13. CASE Wait
  BY <1>13 DEF Wait, ChannelInv
<1>14. CASE Read
  BY <1>14 DEF Read, Handle, ChannelInv
<1>15. CASE OpenDynamicChannels
  BY <1>15 DEF OpenDynamicChannels, ChannelInv
<1>16. CASE CheckChannels
  BY <1>16 DEF CheckChannels, ChannelInv
<1>17. CASE OpenClipboard
  BY <1>17 DEF OpenClipboard, ChannelInv
<1>18. CASE CloseChannels
  BY <1>18 DEF CloseChannels, ChannelInv
<1>19. CASE CloseClipboard
  BY <1>19 DEF CloseClipboard, ChannelInv
<1>20. CASE CloseStream
  BY <1>20 DEF CloseStream, ChannelInv
<1>21. CASE EmitClosed
  BY <1>21 DEF EmitClosed, ChannelInv
<1>22. CASE ClipboardPdu
  BY <1>22 DEF ClipboardPdu, ChannelInv
<1>23. ASSUME NEW pdu \in {"suppress", "allow"}, ChangeOutput(pdu) PROVE ChannelInv'
  BY <1>23 DEF ChangeOutput, ClientSends, ChannelInv
<1>24. CASE Connect
  BY <1>24 DEF Connect, Once, ClientSends, ChannelInv
<1>25. CASE AnswerOpening
  BY <1>25 DEF AnswerOpening, Once, ClientSends, ChannelInv
<1>26. CASE Leave
  BY <1>26 DEF Leave, ChannelInv
<1>27. CASE UNCHANGED vars
  BY <1>27 DEF vars, ChannelInv
<1> QED
  BY <1>1, <1>2, <1>3, <1>4, <1>5, <1>6, <1>7, <1>8, <1>9,
     <1>10, <1>11, <1>12, <1>13, <1>14, <1>15, <1>16, <1>17, <1>18,
     <1>19, <1>20, <1>21, <1>22, <1>23, <1>24, <1>25, <1>26, <1>27
     DEF Next, MainThread, SessionThread

LEMMA NextQueueInv == SessionTyped /\ LifeInv /\ ChannelInv /\ QueueInv /\ [Next]_vars => QueueInv'
<1> SUFFICES ASSUME SessionTyped, LifeInv, ChannelInv, QueueInv, [Next]_vars PROVE QueueInv'
  OBVIOUS
<1>1. CASE Start
  BY <1>1 DEF Start, QueueInv
<1>2. CASE IncomingConnection
  <2>1. thread = "none" /\ queue = <<>>
    BY <1>2 DEF IncomingConnection, LifeInv
  <2>2. queue' = <<"initialize">> /\ thread' = "none"
    BY <1>2, <2>1, Short DEF IncomingConnection
  <2> QED
    BY <2>2 DEF QueueInv
<1>3. CASE Quit
  BY <1>3 DEF Quit, QueueInv
<1>4. CASE Initialize
  <2>1. thread = "none" /\ Tail(queue) = <<>>
    BY <1>4, Dues DEF Initialize, Due
  <2>2. queue' = <<>> /\ thread' \in {"none", "start"} /\ clip' = "none"
    BY <1>4, <2>1 DEF Initialize, ChannelInv, SessionTyped
  <2> QED
    BY <2>2 DEF QueueInv
<1>5. CASE StreamClosed
  <2>1. \/ thread = "emitClosed" /\ Tail(queue) = <<>>
        \/ thread = "done" /\ Tail(queue) \in {<<>>, <<"Closed">>}
    BY <1>5, Dues DEF StreamClosed, Due
  <2>2. queue' = Tail(queue) /\ thread' = thread
    BY <1>5 DEF StreamClosed
  <2> QED
    BY <2>1, <2>2 DEF QueueInv
<1>6. CASE ClipboardCall
  <2>1. thread \in Working /\ Tail(queue) = <<>>
    BY <1>6, Dues DEF ClipboardCall, Due
  <2>2. queue' = <<>> /\ thread' \in Working /\ clip' = "idle"
    BY <1>6, <2>1 DEF ClipboardCall
  <2> QED
    BY <2>2 DEF QueueInv
<1>7. CASE StateClosed
  BY <1>7 DEF StateClosed, QueueInv
<1>8. CASE SessionError
  BY <1>8 DEF SessionError, QueueInv
<1>9. CASE Destroy
  BY <1>9 DEF Destroy, QueueInv
<1>10. CASE Join
  BY <1>10 DEF Join, QueueInv
<1>11. CASE Run
  BY <1>11 DEF Run, QueueInv
<1>12. CASE Check
  BY <1>12 DEF Check, QueueInv
<1>13. CASE Wait
  BY <1>13 DEF Wait, QueueInv
<1>14. CASE Read
  BY <1>14 DEF Read, Handle, QueueInv
<1>15. CASE OpenDynamicChannels
  BY <1>15 DEF OpenDynamicChannels, QueueInv
<1>16. CASE CheckChannels
  BY <1>16 DEF CheckChannels, QueueInv
<1>17. CASE OpenClipboard
  <2>1. queue' = queue /\ thread' \in Working /\ thread \in Working
    BY <1>17 DEF OpenClipboard
  <2>2. queue = IF clip = "blocked" THEN <<"clipboard">> ELSE <<>>
    BY <2>1 DEF QueueInv
  <2>3. clip' = "blocked" <=> clip = "blocked"
    BY <1>17 DEF OpenClipboard, ChannelInv
  <2> QED
    BY <2>1, <2>2, <2>3 DEF QueueInv
<1>18. CASE CloseChannels
  BY <1>18 DEF CloseChannels, QueueInv
<1>19. CASE CloseClipboard
  BY <1>19 DEF CloseClipboard, QueueInv
<1>20. CASE CloseStream
  BY <1>20 DEF CloseStream, QueueInv
<1>21. CASE EmitClosed
  <2>1. queue \in {<<>>, <<"streamClosed">>}
    BY <1>21 DEF EmitClosed, QueueInv
  <2>2. queue' \in {<<"Closed">>, <<"streamClosed", "Closed">>} /\ thread' = "done"
    BY <1>21, <2>1, Short DEF EmitClosed
  <2> QED
    BY <2>2 DEF QueueInv
<1>22. CASE ClipboardPdu
  <2>1. thread \in Working /\ clip # "blocked"
    BY <1>22 DEF ClipboardPdu, ChannelInv
  <2>2. queue = <<>>
    BY <2>1 DEF QueueInv
  <2>3. queue' = <<"clipboard">> /\ thread' \in Working /\ clip' = "blocked"
    BY <1>22, <2>1, <2>2, Short DEF ClipboardPdu
  <2> QED
    BY <2>3 DEF QueueInv
<1>23. ASSUME NEW pdu \in {"suppress", "allow"}, ChangeOutput(pdu) PROVE QueueInv'
  BY <1>23 DEF ChangeOutput, ClientSends, QueueInv
<1>24. CASE Connect
  BY <1>24 DEF Connect, Once, ClientSends, QueueInv
<1>25. CASE AnswerOpening
  BY <1>25 DEF AnswerOpening, Once, ClientSends, QueueInv
<1>26. CASE Leave
  BY <1>26 DEF Leave, QueueInv
<1>27. CASE UNCHANGED vars
  BY <1>27 DEF vars, QueueInv
<1> QED
  BY <1>1, <1>2, <1>3, <1>4, <1>5, <1>6, <1>7, <1>8, <1>9,
     <1>10, <1>11, <1>12, <1>13, <1>14, <1>15, <1>16, <1>17, <1>18,
     <1>19, <1>20, <1>21, <1>22, <1>23, <1>24, <1>25, <1>26, <1>27
     DEF Next, MainThread, SessionThread

LEMMA NextInv == IInv /\ [Next]_vars => IInv'
  BY NextMainTyped, NextSessionTyped, NextClientTyped, NextLifeInv, NextChannelInv,
     NextQueueInv DEF IInv

\* What the run checks of the states follows.
LEMMA Queues ==
  ASSUME SessionTyped, QueueInv
  PROVE  /\ queue \in Seq({"initialize", "streamClosed", "clipboard", "Closed"})
         /\ Len(queue) <= 3
<1> DEFINE E == {"initialize", "streamClosed", "clipboard", "Closed"}
<1>1. queue \in {<<>>, <<"initialize">>, <<"clipboard">>, <<"streamClosed">>, <<"Closed">>,
                 <<"streamClosed", "Closed">>}
  BY DEF SessionTyped, QueueInv
<1>2. <<>> \in Seq(E) /\ Len(<<>>) = 0
  OBVIOUS
<1>3. \A e \in E : <<e>> \in Seq(E) /\ Len(<<e>>) = 1
  OBVIOUS
<1>4. \A d, e \in E : <<d, e>> \in Seq(E) /\ Len(<<d, e>>) = 2
  OBVIOUS
<1>5. queue \in Seq(E) /\ Len(queue) \in {0, 1, 2}
  <2>1. CASE queue = <<>>
    BY <2>1, <1>2
  <2>2. CASE queue = <<"initialize">>
    BY <2>2, <1>3
  <2>3. CASE queue = <<"clipboard">>
    BY <2>3, <1>3
  <2>4. CASE queue = <<"streamClosed">>
    BY <2>4, <1>3
  <2>5. CASE queue = <<"Closed">>
    BY <2>5, <1>3
  <2>6. CASE queue = <<"streamClosed", "Closed">>
    BY <2>6, <1>4
  <2> QED
    BY <1>1, <2>1, <2>2, <2>3, <2>4, <2>5, <2>6
<1>6. \A n \in {0, 1, 2} : n <= 3
  OBVIOUS
<1>7. Len(queue) <= 3
  BY ONLY <1>5, <1>6, Zenon
<1> QED
  BY <1>5, <1>7

LEMMA InvHolds == IInv => ConnectionInv
<1> SUFFICES ASSUME IInv PROVE ConnectionInv
  OBVIOUS
<1>1. TypeOK
  BY Queues DEF IInv, MainTyped, SessionTyped, ClientTyped, TypeOK
<1>2. ThreadHasPeer
  BY DEF IInv, LifeInv, MainTyped, ThreadHasPeer
<1>3. ChannelsHavePeer
  BY DEF IInv, LifeInv, ChannelInv, SessionTyped, ChannelsHavePeer
<1> QED
  BY <1>1, <1>2, <1>3 DEF ConnectionInv

\* In every reachable state the session thread works on a peer of a connection
\* that exists, and no channel is open without the peer it was opened on: a
\* connection may be destroyed in any state (~RdpConnection, onClose).
THEOREM AlwaysConnectionInv == Spec => []ConnectionInv
<1>1. IInv /\ [Next]_vars => IInv'
  BY NextInv
<1> QED
  BY InitInv, <1>1, InvHolds, PTL DEF Spec
=============================================================================
