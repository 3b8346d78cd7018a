------------------------------ MODULE Clipboard ------------------------------
(***************************************************************************)
(* KRdp::Clipboard (src/Clipboard.cpp) between the main thread, the        *)
(* session thread that starts and closes it, and the channel's thread,     *)
(* which hands every PDU of the client to the main thread and waits until  *)
(* it has been handled.                                                    *)
(*                                                                         *)
(* A text is a number: the how-manieth text the server, or the client, has *)
(* put on its clipboard; 0 is none.  The flags initialized, enabled and    *)
(* hasServerText are plain bools that two threads write and read without a *)
(* lock.  With StoreBuffers the write of a thread may wait in a buffer     *)
(* before the other one sees it, which is what the hardware may do;        *)
(* without, memory is sequentially consistent.  Posting an event takes a   *)
(* mutex, which empties the buffer.                                        *)
(***************************************************************************)
EXTENDS Integers, SequencesExt

CONSTANTS
  FormatLists,   \* the lists of formats the client may offer a text in
  StoreBuffers,
  MaxTexts,      \* bound: texts set by the server
  MaxCopies,     \* bound: texts copied at the client
  MaxToggles,    \* bound: calls of setEnabled
  MaxPastes      \* bound: pastes at the client

Unicode == "CF_UNICODETEXT"
Text    == "CF_TEXT"
Oem     == "CF_OEMTEXT"
Other   == "other"
None    == "none"
Formats == {Unicode, Text, Oem, Other}
Garbage == -1

ASSUME ClipboardAssumption ==
  /\ FormatLists \subseteq Seq(Formats)
  /\ StoreBuffers \in BOOLEAN
  /\ {MaxTexts, MaxCopies, MaxToggles, MaxPastes} \subseteq Nat

VARIABLES
  session,     \* session thread: start, check, running, closing, stopped, closed
  context,     \* whether clipContext is set
  initialized, enabled, serverText,
  seenInit,    \* initialized as the main thread reads it
  seenMain,    \* enabled and hasServerText as the session thread reads them
  main,        \* main thread: idle, check or send
  events,      \* the main thread's event queue: Send or a PDU
  channel,     \* channel thread: idle, or blocked on the main thread
  requestedClientFormat,
  toServer, toClient, \* external: the channel, reliable and in order
  copied,      \* external: the client's current text
  formats,     \* external: the formats it is offered in
  malformed,   \* external: the client's texts whose bytes do not decode
  offered,     \* external: the server text the client was last told of
  pasted,      \* external: what the last paste gave, with what had been offered
  pastes,      \* history: pastes so far
  toggles,     \* history: calls of setEnabled
  advertised,  \* history: the text last advertised with ServerFormatList
  emitted,     \* history: the text of the last clientTextChanged
  asked,       \* history: the copy whose list was handled while enabled
  missed,      \* history: a check missed a write that was still in a buffer
  crossed      \* history: a list asked for another format than an answer under way

flagVars    == <<initialized, enabled, seenInit, seenMain>>
wireVars    == <<toServer, toClient>>
clientVars  == <<copied, formats, malformed, offered, pasted, pastes>>
vars == <<session, context, flagVars, serverText, main, events, channel,
          requestedClientFormat, wireVars, clientVars, toggles, advertised,
          emitted, asked, missed, crossed>>

Send == [pdu |-> "send"]
List(fs) == [pdu |-> "list", formats |-> fs, text |-> copied + 1]
Want(f) == [pdu |-> "request", format |-> f]
Data(f, ok, t) == [pdu |-> "data", format |-> f, ok |-> ok, text |-> t]

Init ==
  /\ session = "start" /\ context = FALSE
  /\ initialized = FALSE /\ enabled = FALSE /\ serverText = 0
  /\ seenInit = FALSE /\ seenMain = [enabled |-> FALSE, hasText |-> FALSE]
  /\ main = "idle" /\ events = <<>> /\ channel = "idle"
  /\ requestedClientFormat = None
  /\ toServer = <<>> /\ toClient = <<>>
  /\ copied = 0 /\ formats = <<>> /\ malformed = {} /\ offered = 0
  /\ pasted = [got |-> 0, offered |-> 0] /\ pastes = 0
  /\ toggles = 0 /\ advertised = 0 /\ emitted = 0 /\ asked = 0
  /\ missed = FALSE /\ crossed = FALSE

-----------------------------------------------------------------------------
(* Session thread *)

\* What the other thread may see after a write, until the buffer drains.
Visible(old, new) == {new} \cup (IF StoreBuffers THEN {old} ELSE {})

\* initialize, up to initialized = true; or context_new or Start fails.
Initialize ==
  /\ session = "start"
  /\ \/ /\ context' = TRUE /\ initialized' = TRUE /\ session' = "check"
        /\ seenInit' \in Visible(seenInit, TRUE)
     \/ /\ context' \in BOOLEAN /\ session' = "closing"
        /\ UNCHANGED <<initialized, seenInit>>
  /\ UNCHANGED <<enabled, serverText, seenMain, main, events, channel,
                 requestedClientFormat, wireVars, clientVars, toggles,
                 advertised, emitted, asked, missed, crossed>>

\* What setEnabled and setServerText have written.
MainFlags == [enabled |-> enabled, hasText |-> serverText # 0]

\* Mutant: initialize leaves the text already set to the next setServerText.
NothingWaits == FALSE
TextWaits == seenMain.enabled /\ seenMain.hasText

\* initialize, the rest: a text set earlier is advertised from the event loop.
InitializeCheck ==
  /\ session = "check"
  /\ IF TextWaits THEN events' = Append(events, Send) /\ seenInit' = initialized
                  ELSE UNCHANGED <<events, seenInit>>
  /\ session' = "running"
  /\ missed' = (missed \/ seenMain # MainFlags)
  /\ UNCHANGED <<context, initialized, enabled, seenMain, serverText, main,
                 channel, requestedClientFormat, wireVars, clientVars, toggles,
                 advertised, emitted, asked, crossed>>

\* close: Stop waits for the channel's thread, which must not be in a callback.
Stop ==
  /\ session \in {"running", "closing"}
  /\ session' = IF context THEN "stopped" ELSE "closed"
  /\ channel = "idle"
  /\ UNCHANGED <<context, flagVars, serverText, main, events, channel,
                 requestedClientFormat, wireVars, clientVars, toggles,
                 advertised, emitted, asked, missed, crossed>>

Free ==
  /\ session = "stopped"
  /\ session' = "closed" /\ context' = FALSE
  /\ initialized' = FALSE /\ enabled' = FALSE /\ requestedClientFormat' = None
  /\ seenInit' = FALSE /\ seenMain' = [seenMain EXCEPT !.enabled = FALSE]
  /\ asked' = 0
  /\ UNCHANGED <<serverText, main, events, channel, wireVars, clientVars,
                 toggles, advertised, emitted, missed, crossed>>

-----------------------------------------------------------------------------
(* Main thread: calls of the embedder *)

SetEnabled(b) ==
  /\ main = "idle" /\ session # "closed"
  /\ toggles < MaxToggles /\ toggles' = toggles + 1
  /\ b # enabled
  /\ enabled' = b /\ requestedClientFormat' = None
  /\ seenMain' \in Visible(seenMain, [seenMain EXCEPT !.enabled = b])
  /\ main' = "check" /\ asked' = 0
  /\ UNCHANGED <<session, context, initialized, seenInit, serverText, events,
                 channel, wireVars, clientVars, advertised, emitted, missed, crossed>>

SetServerText ==
  /\ main = "idle" /\ session # "closed"
  /\ serverText < MaxTexts
  /\ serverText' = serverText + 1
  /\ seenMain' \in Visible(seenMain, [seenMain EXCEPT !.hasText = TRUE])
  /\ main' = "check"
  /\ UNCHANGED <<session, context, initialized, enabled, seenInit, events,
                 channel, requestedClientFormat, wireVars, clientVars, toggles,
                 advertised, emitted, asked, missed, crossed>>

\* The end of setEnabled and of setServerText, which ask for the same.
Check ==
  /\ main = "check"
  /\ IF seenInit /\ enabled /\ serverText # 0
       THEN events' = Append(events, Send) /\ seenMain' = MainFlags
       ELSE UNCHANGED <<events, seenMain>>
  /\ main' = "idle"
  /\ missed' = (missed \/ seenInit # initialized)
  /\ UNCHANGED <<session, context, initialized, enabled, seenInit, serverText,
                 channel, requestedClientFormat, wireVars, clientVars, toggles,
                 advertised, emitted, asked, crossed>>

-----------------------------------------------------------------------------
(* Main thread: events *)

Event(kind) == main = "idle" /\ events # <<>> /\ Head(events).pdu = kind
               /\ events' = Tail(events)

\* sendServerData, the checks.
SendServerData ==
  /\ Event("send")
  /\ main' = IF seenInit /\ enabled /\ serverText # 0 /\ context THEN "send" ELSE "idle"
  /\ missed' = (missed \/ seenInit # initialized)
  /\ UNCHANGED <<session, context, flagVars, serverText, channel,
                 requestedClientFormat, wireVars, clientVars, toggles,
                 advertised, emitted, asked, crossed>>

\* sendServerData, ServerFormatList.  When the session thread has freed the
\* context in between, nothing is sent (at best).
ServerFormatList ==
  /\ main = "send" /\ main' = "idle"
  /\ IF context
       THEN /\ toClient' = Append(toClient, [pdu |-> "offer", text |-> serverText])
            /\ advertised' = serverText
       ELSE UNCHANGED <<toClient, advertised>>
  /\ UNCHANGED <<session, context, flagVars, serverText, events, channel,
                 requestedClientFormat, toServer, clientVars, toggles, emitted,
                 asked, missed, crossed>>

\* The format asked for: Unicode if there is any, else the first plain one.
Preferred(fs) ==
  LET plain == {i \in DOMAIN fs : fs[i] \in {Text, Oem}}
  IN IF Unicode \in Range(fs) THEN Unicode
     ELSE IF plain # {} THEN fs[Min(plain)] ELSE None

\* The event is over, and with it the wait of the channel's thread.
Handled == channel' = "idle" /\ UNCHANGED <<session, context, flagVars, serverText,
                                            main, clientVars, toggles, advertised>>

\* The formats of the answers to come, most of which the client has yet to give.
Expected ==
  {p.format : p \in {q \in Range(toClient) : q.pdu = "request"}}
    \cup {p.format : p \in {q \in Range(toServer \o events) : q.pdu = "data"}}

\* onClientFormatList (the response to the list itself carries nothing)
OnClientFormatList ==
  /\ Event("list")
  /\ LET f == IF enabled THEN Preferred(Head(events).formats) ELSE None
     IN /\ requestedClientFormat' = f
        /\ toClient' = IF f = None THEN toClient ELSE Append(toClient, Want(f))
        /\ asked' = IF f = None THEN 0 ELSE Head(events).text
        /\ crossed' = (crossed \/ (f # None /\ ~Expected \subseteq {f}))
  /\ Handled /\ UNCHANGED <<toServer, emitted, missed>>

\* Mutant: the text is encoded once and kept.
FirstText == 1
CurrentText == serverText

\* onClientFormatDataRequest and encodeClipboardText
OnClientFormatDataRequest ==
  /\ Event("request")
  /\ LET f  == Head(events).format
         ok == enabled /\ serverText # 0 /\ f \in {Unicode, Text, Oem}
     IN toClient' = Append(toClient, Data(f, ok, IF ok THEN CurrentText ELSE 0))
  /\ Handled /\ UNCHANGED <<requestedClientFormat, toServer, emitted, asked, missed, crossed>>

\* decodeClipboardText: bytes of format f read as format g; 0 stands for no text.
\* A malformed text (more than 16 MiB, an odd number of UTF-16 bytes, bytes that
\* are no UTF-16) does not decode; bytes of another format may or may not.
Decoded(f, g, text) ==
  LET alike == g = f \/ {f, g} = {Text, Oem}
  IN CASE g = None -> {0}
       [] g # None /\ alike -> {IF text \in malformed THEN 0 ELSE text}
       [] g # None /\ ~alike ->
            {Garbage} \cup (IF g = Unicode \/ text \in malformed THEN {0} ELSE {})

\* Mutant: the format is cleared before it is used.
Cleared == None
Requested == requestedClientFormat

OnClientFormatDataResponse ==
  /\ Event("data")
  /\ LET r == Head(events)
     IN \E text \in (IF enabled /\ r.ok
                       THEN Decoded(r.format, Requested, r.text) ELSE {0}) :
          IF text = 0
            THEN UNCHANGED <<requestedClientFormat, emitted>>
            ELSE emitted' = text /\ requestedClientFormat' = None
  /\ Handled /\ UNCHANGED <<wireVars, asked, missed, crossed>>

-----------------------------------------------------------------------------
\* Channel thread: BlockingQueuedConnection to the main thread.
Receive ==
  /\ session \in {"check", "running"} /\ channel = "idle" /\ toServer # <<>>
  /\ channel' = "blocked"
  /\ events' = Append(events, Head(toServer))
  /\ toServer' = Tail(toServer)
  /\ UNCHANGED <<session, context, flagVars, serverText, main,
                 requestedClientFormat, toClient, clientVars, toggles,
                 advertised, emitted, asked, missed, crossed>>

-----------------------------------------------------------------------------
\* The hardware: a thread's store buffer drains.
Drain ==
  /\ \/ seenInit # initialized /\ seenInit' = initialized /\ UNCHANGED seenMain
     \/ seenMain # MainFlags /\ seenMain' = MainFlags /\ UNCHANGED seenInit
  /\ UNCHANGED <<session, context, initialized, enabled, serverText, main, events,
                 channel, requestedClientFormat, wireVars, clientVars, toggles,
                 advertised, emitted, asked, missed, crossed>>

-----------------------------------------------------------------------------
(* Client *)

Copy(fs) ==
  /\ copied < MaxCopies
  /\ copied' = copied + 1 /\ formats' = fs
  /\ malformed' \in {malformed, malformed \cup {copied + 1}}
  /\ toServer' = Append(toServer, List(fs))
  /\ UNCHANGED <<session, context, flagVars, serverText, main, events, channel,
                 requestedClientFormat, toClient, offered, pasted, pastes,
                 toggles, advertised, emitted, asked, missed, crossed>>

Paste(f) ==
  /\ offered # 0 /\ pastes < MaxPastes
  /\ pastes' = pastes + 1
  /\ toServer' = Append(toServer, Want(f))
  /\ UNCHANGED <<session, context, flagVars, serverText, main, events, channel,
                 requestedClientFormat, toClient, copied, formats, malformed, offered,
                 pasted, toggles, advertised, emitted, asked, missed, crossed>>

\* The client answers a request with its current text, if it has that format.
ClientReceive ==
  /\ toClient # <<>>
  /\ toClient' = Tail(toClient)
  /\ LET p == Head(toClient)
     IN CASE p.pdu = "offer" ->
               offered' = p.text /\ UNCHANGED <<toServer, pasted>>
          [] p.pdu = "request" ->
               /\ toServer' = Append(toServer,
                                Data(p.format, p.format \in Range(formats), copied))
               /\ UNCHANGED <<offered, pasted>>
          [] OTHER ->
               pasted' = [got |-> p.text, offered |-> offered] /\ UNCHANGED <<offered, toServer>>
  /\ UNCHANGED <<session, context, flagVars, serverText, main, events, channel,
                 requestedClientFormat, copied, formats, malformed, pastes, toggles,
                 advertised, emitted, asked, missed, crossed>>

-----------------------------------------------------------------------------
MainLoop ==
  \/ Check \/ SendServerData \/ ServerFormatList
  \/ OnClientFormatList \/ OnClientFormatDataRequest \/ OnClientFormatDataResponse

Next ==
  \/ Initialize \/ InitializeCheck \/ Stop \/ Free
  \/ \E b \in BOOLEAN : SetEnabled(b)
  \/ SetServerText
  \/ MainLoop
  \/ Receive \/ Drain
  \/ \E fs \in FormatLists : Copy(fs)
  \/ \E f \in Formats : Paste(f)
  \/ ClientReceive

Spec == Init /\ [][Next]_vars

-----------------------------------------------------------------------------
TypeOK ==
  /\ session \in {"start", "check", "running", "closing", "stopped", "closed"}
  /\ {context, initialized, enabled, seenInit} \subseteq BOOLEAN
  /\ seenMain \in [enabled : BOOLEAN, hasText : BOOLEAN]
  /\ main \in {"idle", "check", "send"}
  /\ channel \in {"idle", "blocked"}
  /\ channel = "blocked" <=> \E i \in DOMAIN events : events[i].pdu # "send"
  /\ requestedClientFormat \in {Unicode, Text, Oem, None}
  /\ serverText \in 0..MaxTexts /\ copied \in 0..MaxCopies
  /\ {offered, advertised, pasted.got, pasted.offered} \subseteq 0..serverText
  /\ malformed \subseteq 1..copied /\ emitted \in -1..copied /\ asked \in 0..copied
  /\ {missed, crossed} \subseteq BOOLEAN

\* A text set by the host is advertised, in whatever order the channel comes up,
\* the clipboard is enabled and the text is set: while the clipboard works, the
\* current text has been advertised, or the event that will is queued, or one of
\* the two threads is still inside the call that will queue it.  Only a write
\* the other thread could not see yet may leave it unadvertised: the flags are
\* plain bools.
AdvertisedOrPending ==
  initialized /\ enabled /\ serverText # 0 /\ ~missed =>
    \/ advertised = serverText
    \/ \E i \in DOMAIN events : events[i] = Send
    \/ main # "idle"
    \/ session # "running"

\* What the run checks about the host's side: both of the above.
ClipboardInv == TypeOK /\ AdvertisedOrPending

\* The text the client gets when it pastes is never older than the one it had
\* been offered.
PasteIsCurrent == pasted.got # 0 => pasted.got >= pasted.offered

\* What is emitted is text the client published (Clipboard.h), never one whose
\* bytes do not decode, and once all messages about it have been handled, it is
\* the client's last text, provided it decodes, its list came while the clipboard
\* was enabled and the clipboard stayed so.  One thing may spoil it: an answer
\* that was under way when a list asked for another format is decoded as if it
\* were in that one.
LastCopyEmitted ==
  ~crossed =>
    /\ emitted \notin malformed \cup {Garbage}
    /\ /\ toServer = <<>> /\ toClient = <<>> /\ events = <<>> /\ main = "idle"
       /\ asked = copied /\ copied \notin malformed
       => emitted = copied
=============================================================================
