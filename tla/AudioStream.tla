----------------------------- MODULE AudioStream -----------------------------
(* src/AudioStream.cpp: the playback channel of one connection.  The session  *)
(* thread initializes and closes it (RdpConnection::onPostConnect, onClose),   *)
(* FreeRDP's channel thread calls `activated`, and the embedder sends samples  *)
(* and follows activeChanged from the main thread.  `active` is atomic; the    *)
(* context pointer is shared without a lock, so both of sendSamples' reads of  *)
(* it are steps of their own.                                                  *)
(*                                                                             *)
(* The destructor's own close() is left out: by then the session thread has    *)
(* ended and the context is gone, so that all it can do is to take back a flag *)
(* that an activation stored behind close(), and the object goes with it.      *)
EXTENDS Naturals, Sequences

CONSTANTS Pcm,       \* the one format the server plays: 48 kHz stereo 16 bit
          Others,    \* formats a client may also offer
          MaxFormats,  \* bound: formats in a client's list
          Sizes      \* sizes in bytes of the chunks the embedder sends

ASSUME AudioAssumption == /\ Pcm \notin Others
                          /\ MaxFormats \in Nat
                          /\ Sizes \subseteq Nat

VARIABLES context,    \* "new" | "live" | "gone"
          channel,    \* the channel thread: "none" | "running" | "selected" | "stored" | "idle"
          selected,   \* format SelectFormat succeeded with, or "none"
          active,     \* the atomic flag
          closing,    \* close(): "open" | "stopping" | "resetting" | "announcing" | "closed"
          wasActive,  \* what close() exchanged the flag for
          notices,    \* activeChanged signals queued to the embedder
          seen,       \* active() as the embedder last read it in its handler
          sending     \* sendSamples: "idle" | "flagged" | "checked" | "called" | "lost"

audioVars == <<context, channel, selected, active, closing, wasActive, notices, seen, sending>>

Lists == UNION {[1..n -> Others \cup {Pcm}] : n \in 0..MaxFormats}

AudioInit ==
  /\ context = "new" /\ channel = "none" /\ selected = "none"
  /\ active = FALSE /\ closing = "open" /\ wasActive = FALSE
  /\ notices = 0 /\ seen = FALSE /\ sending = "idle"

-----------------------------------------------------------------------------
(* The session thread *)

\* initialize(): the channel thread starts before Initialize returns.
Initialize ==
  /\ context = "new" /\ closing = "open"
  /\ context' = "live" /\ channel' = "running"
  /\ UNCHANGED <<selected, active, closing, wasActive, notices, seen, sending>>

\* initialize() when an allocation or the channel's Initialize fails: it calls
\* close() itself, which finds no activation and leaves no context.
InitializeFails ==
  /\ context = "new" /\ closing = "open"
  /\ context' = "gone"
  /\ UNCHANGED <<channel, selected, active, closing, wasActive, notices, seen, sending>>

\* Mutant: the change is announced before the exchange as well as after.
CloseTwice ==
  /\ closing = "open"
  /\ closing' = "stopping" /\ wasActive' = active /\ active' = FALSE
  /\ notices' = notices + 1
  /\ UNCHANGED <<context, channel, selected, seen, sending>>

\* close(), first statement: active.exchange(false).
Close ==
  /\ closing = "open"
  /\ closing' = "stopping" /\ wasActive' = active /\ active' = FALSE
  /\ UNCHANGED <<context, channel, selected, notices, seen, sending>>

\* context->Stop: joins the channel thread, so it waits for a running callback.
Stop ==
  /\ closing = "stopping"
  /\ channel \notin {"selected", "stored"}
  /\ channel' = IF channel = "running" THEN "idle" ELSE channel
  /\ closing' = "resetting"
  /\ UNCHANGED <<context, selected, active, wasActive, notices, seen, sending>>

\* context.reset()
Reset ==
  /\ closing = "resetting"
  /\ context' = "gone" /\ closing' = "announcing"
  /\ UNCHANGED <<channel, selected, active, wasActive, notices, seen, sending>>

\* Mutant: the flag itself is asked, not the value it was exchanged for.
AnnounceStale ==
  /\ closing = "announcing"
  /\ notices' = IF active THEN notices + 1 ELSE notices
  /\ closing' = "closed"
  /\ UNCHANGED <<context, channel, selected, active, wasActive, seen, sending>>

AnnounceClosed ==
  /\ closing = "announcing"
  /\ notices' = IF wasActive THEN notices + 1 ELSE notices
  /\ closing' = "closed"
  /\ UNCHANGED <<context, channel, selected, active, wasActive, seen, sending>>

-----------------------------------------------------------------------------
(* The channel thread: activated, once, with the client's list of formats *)

\* Mutant: SelectFormat's result is ignored.
NegotiateBlindly(formats, ok) ==
  /\ channel = "running"
  /\ LET found == \E i \in DOMAIN formats : formats[i] = Pcm
     IN  IF found
         THEN channel' = "selected" /\ selected' = IF ok THEN Pcm ELSE selected
         ELSE channel' = "idle" /\ UNCHANGED selected
  /\ UNCHANGED <<context, active, closing, wasActive, notices, seen, sending>>

\* The first PCM entry is selected; a failed SelectFormat ends the search.
Negotiate(formats, ok) ==
  /\ channel = "running"
  /\ LET found == \E i \in DOMAIN formats : formats[i] = Pcm
     IN  IF found /\ ok
         THEN channel' = "selected" /\ selected' = Pcm
         ELSE channel' = "idle" /\ UNCHANGED selected
  /\ UNCHANGED <<context, active, closing, wasActive, notices, seen, sending>>

StoreActive ==
  /\ channel = "selected"
  /\ active' = TRUE /\ channel' = "stored"
  /\ UNCHANGED <<context, selected, closing, wasActive, notices, seen, sending>>

AnnounceActive ==
  /\ channel = "stored"
  /\ notices' = notices + 1 /\ channel' = "idle"
  /\ UNCHANGED <<context, selected, active, closing, wasActive, seen, sending>>

-----------------------------------------------------------------------------
(* The embedder *)

\* Its activeChanged handler reads active().
Notice ==
  /\ notices > 0 /\ sending = "idle"
  /\ notices' = notices - 1 /\ seen' = active
  /\ UNCHANGED <<context, channel, selected, active, closing, wasActive, sending>>

Frames(bytes) == bytes \div 4

\* sendSamples: the flag, then the context and the size, then the call.
ReadFlag ==
  /\ sending = "idle" /\ active
  /\ sending' = "flagged"
  /\ UNCHANGED <<context, channel, selected, active, closing, wasActive, notices, seen>>

CheckContext(bytes) ==
  /\ sending = "flagged"
  /\ sending' = IF context = "live" /\ Frames(bytes) > 0 THEN "checked" ELSE "idle"
  /\ UNCHANGED <<context, channel, selected, active, closing, wasActive, notices, seen>>

\* A context gone since the check makes the call undefined: "lost" is final.
SendSamples ==
  /\ sending = "checked"
  /\ sending' = IF context = "live" THEN "called" ELSE "lost"
  /\ UNCHANGED <<context, channel, selected, active, closing, wasActive, notices, seen>>

SendReturns ==
  /\ sending = "called"
  /\ sending' = "idle"
  /\ UNCHANGED <<context, channel, selected, active, closing, wasActive, notices, seen>>

AudioNext ==
  \/ Initialize \/ InitializeFails \/ Close \/ Stop \/ Reset \/ AnnounceClosed
  \/ \E formats \in Lists, ok \in BOOLEAN : Negotiate(formats, ok)
  \/ StoreActive \/ AnnounceActive
  \/ Notice \/ ReadFlag \/ (\E b \in Sizes : CheckContext(b)) \/ SendSamples \/ SendReturns

AudioSpec == AudioInit /\ [][AudioNext]_audioVars

-----------------------------------------------------------------------------
\* The types of the state AudioStream::Private keeps and of the threads' places.
AudioTypeOK ==
  /\ context \in {"new", "live", "gone"}
  /\ channel \in {"none", "running", "selected", "stored", "idle"}
  /\ selected \in {"none", Pcm} \cup Others
  /\ active \in BOOLEAN /\ wasActive \in BOOLEAN /\ seen \in BOOLEAN
  /\ closing \in {"open", "stopping", "resetting", "announcing", "closed"}
  /\ notices \in 0..2
  /\ sending \in {"idle", "flagged", "checked", "called", "lost"}

\* Whatever the order of activation (AudioStream.cpp:35-36) and close() (118,
\* 125-127), an embedder whose last reading of active() is out of date has a
\* notice to come: one is queued, or a thread that changed the flag has yet to
\* emit it.
EmbedderWillKnow ==
  seen # active => \/ notices > 0
                   \/ channel = "stored"
                   \/ wasActive /\ closing \in {"stopping", "resetting", "announcing"}

\* Samples enter a live context only after SelectFormat succeeded in it
\* (AudioStream.cpp:34-35, 137), whatever close() and the channel thread do
\* between the flag's reading and the call.
SamplesNeedFormat ==
  sending \in {"checked", "called"} /\ context = "live" => selected = Pcm
=============================================================================
